------------------------- MODULE ChannelBridgeProofs -------------------------
(***************************************************************************)
(* ChannelBridge: one end closes both, a closed session lets go, and no    *)
(* session calls into a mux that is gone.                                  *)
(*                                                                         *)
(* The operations call each other while a session is half way out, so Good *)
(* is not theirs to keep one by one. Each primitive gets a lemma on the    *)
(* fields it changes; Leaving, which is Good but for the session on its    *)
(* way out, is what every handler is called in, and FinishClosed and       *)
(* Finish lead from it back to Good. The steps only combine these.         *)
(***************************************************************************)
EXTENDS ChannelBridge, TLAPS

LEMMA Two ==
    ASSUME NEW x \in Sides
    PROVE  /\ Other(x) \in Sides /\ Other(x) # x /\ Other(Other(x)) = x
           /\ \A y \in Sides : y = x \/ y = Other(x)
  BY DEF Sides, Other

LEMMA Parts ==
    ASSUME NEW v \in State
    PROVE  /\ v.s \in [Sides -> Session] /\ v.up \in [Sides -> BOOLEAN]
           /\ v.chan \in [Sides -> {"Open", "Closing", "Closed"}]
           /\ v.b \in Bridge /\ v.gone \in BOOLEAN /\ v.frames \in 0..MaxFrames
  BY DEF State

LEMMA PutSession ==
    ASSUME NEW v \in State, NEW x \in Sides, NEW r \in Session
    PROVE  LET u == [v EXCEPT !.s[x] = r]
           IN  /\ u \in State
               /\ u.s[x] = r /\ \A y \in Sides : y # x => u.s[y] = v.s[y]
               /\ u.b = v.b /\ u.chan = v.chan /\ u.up = v.up
               /\ u.gone = v.gone /\ u.frames = v.frames
  BY DEF State

\* Nothing but session x, its channel, and gone, differ.
OnlyAt(u, v, x) ==
    /\ u \in State
    /\ u.b = v.b /\ u.up = v.up /\ u.frames = v.frames
    /\ \A y \in Sides : y # x => u.s[y] = v.s[y] /\ u.chan[y] = v.chan[y]
    /\ u.s[x].hooked = v.s[x].hooked /\ u.s[x].once = v.s[x].once
    /\ u.s[x].quiet = v.s[x].quiet /\ u.s[x].told = v.s[x].told

LEMMA ClosedEffect ==
    ASSUME NEW v \in State, NEW x \in Sides
    PROVE  LET u == Closed(v, x)
           IN  /\ OnlyAt(u, v, x)
               /\ u.s[x].closed = TRUE /\ u.s[x].mux = v.s[x].mux
               /\ u.s[x].cb = v.s[x].cb /\ u.s[x].frame = v.s[x].frame
               /\ u.gone = v.gone
               /\ u.chan = v.chan
  <1> DEFINE r == [v.s[x] EXCEPT !.closed = TRUE]
  <1>1. /\ r \in Session
        /\ r.closed = TRUE /\ r.mux = v.s[x].mux /\ r.cb = v.s[x].cb
        /\ r.frame = v.s[x].frame /\ r.hooked = v.s[x].hooked /\ r.once = v.s[x].once
        /\ r.quiet = v.s[x].quiet /\ r.told = v.s[x].told
    <2> v.s[x] \in Session BY Parts
    <2> QED BY DEF Session
  <1>2. Closed(v, x) = [v EXCEPT !.s[x] = r]
    BY DEF Closed
  <1> HIDE DEF r
  <1> QED
    BY <1>1, <1>2, PutSession DEF OnlyAt

LEMMA ForgetEffect ==
    ASSUME NEW v \in State, NEW x \in Sides
    PROVE  LET u == Forget(v, x)
           IN  /\ OnlyAt(u, v, x)
               /\ u.s[x].closed = v.s[x].closed /\ u.s[x].mux = FALSE
               /\ u.s[x].cb = "none" /\ u.s[x].frame = "none"
               /\ u.gone = v.gone
               /\ u.chan = v.chan
  <1> DEFINE r == [v.s[x] EXCEPT !.mux = FALSE, !.frame = "none", !.cb = "none"]
  <1>1. /\ r \in Session
        /\ r.closed = v.s[x].closed /\ r.mux = FALSE /\ r.cb = "none"
        /\ r.frame = "none" /\ r.hooked = v.s[x].hooked /\ r.once = v.s[x].once
        /\ r.quiet = v.s[x].quiet /\ r.told = v.s[x].told
    <2> v.s[x] \in Session BY Parts
    <2> QED BY DEF Session, Handlers
  <1>2. Forget(v, x) = [v EXCEPT !.s[x] = r]
    BY DEF Forget, State, Session
  <1> HIDE DEF r
  <1> QED
    BY <1>1, <1>2, PutSession DEF OnlyAt

LEMMA TouchEffect ==
    ASSUME NEW v \in State, NEW x \in Sides
    PROVE  LET u == Touch(v, x)
           IN  /\ u \in State
               /\ u.s = v.s /\ u.b = v.b /\ u.up = v.up /\ u.chan = v.chan
               /\ u.frames = v.frames
               /\ u.gone => v.gone \/ ~v.up[x]
  BY DEF Touch, State

LEMMA CloseChannelEffect ==
    ASSUME NEW v \in State, NEW x \in Sides
    PROVE  LET u == CloseChannel(v, x)
           IN  /\ OnlyAt(u, v, x)
               /\ u.s = v.s
               /\ u.gone => v.gone \/ ~v.up[x]
  <1> DEFINE t == Touch(v, x)
             c == IF t.chan[x] = "Closed" THEN t.chan[x] ELSE "Closing"
             u == [t EXCEPT !.chan[x] = c]
  <1>1. /\ t \in State /\ t.s = v.s /\ t.b = v.b /\ t.up = v.up /\ t.chan = v.chan
        /\ t.frames = v.frames /\ (t.gone => v.gone \/ ~v.up[x])
    BY TouchEffect
  <1>2. CloseChannel(v, x) = u
    BY DEF CloseChannel
  <1>3. c \in {"Open", "Closing", "Closed"}
    BY <1>1, Parts
  <1> HIDE DEF t, c
  <1>4. /\ u \in State /\ u.s = t.s /\ u.b = t.b /\ u.up = t.up /\ u.gone = t.gone
        /\ u.frames = t.frames /\ \A y \in Sides : y # x => u.chan[y] = t.chan[y]
    BY <1>1, <1>3 DEF State
  <1> HIDE DEF u
  <1> QED
    BY <1>1, <1>2, <1>4 DEF OnlyAt

LEMMA ResetChannelEffect ==
    ASSUME NEW v \in State, NEW x \in Sides
    PROVE  LET u == ResetChannel(v, x)
           IN  /\ OnlyAt(u, v, x)
               /\ u.s = v.s
               /\ u.gone => v.gone \/ ~v.up[x]
  <1> DEFINE t == Touch(v, x)
             u == [t EXCEPT !.chan[x] = "Closed"]
  <1>1. /\ t \in State /\ t.s = v.s /\ t.b = v.b /\ t.up = v.up /\ t.chan = v.chan
        /\ t.frames = v.frames /\ (t.gone => v.gone \/ ~v.up[x])
    BY TouchEffect
  <1>2. ResetChannel(v, x) = u
    BY DEF ResetChannel
  <1> HIDE DEF t
  <1>4. /\ u \in State /\ u.s = t.s /\ u.b = t.b /\ u.up = t.up /\ u.gone = t.gone
        /\ u.frames = t.frames /\ \A y \in Sides : y # x => u.chan[y] = t.chan[y]
    BY <1>1 DEF State
  <1> HIDE DEF u
  <1> QED
    BY <1>1, <1>2, <1>4 DEF OnlyAt

\* CloseQuiet lets go of the session and touches nothing of the other.
LEMMA CloseQuietEffect ==
    ASSUME NEW v \in State, NEW x \in Sides, ~Ended(v, x)
    PROVE  LET u == CloseQuiet(v, x)
           IN  /\ OnlyAt(u, v, x)
               /\ u.s[x].closed = TRUE /\ u.s[x].mux = FALSE
               /\ u.s[x].cb = "none" /\ u.s[x].frame = "none"
               /\ u.gone => v.gone \/ ~v.up[x]
  <1> DEFINE a == Closed(v, x)
             c == CloseChannel(a, x)
             u == Forget(c, x)
  <1>1. OnlyAt(a, v, x) /\ a.s[x].closed = TRUE /\ a.gone = v.gone
    BY ClosedEffect
  <1>2. OnlyAt(c, a, x) /\ c.s = a.s /\ (c.gone => a.gone \/ ~a.up[x])
    BY <1>1, CloseChannelEffect DEF OnlyAt
  <1>3. /\ OnlyAt(u, c, x) /\ u.s[x].closed = c.s[x].closed /\ u.s[x].mux = FALSE
        /\ u.s[x].cb = "none" /\ u.s[x].frame = "none" /\ u.gone = c.gone
    BY <1>2, ForgetEffect DEF OnlyAt
  <1>4. CloseQuiet(v, x) = u
    BY DEF CloseQuiet, Closed
  <1> HIDE DEF a, c, u
  <1> QED
    BY <1>1, <1>2, <1>3, <1>4 DEF OnlyAt

LEMMA PutBridge ==
    ASSUME NEW v \in State, NEW r \in Bridge
    PROVE  LET u == [v EXCEPT !.b = r]
           IN  /\ u \in State
               /\ u.s = v.s /\ u.b = r /\ u.chan = v.chan /\ u.up = v.up
               /\ u.gone = v.gone /\ u.frames = v.frames
  BY DEF State

-----------------------------------------------------------------------------
(* Good, but for what the bridge makes of it.                              *)

Sound(v) ==
    /\ v \in State
    /\ \A x \in Sides : SessionInv(v, x) /\ MuxInv(v, x)
    /\ CallsInv(v)

LEMMA SoundAndFired ==
    ASSUME NEW v
    PROVE  Good(v) <=> Sound(v) /\ FiredInv(v)
  BY DEF Good, Sound

LEMMA CloseQuietSound ==
    ASSUME NEW v, NEW x \in Sides, Sound(v)
    PROVE  LET u == CloseQuiet(v, x)
           IN  Sound(u) /\ OnlyAt(u, v, x) /\ ~u.s[x].mux
  <1> DEFINE u == CloseQuiet(v, x)
  <1>0. v \in State
    BY DEF Sound
  <1>1. CASE Ended(v, x)
    <2>1. u = v /\ OnlyAt(u, v, x)
      BY <1>0, <1>1 DEF CloseQuiet, OnlyAt
    <2> QED
      BY <1>1, <2>1 DEF Sound, Ended, SessionInv
  <1>2. CASE ~Ended(v, x)
    <2>1. /\ OnlyAt(u, v, x)
          /\ u.s[x].closed = TRUE /\ u.s[x].mux = FALSE
          /\ u.s[x].cb = "none" /\ u.s[x].frame = "none"
          /\ u.gone => v.gone \/ ~v.up[x]
      BY <1>0, <1>2, CloseQuietEffect
    <2> HIDE DEF u
    <2>2. v.s[x].mux /\ SessionInv(v, x) /\ MuxInv(v, x)
      BY <1>2 DEF Ended, Sound
    <2>3. SessionInv(u, x)
      BY <2>1, <2>2 DEF SessionInv, HandlersInv, OnlyAt
    <2>4. MuxInv(u, x)
      BY <2>1 DEF MuxInv
    <2>5. ASSUME NEW y \in Sides, y # x
          PROVE  SessionInv(u, y) /\ MuxInv(u, y)
      <3>1. SessionInv(v, y) /\ MuxInv(v, y)
        BY DEF Sound
      <3> QED
        BY <2>1, <2>5, <3>1 DEF SessionInv, HandlersInv, MuxInv, OnlyAt
    <2>6. CallsInv(u)
      <3>1. CallsInv(v)
        BY DEF Sound
      <3> QED
        BY <2>1, <2>2, <3>1 DEF CallsInv, MuxInv, OnlyAt
    <2> QED
      BY <2>1, <2>3, <2>4, <2>5, <2>6 DEF Sound, OnlyAt, u
  <1> QED
    BY <1>1, <1>2

\* What is not cancelled_, user_cancel_ or a flag of the model counts.
LEMMA SameBridge ==
    ASSUME NEW v, NEW u \in State, Good(v),
           u.s = v.s, u.chan = v.chan, u.up = v.up, u.gone = v.gone,
           u.b.on = v.b.on, u.b.live = v.b.live, u.b.fired = v.b.fired,
           u.b.calls = v.b.calls
    PROVE  Good(u)
  BY DEF Good, SessionInv, HandlersInv, MuxInv, CallsInv, FiredInv, NobodyLeft

LEMMA FiredFields ==
    ASSUME NEW q \in Bridge
    PROVE  LET r == [q EXCEPT !.cancelled = TRUE, !.fired = TRUE, !.calls = @ + 1]
           IN  /\ r \in Bridge
               /\ r.on = q.on /\ r.live = q.live /\ r.fired = TRUE
               /\ r.calls = q.calls + 1
  <1>1. q.calls + 1 \in Nat
    BY DEF Bridge
  <1> QED
    BY <1>1 DEF Bridge

\* Whoever ends a bridge, from any handler, both sessions are let go of.
LEMMA FinishGood ==
    ASSUME NEW v, Sound(v), v.b.on, v.b.fired => \A x \in Sides : ~v.s[x].mux
    PROVE  Good(Finish(v))
  <1>0. v \in State /\ v.b \in Bridge
    BY Parts DEF Sound
  <1>1. CASE v.b.fired
    <2> DEFINE r == [v.b EXCEPT !.cancelled = TRUE]
               u == [v EXCEPT !.b = r]
    <2>1. /\ r \in Bridge
          /\ r.on = v.b.on /\ r.live = v.b.live /\ r.fired = v.b.fired
          /\ r.calls = v.b.calls
      BY <1>0 DEF Bridge
    <2>2. Finish(v) = u
      BY <1>1 DEF Finish
    <2> HIDE DEF r
    <2>3. u \in State /\ u.s = v.s /\ u.b = r /\ u.chan = v.chan /\ u.up = v.up /\ u.gone = v.gone
      BY <1>0, <2>1, PutBridge
    <2>4. Good(v)
      BY <1>1 DEF Good, Sound, FiredInv
    <2> HIDE DEF u
    <2> QED
      BY <2>1, <2>2, <2>3, <2>4, SameBridge
  <1>2. CASE ~v.b.fired
    <2> DEFINE l == CloseQuiet(v, "left")
               c == CloseQuiet(l, "right")
               r == [c.b EXCEPT !.cancelled = TRUE, !.fired = TRUE, !.calls = @ + 1]
               u == [c EXCEPT !.b = r]
    <2>0. "left" \in Sides /\ "right" \in Sides /\ \A x \in Sides : x = "left" \/ x = "right"
      BY DEF Sides
    <2>1. Sound(l) /\ OnlyAt(l, v, "left") /\ ~l.s["left"].mux
      BY <2>0, CloseQuietSound
    <2> HIDE DEF l
    <2>2. Sound(c) /\ OnlyAt(c, l, "right") /\ ~c.s["right"].mux
      BY <2>0, <2>1, CloseQuietSound
    <2> HIDE DEF c
    <2>3. c \in State /\ c.b = v.b /\ \A x \in Sides : ~c.s[x].mux
      BY <2>0, <2>1, <2>2 DEF OnlyAt
    <2>4. /\ r \in Bridge
          /\ r.on = c.b.on /\ r.live = c.b.live /\ r.fired = TRUE
          /\ r.calls = c.b.calls + 1
      <3>1. c.b \in Bridge
        BY <1>0, <2>3
      <3> QED
        BY <3>1, FiredFields
    <2>5. Finish(v) = u
      <3>1. c \in State
        BY <2>3
      <3>2. Finish(v) = [c EXCEPT !.b.cancelled = TRUE, !.b.fired = TRUE, !.b.calls = @ + 1]
        BY <1>2 DEF Finish, l, c
      <3> QED
        BY <3>1, <3>2 DEF State, Bridge
    <2> HIDE DEF r
    <2>6. u \in State /\ u.s = c.s /\ u.b = r /\ u.chan = c.chan /\ u.up = c.up /\ u.gone = c.gone
      BY <2>3, <2>4, PutBridge
    <2> HIDE DEF u
    <2>7. CallsInv(u)
      BY <1>2, <2>2, <2>3, <2>4, <2>6 DEF CallsInv, Sound
    <2>8. \A x \in Sides : SessionInv(u, x) /\ MuxInv(u, x)
      BY <2>2, <2>4, <2>6 DEF SessionInv, HandlersInv, MuxInv, Sound
    <2>9. FiredInv(u)
      BY <2>3, <2>4, <2>6 DEF FiredInv
    <2> QED
      BY <2>5, <2>6, <2>7, <2>8, <2>9 DEF Good
  <1> QED
    BY <1>1, <1>2

-----------------------------------------------------------------------------
(* A session on its way out, while its handlers may run.                   *)

\* Good, but for what session x has, or has not, let go of.
Leaving(v, x) ==
    /\ v \in State
    /\ HandlersInv(v, x)
    /\ \A y \in Sides : y # x => SessionInv(v, y) /\ MuxInv(v, y)
    /\ CallsInv(v)
    /\ v.b.fired => \A y \in Sides : ~v.s[y].mux
    /\ v.b.live /\ NobodyLeft(v) => v.b.fired \/ v.s[x].cb = "bridge"

\* A bridge that has not fired has its callback at every session nobody left.
LEMMA GoodMayLeave ==
    ASSUME NEW v \in State, NEW x \in Sides,
           \A y \in Sides : SessionInv(v, y), \A y \in Sides : y # x => MuxInv(v, y),
           CallsInv(v), FiredInv(v)
    PROVE  Leaving(v, x)
  <1>1. v.b \in Bridge /\ v.s[x] \in Session
    BY Parts
  <1>2. SessionInv(v, x)
    OBVIOUS
  <1>3. v.b.live /\ NobodyLeft(v) => v.b.fired \/ v.s[x].cb = "bridge"
    <2>1. CASE v.s[x].mux
      BY <1>1, <1>2, <2>1 DEF SessionInv, HandlersInv, CallsInv, Session, Handlers
    <2>2. CASE ~v.s[x].mux
      BY <2>2 DEF FiredInv
    <2> QED
      BY <2>1, <2>2
  <1> QED
    BY <1>2, <1>3 DEF Leaving, SessionInv, FiredInv

\* What x does to itself and its channel leaves it on its way out.
LEMMA StillLeaving ==
    ASSUME NEW v, NEW u, NEW x \in Sides, Leaving(v, x), OnlyAt(u, v, x),
           u.s[x].cb = v.s[x].cb, u.s[x].frame = v.s[x].frame,
           u.s[x].mux => v.s[x].mux,
           ~OneMux /\ u.gone => v.gone
    PROVE  Leaving(u, x)
  <1>1. HandlersInv(u, x)
    BY DEF Leaving, HandlersInv, OnlyAt
  <1>2. ASSUME NEW y \in Sides, y # x
        PROVE  SessionInv(u, y) /\ MuxInv(u, y)
    <2>1. SessionInv(v, y) /\ MuxInv(v, y)
      BY <1>2 DEF Leaving
    <2> QED
      BY <1>2, <2>1 DEF SessionInv, HandlersInv, MuxInv, OnlyAt
  <1>3. CallsInv(u)
    BY DEF Leaving, CallsInv, OnlyAt
  <1>4. u.b.fired => \A y \in Sides : ~u.s[y].mux
    BY DEF Leaving, OnlyAt
  <1>5. u.b.live /\ NobodyLeft(u) => u.b.fired \/ u.s[x].cb = "bridge"
    BY DEF Leaving, OnlyAt, NobodyLeft
  <1> QED
    BY <1>1, <1>2, <1>3, <1>4, <1>5 DEF Leaving, OnlyAt

\* FinishClosed of a session that has closed ends in a state that is good.
LEMMA FinishClosedGood ==
    ASSUME NEW v, NEW x \in Sides, Leaving(v, x), v.s[x].closed
    PROVE  Good(FinishClosed(v, x))
  <1> DEFINE u == Forget(v, x)
  <1>0. v \in State /\ v.s[x] \in Session
    BY Parts DEF Leaving
  <1>1. /\ OnlyAt(u, v, x) /\ u.s[x].closed = v.s[x].closed /\ u.s[x].mux = FALSE
        /\ u.s[x].cb = "none" /\ u.s[x].frame = "none" /\ u.gone = v.gone
    BY <1>0, ForgetEffect
  <1>2. FinishClosed(v, x) = CASE v.s[x].cb = "own"    -> [u EXCEPT !.s[x].told = @ + 1]
                               [] v.s[x].cb = "bridge" -> Finish(u)
                               [] OTHER                -> u
    BY DEF FinishClosed
  <1> HIDE DEF u
  <1>3. Sound(u)
    <2>1. SessionInv(u, x) /\ MuxInv(u, x)
      BY <1>1 DEF SessionInv, HandlersInv, MuxInv, Leaving, OnlyAt
    <2>2. ASSUME NEW y \in Sides, y # x
          PROVE  SessionInv(u, y) /\ MuxInv(u, y)
      <3>1. SessionInv(v, y) /\ MuxInv(v, y)
        BY <2>2 DEF Leaving
      <3> QED
        BY <1>1, <2>2, <3>1 DEF SessionInv, HandlersInv, MuxInv, OnlyAt
    <2>3. CallsInv(u)
      BY <1>1 DEF Leaving, CallsInv, OnlyAt
    <2> QED
      BY <1>1, <2>1, <2>2, <2>3 DEF Sound, OnlyAt
  <1>4. u.b.fired => \A y \in Sides : ~u.s[y].mux
    BY <1>1 DEF Leaving, OnlyAt
  <1>5. CASE v.s[x].cb = "own"
    <2> DEFINE r == [u.s[x] EXCEPT !.told = @ + 1]
               z == [u EXCEPT !.s[x] = r]
    <2>1. ~u.b.on /\ u.s[x].told = 0 /\ u.s[x] \in Session
      BY <1>1, <1>5, Parts DEF Leaving, HandlersInv, OnlyAt
    <2>2. /\ r \in Session
          /\ r.closed = u.s[x].closed /\ r.mux = u.s[x].mux /\ r.cb = u.s[x].cb
          /\ r.frame = u.s[x].frame /\ r.told = 1
      BY <2>1 DEF Session
    <2>3. FinishClosed(v, x) = z
      BY <1>2, <1>5
    <2> HIDE DEF r
    <2>4. /\ z \in State /\ z.s[x] = r /\ (\A y \in Sides : y # x => z.s[y] = u.s[y])
          /\ z.b = u.b /\ z.chan = u.chan /\ z.up = u.up /\ z.gone = u.gone
      BY <1>3, <2>2, PutSession DEF Sound
    <2> HIDE DEF z
    <2>5. SessionInv(z, x) /\ MuxInv(z, x)
      <3>1. /\ z.s[x].closed /\ ~z.s[x].mux /\ z.s[x].cb = "none"
            /\ z.s[x].frame = "none" /\ z.s[x].told = 1
        BY <1>1, <2>2, <2>4
      <3> QED
        BY <3>1 DEF SessionInv, HandlersInv, MuxInv
    <2>6. ASSUME NEW y \in Sides, y # x
          PROVE  SessionInv(z, y) /\ MuxInv(z, y)
      BY <1>3, <2>4, <2>6 DEF Sound, SessionInv, HandlersInv, MuxInv
    <2>7. CallsInv(z)
      BY <1>3, <2>4 DEF Sound, CallsInv
    <2>8. FiredInv(z)
      BY <2>1, <2>4, <2>7 DEF FiredInv, CallsInv
    <2> QED
      BY <2>3, <2>4, <2>5, <2>6, <2>7, <2>8 DEF Good
  <1>6. CASE v.s[x].cb = "bridge"
    <2>1. u.b.on
      BY <1>1, <1>6 DEF Leaving, HandlersInv, OnlyAt
    <2>2. FinishClosed(v, x) = Finish(u)
      BY <1>2, <1>6
    <2> QED
      BY <1>3, <1>4, <2>1, <2>2, FinishGood
  <1>7. CASE v.s[x].cb = "none"
    <2>1. FinishClosed(v, x) = u
      BY <1>2, <1>7
    <2>2. u.b.live /\ NobodyLeft(u) => u.b.fired
      BY <1>1, <1>7 DEF Leaving, OnlyAt, NobodyLeft
    <2> QED
      BY <1>3, <1>4, <2>1, <2>2 DEF Good, Sound, FiredInv
  <1> QED
    BY <1>0, <1>5, <1>6, <1>7 DEF Session, Handlers

-----------------------------------------------------------------------------
(* The operations keep a good state good.                                  *)

LEMMA FailOutboundGood ==
    ASSUME NEW v, NEW x \in Sides, Leaving(v, x)
    PROVE  Good(FinishClosed(Closed(v, x), x))
  <1> DEFINE u == Closed(v, x)
  <1>1. v \in State
    BY DEF Leaving
  <1>2. /\ OnlyAt(u, v, x) /\ u.s[x].closed = TRUE /\ u.s[x].mux = v.s[x].mux
        /\ u.s[x].cb = v.s[x].cb /\ u.s[x].frame = v.s[x].frame /\ u.gone = v.gone
    BY <1>1, ClosedEffect
  <1> HIDE DEF u
  <1>3. Leaving(u, x)
    BY <1>2, StillLeaving
  <1>4. Good(FinishClosed(u, x))
    BY <1>2, <1>3, FinishClosedGood
  <1> QED
    BY <1>4 DEF u

LEMMA GoodLeaves ==
    ASSUME NEW v, NEW x \in Sides, Good(v)
    PROVE  Leaving(v, x)
  BY GoodMayLeave DEF Good

\* Close and Reset, of a session that has not ended.
LEMMA CloseGood ==
    ASSUME NEW v, NEW x \in Sides, Good(v)
    PROVE  Good(Close(v, x)) /\ Good(Reset(v, x))
  <1>0. v \in State /\ SessionInv(v, x) /\ MuxInv(v, x)
    BY DEF Good
  <1>1. CASE Ended(v, x)
    BY <1>1 DEF Close, Reset
  <1>2. CASE ~Ended(v, x)
    <2> DEFINE a == Closed(v, x)
    <2>1. /\ OnlyAt(a, v, x) /\ a.s[x].closed = TRUE /\ a.s[x].mux = v.s[x].mux
          /\ a.s[x].cb = v.s[x].cb /\ a.s[x].frame = v.s[x].frame /\ a.gone = v.gone
      BY <1>0, ClosedEffect
    <2>2. Close(v, x) = FinishClosed(CloseChannel(a, x), x)
          /\ Reset(v, x) = FinishClosed(ResetChannel(a, x), x)
      BY <1>2 DEF Close, Reset
    <2> HIDE DEF a
    <2>3. a \in State /\ Leaving(a, x)
      <3>1. Leaving(v, x)
        BY GoodLeaves
      <3>2. Leaving(a, x)
        BY <2>1, <3>1, StillLeaving
      <3> QED
        BY <3>2 DEF Leaving
    <2>4. ~OneMux => a.up[x]
      BY <1>0, <1>2, <2>1 DEF Ended, MuxInv, OnlyAt
    <2>5. Good(FinishClosed(CloseChannel(a, x), x))
      <3> DEFINE c == CloseChannel(a, x)
      <3>1. OnlyAt(c, a, x) /\ c.s = a.s /\ (c.gone => a.gone \/ ~a.up[x])
        BY <2>3, CloseChannelEffect
      <3> HIDE DEF c
      <3>2. Leaving(c, x)
        BY <2>3, <2>4, <3>1, StillLeaving
      <3>3. Good(FinishClosed(c, x))
        BY <2>1, <3>1, <3>2, FinishClosedGood
      <3> QED
        BY <3>3 DEF c
    <2>6. Good(FinishClosed(ResetChannel(a, x), x))
      <3> DEFINE c == ResetChannel(a, x)
      <3>1. OnlyAt(c, a, x) /\ c.s = a.s /\ (c.gone => a.gone \/ ~a.up[x])
        BY <2>3, ResetChannelEffect
      <3> HIDE DEF c
      <3>2. Leaving(c, x)
        BY <2>3, <2>4, <3>1, StillLeaving
      <3>3. Good(FinishClosed(c, x))
        BY <2>1, <3>1, <3>2, FinishClosedGood
      <3> QED
        BY <3>3 DEF c
    <2> QED
      BY <2>2, <2>5, <2>6
  <1> QED
    BY <1>1, <1>2

\* Good, but for the mux of x, which may be gone: what OnTerminal is called with.
LEMMA TerminalGood ==
    ASSUME NEW v \in State, NEW x \in Sides, NEW dropped \in BOOLEAN,
           \A y \in Sides : SessionInv(v, y), \A y \in Sides : y # x => MuxInv(v, y),
           CallsInv(v), FiredInv(v)
    PROVE  Good(OnTerminal(v, x, dropped))
  <1>0. Leaving(v, x)
    BY GoodMayLeave
  <1>1. ASSUME ~v.s[x].mux PROVE Good(v)
    <2>1. MuxInv(v, x)
      BY <1>1 DEF MuxInv
    <2> QED
      BY <2>1 DEF Good
  <1>2. CASE ~v.s[x].hooked
    <2>1. ~v.s[x].mux
      BY <1>2 DEF SessionInv
    <2> QED
      BY <1>1, <1>2, <2>1 DEF OnTerminal
  <1>3. CASE v.s[x].hooked
    <2> DEFINE r == [v.s[x] EXCEPT !.mux = FALSE]
               d == [v EXCEPT !.s[x] = r]
               z == IF dropped THEN d ELSE v
    <2>0. v.s[x] \in Session
      BY Parts
    <2>1. /\ r \in Session
          /\ r.closed = v.s[x].closed /\ r.mux = FALSE /\ r.cb = v.s[x].cb
          /\ r.frame = v.s[x].frame /\ r.hooked = v.s[x].hooked /\ r.once = v.s[x].once
          /\ r.quiet = v.s[x].quiet /\ r.told = v.s[x].told
      BY <2>0 DEF Session
    <2>2. OnTerminal(v, x, dropped) = NotifyRemoteTerminal(z, x)
      BY <1>3 DEF OnTerminal
    <2>3. v.s[x].mux = FALSE => r = v.s[x]
      BY <2>0 DEF Session
    <2> HIDE DEF r
    <2>4. /\ OnlyAt(d, v, x) /\ d.s[x] = r /\ d.gone = v.gone
      BY <2>1, PutSession DEF OnlyAt
    <2>5. v.s[x].mux = FALSE => d = v
      BY <2>3 DEF State
    <2> HIDE DEF d
    <2>6. Leaving(z, x) /\ z.s[x].closed = v.s[x].closed
      <3>1. CASE dropped
        BY <1>0, <2>1, <2>4, <3>1, StillLeaving
      <3>2. CASE ~dropped
        BY <1>0, <3>2
      <3> QED
        BY <3>1, <3>2
    <2>7. CASE v.s[x].closed
      <3>1. v.s[x].mux = FALSE
        BY <2>0, <2>7 DEF SessionInv, Session
      <3>2. OnTerminal(v, x, dropped) = v
        BY <2>2, <2>5, <2>7, <3>1 DEF NotifyRemoteTerminal
      <3> QED
        BY <1>1, <3>1, <3>2
    <2>8. CASE ~v.s[x].closed
      <3>1. OnTerminal(v, x, dropped) = FinishClosed(Closed(z, x), x)
        BY <2>2, <2>6, <2>8 DEF NotifyRemoteTerminal
      <3> HIDE DEF z
      <3> QED
        BY <2>6, <3>1, FailOutboundGood
    <2> QED
      BY <2>7, <2>8
  <1> QED
    BY <1>2, <1>3

\* A write, which closes the session if it fails.
LEMMA EnqueueGood ==
    ASSUME NEW v, NEW x \in Sides, NEW room \in BOOLEAN, Good(v), ~Ended(v, x)
    PROVE  Good(Enqueue(v, x, room))
  <1> DEFINE t == Touch(v, x)
  <1>0. v \in State /\ v.s[x].mux /\ MuxInv(v, x)
    BY DEF Good, Ended
  <1>1. /\ t \in State /\ t.s = v.s /\ t.b = v.b /\ t.up = v.up /\ t.chan = v.chan
        /\ (t.gone => v.gone \/ ~v.up[x])
    BY <1>0, TouchEffect
  <1>2. Enqueue(v, x, room) = IF room /\ v.chan[x] = "Open" THEN t
                              ELSE FinishClosed(Closed(t, x), x)
    BY DEF Enqueue, FailOutbound
  <1> HIDE DEF t
  <1>3. ~OneMux => v.up[x]
    BY <1>0 DEF MuxInv
  <1>4. Good(t)
    <2>1. CallsInv(t)
      BY <1>1, <1>3 DEF Good, CallsInv
    <2>2. \A y \in Sides : SessionInv(t, y) /\ MuxInv(t, y)
      BY <1>1 DEF Good, SessionInv, HandlersInv, MuxInv
    <2>3. FiredInv(t)
      BY <1>1 DEF Good, FiredInv, NobodyLeft
    <2> QED
      BY <1>1, <2>1, <2>2, <2>3 DEF Good
  <1>5. Leaving(t, x)
    BY <1>4, GoodLeaves
  <1>6. Good(FinishClosed(Closed(t, x), x))
    BY <1>5, FailOutboundGood
  <1> QED
    BY <1>2, <1>4, <1>6

LEMMA ForwardGood ==
    ASSUME NEW v, NEW x \in Sides, NEW room \in BOOLEAN, Good(v), v.b.on
    PROVE  Good(Forward(v, x, room).v)
  <1>0. v \in State /\ v.b \in Bridge /\ Other(x) \in Sides
    BY Parts, Two DEF Good
  <1>1. CASE v.b.cancelled \/ v.b.user
    <2> DEFINE r == [v.b EXCEPT !.cancelled = TRUE]
               u == [v EXCEPT !.b = r]
    <2>1. /\ r \in Bridge
          /\ r.on = v.b.on /\ r.live = v.b.live /\ r.fired = v.b.fired
          /\ r.calls = v.b.calls
      BY <1>0 DEF Bridge
    <2>2. Forward(v, x, room).v = u
      BY <1>1 DEF Forward
    <2> HIDE DEF r
    <2>3. u \in State /\ u.s = v.s /\ u.b = r /\ u.chan = v.chan /\ u.up = v.up /\ u.gone = v.gone
      BY <1>0, <2>1, PutBridge
    <2> HIDE DEF u
    <2> QED
      BY <2>1, <2>2, <2>3, SameBridge
  <1>2. CASE ~(v.b.cancelled \/ v.b.user) /\ Ended(v, Other(x))
    <2>1. Forward(v, x, room).v = Finish(v)
      BY <1>2 DEF Forward
    <2>2. Sound(v) /\ (v.b.fired => \A y \in Sides : ~v.s[y].mux)
      BY SoundAndFired DEF FiredInv
    <2> QED
      BY <2>1, <2>2, FinishGood
  <1>3. CASE ~(v.b.cancelled \/ v.b.user) /\ ~Ended(v, Other(x))
    <2>1. Forward(v, x, room).v = Enqueue(v, Other(x), room)
      BY <1>3 DEF Forward
    <2> QED
      BY <1>0, <1>3, <2>1, EnqueueGood
  <1> QED
    BY <1>1, <1>2, <1>3

LEMMA OnDataGood ==
    ASSUME NEW v, NEW x \in Sides, NEW owner \in BOOLEAN, NEW room \in BOOLEAN, Good(v)
    PROVE  Good(OnData(v, x, owner, room))
  <1>1. CASE v.s[x].closed \/ v.s[x].frame = "none"
    BY <1>1 DEF OnData
  <1>2. CASE ~(v.s[x].closed \/ v.s[x].frame = "none")
    <2> DEFINE done == IF v.s[x].frame = "bridge" THEN Forward(v, x, room)
                       ELSE [v |-> v, keep |-> owner]
               d == done.v
               again == ~done.v.s[x].closed /\ (~done.keep \/ v.s[x].once)
    <2>1. OnData(v, x, owner, room) = IF again THEN Close(d, x) ELSE d
      BY <1>2 DEF OnData
    <2>2. Good(d)
      <3>1. CASE v.s[x].frame = "bridge"
        <4>1. v.b.on
          BY <3>1 DEF Good, SessionInv, HandlersInv
        <4> QED
          BY <3>1, <4>1, ForwardGood
      <3>2. CASE v.s[x].frame # "bridge"
        BY <3>2
      <3> QED
        BY <3>1, <3>2
    <2> HIDE DEF d, again
    <2> QED
      BY <2>1, <2>2, CloseGood
  <1> QED
    BY <1>1, <1>2

-----------------------------------------------------------------------------
(* The steps.                                                              *)

LEMMA InitGood ==
    ASSUME Init
    PROVE  IndInv
  <1>1. PICK once \in [Sides -> BOOLEAN] :
            w = [s |-> [x \in Sides |-> Bound(once[x])],
                 chan |-> [x \in Sides |-> "Open"], up |-> [x \in Sides |-> TRUE],
                 b |-> [on |-> FALSE, live |-> FALSE, cancelled |-> FALSE, fired |-> FALSE,
                        user |-> FALSE, stopped |-> FALSE, calls |-> 0],
                 gone |-> FALSE, frames |-> 0]
    BY DEF Init
  <1>2. \A x \in Sides : w.s[x] = Bound(once[x])
    BY <1>1
  <1>3. \A x \in Sides : Bound(once[x]) \in Session
    BY DEF Bound, Session, Handlers
  <1>4. w \in State
    BY <1>1, <1>3, ConstantsOK DEF State, Bridge
  <1>5. \A x \in Sides : SessionInv(w, x) /\ MuxInv(w, x)
    BY <1>1, <1>2 DEF SessionInv, HandlersInv, MuxInv, Bound
  <1>6. CallsInv(w) /\ FiredInv(w)
    BY <1>1 DEF CallsInv, FiredInv
  <1> QED
    BY <1>4, <1>5, <1>6 DEF IndInv, Good

\* A frame counted is nothing to the rest.
LEMMA DataArrivesGood ==
    ASSUME IndInv, NEW x \in Sides, DataArrives(x)
    PROVE  IndInv'
  <1> DEFINE v == [w EXCEPT !.frames = @ + 1]
  <1>1. PICK owner \in BOOLEAN, room \in BOOLEAN : w' = OnData(v, x, owner, room)
    BY DEF DataArrives
  <1>2. w \in State /\ w.frames + 1 \in 0..MaxFrames
    BY ConstantsOK DEF IndInv, Good, State, DataArrives
  <1>3. v \in State /\ v.s = w.s /\ v.b = w.b /\ v.chan = w.chan /\ v.up = w.up /\ v.gone = w.gone
    BY <1>2 DEF State
  <1> HIDE DEF v
  <1>4. Good(v)
    BY <1>3, SameBridge DEF IndInv
  <1>5. Good(w')
    BY <1>1, <1>4, OnDataGood
  <1> QED
    BY <1>5 DEF IndInv

LEMMA ChannelEndsGood ==
    ASSUME IndInv, NEW x \in Sides, ChannelEnds(x)
    PROVE  IndInv'
  <1> DEFINE v == [w EXCEPT !.chan[x] = "Closed"]
  <1>1. w' = OnTerminal(v, x, FALSE)
    BY DEF ChannelEnds
  <1>2. w \in State
    BY DEF IndInv, Good
  <1>3. /\ v \in State /\ v.s = w.s /\ v.b = w.b /\ v.up = w.up /\ v.gone = w.gone
        /\ \A y \in Sides : y # x => v.chan[y] = w.chan[y]
    BY <1>2 DEF State
  <1> HIDE DEF v
  <1>4. \A y \in Sides : SessionInv(v, y)
    BY <1>3 DEF IndInv, Good, SessionInv, HandlersInv
  <1>5. \A y \in Sides : y # x => MuxInv(v, y)
    BY <1>3 DEF IndInv, Good, MuxInv
  <1>6. CallsInv(v) /\ FiredInv(v)
    BY <1>3 DEF IndInv, Good, CallsInv, FiredInv, NobodyLeft
  <1>7. Good(OnTerminal(v, x, FALSE))
    BY <1>3, <1>4, <1>5, <1>6, TerminalGood
  <1> QED
    BY <1>1, <1>7 DEF IndInv

\* With links of their own only x is told; with one link both are, in some order,
\* and a mux that is no more is nothing to the invariant.
LEMMA LinkDropsGood ==
    ASSUME IndInv, NEW x \in Sides, LinkDrops(x)
    PROVE  IndInv'
  <1> DEFINE on == SharesMux(x)
             v == [w EXCEPT !.up = [y \in Sides |-> @[y] /\ y \notin on],
                            !.chan = [y \in Sides |-> IF y \in on THEN "Closed" ELSE @[y]]]
             Tell(u, y) == IF y \in on /\ w.chan[y] # "Closed" THEN OnTerminal(u, y, TRUE) ELSE u
  <1>1. PICK z \in Sides : w' = Tell(Tell(v, z), Other(z))
    BY DEF LinkDrops
  <1>2. w \in State
    BY DEF IndInv, Good
  <1>3. /\ v \in State /\ v.s = w.s /\ v.b = w.b /\ v.gone = w.gone
        /\ \A y \in Sides : y \notin on => v.up[y] = w.up[y] /\ v.chan[y] = w.chan[y]
    BY <1>2 DEF State
  <1> HIDE DEF v
  <1>4. \A y \in Sides : SessionInv(v, y)
    BY <1>3 DEF IndInv, Good, SessionInv, HandlersInv
  <1>5. \A y \in Sides : y \notin on => MuxInv(v, y)
    BY <1>3 DEF IndInv, Good, MuxInv
  <1>6. CallsInv(v) /\ FiredInv(v)
    BY <1>3 DEF IndInv, Good, CallsInv, FiredInv, NobodyLeft
  <1>7. CASE OneMux
    <2>1. Good(v)
      BY <1>3, <1>4, <1>6, <1>7 DEF Good, MuxInv
    <2>2. ASSUME NEW u, NEW y \in Sides, Good(u)
          PROVE  Good(Tell(u, y))
      <3>1. Good(OnTerminal(u, y, TRUE))
        BY <2>2, TerminalGood DEF Good
      <3> QED
        BY <2>2, <3>1
    <2> HIDE DEF Tell
    <2>3. Good(Tell(v, z))
      BY <2>1, <2>2
    <2>4. Good(Tell(Tell(v, z), Other(z)))
      BY <2>2, <2>3, Two
    <2> QED
      BY <1>1, <2>4 DEF IndInv
  <1>8. CASE ~OneMux
    <2>1. on = {x}
      BY <1>8 DEF SharesMux
    <2>2. w' = Tell(v, x)
      BY <1>1, <2>1, Two
    <2>3. CASE w.chan[x] # "Closed"
      <3>1. Good(OnTerminal(v, x, TRUE))
        BY <1>3, <1>4, <1>5, <1>6, <2>1, TerminalGood
      <3> QED
        BY <2>1, <2>2, <2>3, <3>1 DEF IndInv
    <2>4. CASE w.chan[x] = "Closed"
      <3>1. ~v.s[x].mux
        BY <1>3, <1>8, <2>4 DEF IndInv, Good, MuxInv
      <3>2. Good(v)
        BY <1>3, <1>4, <1>5, <1>6, <2>1, <3>1 DEF Good, MuxInv
      <3> QED
        BY <2>2, <2>4, <3>2 DEF IndInv
    <2> QED
      BY <2>3, <2>4
  <1> QED
    BY <1>7, <1>8

LEMMA OwnerClosesGood ==
    ASSUME IndInv, NEW x \in Sides, OwnerCloses(x)
    PROVE  IndInv'
  <1>1. Good(Close(w, x)) /\ Good(Reset(w, x))
    BY CloseGood DEF IndInv
  <1>2. w' = Close(w, x) \/ w' = Reset(w, x)
    BY DEF OwnerCloses
  <1> QED
    BY <1>1, <1>2 DEF IndInv

\* ReleaseHandlers takes the handlers of a session, from the mux too if the
\* session still has it.
LEMMA ReleaseHandlersEffect ==
    ASSUME NEW v, NEW x \in Sides, Good(v)
    PROVE  LET u == ReleaseHandlers(v, x)
           IN  /\ u \in State
               /\ u.b = v.b /\ u.up = v.up /\ u.chan = v.chan
               /\ ~OneMux => ~u.gone
               /\ \A y \in Sides : y # x => u.s[y] = v.s[y]
               /\ u.s[x].closed = v.s[x].closed /\ u.s[x].mux = FALSE
               /\ u.s[x].cb = "none" /\ u.s[x].frame = "none"
               /\ u.s[x].quiet = v.s[x].quiet /\ u.s[x].told = v.s[x].told
  <1> DEFINE f == Forget(v, x)
             t == Touch(f, x)
             r == [t.s[x] EXCEPT !.hooked = FALSE]
             u == [t EXCEPT !.s[x] = r]
  <1>0. v \in State /\ (~OneMux => ~v.gone) /\ MuxInv(v, x)
    BY DEF Good, CallsInv
  <1>1. /\ OnlyAt(f, v, x) /\ f.s[x].closed = v.s[x].closed /\ f.s[x].mux = FALSE
        /\ f.s[x].cb = "none" /\ f.s[x].frame = "none" /\ f.gone = v.gone /\ f.chan = v.chan
    BY <1>0, ForgetEffect
  <1>2. ReleaseHandlers(v, x) = IF v.s[x].mux THEN u ELSE f
    BY DEF ReleaseHandlers
  <1> HIDE DEF f
  <1>3. CASE ~v.s[x].mux
    BY <1>0, <1>1, <1>2, <1>3 DEF OnlyAt
  <1>4. CASE v.s[x].mux
    <2>1. /\ t \in State /\ t.s = f.s /\ t.b = f.b /\ t.up = f.up /\ t.chan = f.chan
          /\ (t.gone => f.gone \/ ~f.up[x])
      BY <1>1, TouchEffect DEF OnlyAt
    <2> HIDE DEF t
    <2>2. t.s[x] \in Session
      BY <2>1, Parts
    <2>3. /\ r \in Session
          /\ r.closed = t.s[x].closed /\ r.mux = t.s[x].mux /\ r.cb = t.s[x].cb
          /\ r.frame = t.s[x].frame /\ r.quiet = t.s[x].quiet /\ r.told = t.s[x].told
      BY <2>2 DEF Session
    <2> HIDE DEF r
    <2>4. /\ u \in State /\ u.s[x] = r /\ (\A y \in Sides : y # x => u.s[y] = t.s[y])
          /\ u.b = t.b /\ u.chan = t.chan /\ u.up = t.up /\ u.gone = t.gone
      BY <2>1, <2>3, PutSession
    <2> HIDE DEF u
    <2>5. ~OneMux => ~u.gone
      BY <1>0, <1>1, <1>4, <2>1, <2>4 DEF MuxInv, OnlyAt
    <2> QED
      BY <1>1, <1>2, <1>4, <2>1, <2>3, <2>4, <2>5 DEF OnlyAt
  <1> QED
    BY <1>3, <1>4

\* Both ways to leave a session let go of its mux, and neither calls the bridge,
\* which is why OneEndsBoth leaves such sessions out.
LEMMA OwnerLeavesGood ==
    ASSUME IndInv, NEW x \in Sides, OwnerLeaves(x)
    PROVE  IndInv'
  <1>1. PICK u \in {CloseQuiet(w, x), ReleaseHandlers(w, x)} :
            w' = [u EXCEPT !.s[x].quiet = TRUE]
    BY DEF OwnerLeaves
  <1>2. Good(w) /\ ~w.s[x].closed
    BY DEF IndInv, OwnerLeaves
  <1>3. /\ u \in State /\ u.b = w.b /\ u.up = w.up
        /\ \A y \in Sides : y # x => u.s[y] = w.s[y] /\ u.chan[y] = w.chan[y]
        /\ ~u.s[x].mux
        /\ HandlersInv(u, x)
        /\ u.s[x].closed => ~(u.b.on => u.b.live) \/ u.s[x].cb = "none"
        /\ CallsInv(u)
    <2>1. CASE u = CloseQuiet(w, x)
      <3>1. Sound(u) /\ OnlyAt(u, w, x) /\ ~u.s[x].mux
        BY <1>2, <2>1, SoundAndFired, CloseQuietSound
      <3> QED
        BY <3>1 DEF Sound, OnlyAt, SessionInv
    <2>2. CASE u = ReleaseHandlers(w, x)
      <3>1. /\ u \in State
            /\ u.b = w.b /\ u.up = w.up /\ u.chan = w.chan
            /\ ~OneMux => ~u.gone
            /\ \A y \in Sides : y # x => u.s[y] = w.s[y]
            /\ u.s[x].closed = w.s[x].closed /\ u.s[x].mux = FALSE
            /\ u.s[x].cb = "none" /\ u.s[x].frame = "none"
            /\ u.s[x].told = w.s[x].told
        BY <1>2, <2>2, ReleaseHandlersEffect
      <3>2. HandlersInv(u, x)
        BY <1>2, <3>1 DEF Good, SessionInv, HandlersInv
      <3>3. CallsInv(u)
        BY <1>2, <3>1 DEF Good, CallsInv
      <3> QED
        BY <3>1, <3>2, <3>3
    <2> QED
      BY <2>1, <2>2
  <1> DEFINE r == [u.s[x] EXCEPT !.quiet = TRUE]
             z == [u EXCEPT !.s[x] = r]
  <1>4. u.s[x] \in Session
    BY <1>3, Parts
  <1>5. /\ r \in Session /\ r.quiet = TRUE
        /\ r.closed = u.s[x].closed /\ r.mux = u.s[x].mux /\ r.cb = u.s[x].cb
        /\ r.frame = u.s[x].frame /\ r.told = u.s[x].told
    BY <1>4 DEF Session
  <1>6. w' = z
    BY <1>1
  <1> HIDE DEF r
  <1>7. /\ z \in State /\ z.s[x] = r /\ (\A y \in Sides : y # x => z.s[y] = u.s[y])
        /\ z.b = u.b /\ z.chan = u.chan /\ z.up = u.up /\ z.gone = u.gone
    BY <1>3, <1>5, PutSession
  <1> HIDE DEF z
  <1>8. SessionInv(z, x) /\ MuxInv(z, x)
    BY <1>3, <1>5, <1>7 DEF SessionInv, HandlersInv, MuxInv
  <1>9. ASSUME NEW y \in Sides, y # x
        PROVE  SessionInv(z, y) /\ MuxInv(z, y)
    <2>1. SessionInv(w, y) /\ MuxInv(w, y)
      BY <1>2 DEF Good
    <2> QED
      BY <1>3, <1>7, <1>9, <2>1 DEF SessionInv, HandlersInv, MuxInv
  <1>10. CallsInv(z)
    BY <1>3, <1>7 DEF CallsInv
  <1>11. FiredInv(z)
    <2>1. ~NobodyLeft(z)
      BY <1>5, <1>7 DEF NobodyLeft
    <2>2. z.b.fired => \A y \in Sides : ~z.s[y].mux
      BY <1>2, <1>3, <1>5, <1>7 DEF Good, FiredInv
    <2> QED
      BY <2>1, <2>2 DEF FiredInv
  <1>12. Good(z)
    BY <1>7, <1>8, <1>9, <1>10, <1>11 DEF Good
  <1> QED
    BY <1>6, <1>12 DEF IndInv

LEMMA DestroyedGood ==
    ASSUME IndInv, NEW x \in Sides, Destroyed(x)
    PROVE  IndInv'
  <1> DEFINE u == ReleaseHandlers(w, x)
  <1>1. Good(w) /\ w.s[x].closed /\ w' = u
    BY DEF IndInv, Destroyed
  <1>2. /\ u \in State
        /\ u.b = w.b /\ u.up = w.up /\ u.chan = w.chan
        /\ ~OneMux => ~u.gone
        /\ \A y \in Sides : y # x => u.s[y] = w.s[y]
        /\ u.s[x].closed = w.s[x].closed /\ u.s[x].mux = FALSE
        /\ u.s[x].cb = "none" /\ u.s[x].frame = "none"
        /\ u.s[x].quiet = w.s[x].quiet /\ u.s[x].told = w.s[x].told
    BY <1>1, ReleaseHandlersEffect
  <1> HIDE DEF u
  <1>3. SessionInv(w, x) /\ ~w.s[x].mux
    BY <1>1 DEF Good, SessionInv
  <1>4. SessionInv(u, x) /\ MuxInv(u, x)
    BY <1>1, <1>2, <1>3 DEF SessionInv, HandlersInv, MuxInv
  <1>5. ASSUME NEW y \in Sides, y # x
        PROVE  SessionInv(u, y) /\ MuxInv(u, y)
    <2>1. SessionInv(w, y) /\ MuxInv(w, y)
      BY <1>1 DEF Good
    <2> QED
      BY <1>2, <1>5, <2>1 DEF SessionInv, HandlersInv, MuxInv
  <1>6. CallsInv(u)
    BY <1>1, <1>2 DEF Good, CallsInv
  <1>7. FiredInv(u)
    BY <1>1, <1>2, <1>3 DEF Good, FiredInv, NobodyLeft
  <1>8. Good(u)
    BY <1>2, <1>4, <1>5, <1>6, <1>7 DEF Good
  <1> QED
    BY <1>1, <1>8 DEF IndInv

\* A bridge over two open sessions is live: if nobody left them they have their
\* muxes.
LEMMA AttachesGood ==
    ASSUME IndInv, Attaches
    PROVE  IndInv'
  <1> DEFINE r(x) == [w.s[x] EXCEPT !.frame = "bridge", !.cb = "bridge"]
             live == \A x \in Sides : ~w.s[x].closed
             q == [w.b EXCEPT !.on = TRUE, !.live = live]
             f == [x \in Sides |-> r(x)]
             u == Attach(w)
  <1>1. Good(w) /\ ~w.b.on /\ w' = u
    BY DEF IndInv, Attaches
  <1>2. w \in State /\ w.b \in Bridge /\ \A x \in Sides : w.s[x] \in Session
    BY <1>1, Parts DEF Good
  <1>3. ASSUME NEW x \in Sides
        PROVE  /\ r(x) \in Session
               /\ r(x).frame = "bridge" /\ r(x).cb = "bridge"
               /\ r(x).closed = w.s[x].closed /\ r(x).mux = w.s[x].mux
               /\ r(x).hooked = w.s[x].hooked /\ r(x).quiet = w.s[x].quiet
               /\ r(x).told = w.s[x].told
    <2>1. w.s[x] \in Session
      BY <1>2, <1>3
    <2> QED
      BY <2>1 DEF Session, Handlers
  <1>4. /\ q \in Bridge /\ q.on = TRUE /\ q.live = live
        /\ q.fired = w.b.fired /\ q.calls = w.b.calls
    <2>1. live \in BOOLEAN
      OBVIOUS
    <2> HIDE DEF live
    <2> QED
      BY <1>2, <2>1 DEF Bridge
  <1> HIDE DEF r
  <1>5. f \in [Sides -> Session] /\ \A x \in Sides : f[x] = r(x)
    BY <1>3
  <1>6. u = [w EXCEPT !.b = q, !.s = f]
    BY <1>2 DEF Attach, r, State, Bridge
  <1> HIDE DEF q, f
  <1>7. /\ u \in State /\ u.s = f /\ u.b = q /\ u.chan = w.chan /\ u.up = w.up
        /\ u.gone = w.gone
    <2> HIDE DEF u
    <2> QED
      BY <1>2, <1>4, <1>5, <1>6 DEF State
  <1> HIDE DEF u, live
  <1>8. ASSUME NEW x \in Sides
        PROVE  SessionInv(u, x) /\ MuxInv(u, x)
    <2>1. SessionInv(w, x) /\ MuxInv(w, x)
      BY <1>1 DEF Good
    <2>2. live => ~w.s[x].closed
      BY DEF live
    <2>3. MuxInv(u, x)
      BY <1>3, <1>5, <1>7, <2>1 DEF MuxInv
    <2> QED
      BY <1>3, <1>4, <1>5, <1>7, <2>1, <2>2, <2>3 DEF SessionInv, HandlersInv
  <1>9. CallsInv(u)
    BY <1>1, <1>4, <1>7 DEF Good, CallsInv
  <1>10. FiredInv(u)
    <2>1. ~u.b.fired
      BY <1>1, <1>4, <1>7 DEF Good, CallsInv
    <2>2. ASSUME u.b.live, NobodyLeft(u), NEW x \in Sides
          PROVE  u.s[x].mux
      <3>1. ~w.s[x].closed /\ ~w.s[x].quiet
        BY <1>3, <1>4, <1>5, <1>7, <2>2 DEF live, NobodyLeft
      <3>2. w.s[x].mux
        BY <1>1, <3>1 DEF Good, SessionInv
      <3> QED
        BY <1>3, <1>5, <1>7, <3>2
    <2> QED
      BY <2>1, <2>2 DEF FiredInv
  <1>11. Good(u)
    BY <1>7, <1>8, <1>9, <1>10 DEF Good
  <1> QED
    BY <1>1, <1>11 DEF IndInv

LEMMA StopsGood ==
    ASSUME IndInv, Stops
    PROVE  IndInv'
  <1> DEFINE f == Finish(w)
             r == [f.b EXCEPT !.stopped = TRUE]
             u == [f EXCEPT !.b = r]
  <1>1. Good(w) /\ w.b.on
    BY DEF IndInv, Stops
  <1>2. Sound(w) /\ (w.b.fired => \A x \in Sides : ~w.s[x].mux)
    BY <1>1, SoundAndFired DEF FiredInv
  <1>3. Good(f)
    BY <1>1, <1>2, FinishGood
  <1>4. w' = u
    BY <1>1 DEF Stops, Stop
  <1> HIDE DEF f
  <1>5. f \in State /\ f.b \in Bridge
    BY <1>3, Parts DEF Good
  <1>6. /\ r \in Bridge /\ r.on = f.b.on /\ r.live = f.b.live /\ r.fired = f.b.fired
        /\ r.calls = f.b.calls
    BY <1>5 DEF Bridge
  <1> HIDE DEF r
  <1>7. u \in State /\ u.s = f.s /\ u.b = r /\ u.chan = f.chan /\ u.up = f.up /\ u.gone = f.gone
    BY <1>5, <1>6, PutBridge
  <1> HIDE DEF u
  <1>8. Good(u)
    BY <1>3, <1>6, <1>7, SameBridge
  <1> QED
    BY <1>4, <1>8 DEF IndInv

LEMMA CancelsGood ==
    ASSUME IndInv, Cancels
    PROVE  IndInv'
  <1> DEFINE r == [w.b EXCEPT !.user = TRUE]
             u == [w EXCEPT !.b = r]
  <1>1. Good(w) /\ w' = u
    BY DEF IndInv, Cancels
  <1>2. w \in State /\ w.b \in Bridge
    BY <1>1, Parts DEF Good
  <1>3. /\ r \in Bridge /\ r.on = w.b.on /\ r.live = w.b.live /\ r.fired = w.b.fired
        /\ r.calls = w.b.calls
    BY <1>2 DEF Bridge
  <1> HIDE DEF r
  <1>4. u \in State /\ u.s = w.s /\ u.b = r /\ u.chan = w.chan /\ u.up = w.up /\ u.gone = w.gone
    BY <1>2, <1>3, PutBridge
  <1> HIDE DEF u
  <1>5. Good(u)
    BY <1>1, <1>3, <1>4, SameBridge
  <1> QED
    BY <1>1, <1>5 DEF IndInv

-----------------------------------------------------------------------------
(* Theorems.                                                               *)

\* What holds between two steps, whichever handlers ran within them and in
\* whatever order the sessions were told (ChannelSession.cpp, ChannelBridge.cpp).
THEOREM IndInvHolds == Spec => []IndInv
  <1>1. Init => IndInv
    BY InitGood
  <1>2. IndInv /\ [Next]_w => IndInv'
    <2> SUFFICES ASSUME IndInv, [Next]_w PROVE IndInv'
      OBVIOUS
    <2>1. ASSUME NEW x \in Sides, DataArrives(x) PROVE IndInv'
      BY <2>1, DataArrivesGood
    <2>2. ASSUME NEW x \in Sides, ChannelEnds(x) PROVE IndInv'
      BY <2>2, ChannelEndsGood
    <2>3. ASSUME NEW x \in Sides, LinkDrops(x) PROVE IndInv'
      BY <2>3, LinkDropsGood
    <2>4. ASSUME NEW x \in Sides, OwnerCloses(x) PROVE IndInv'
      BY <2>4, OwnerClosesGood
    <2>5. ASSUME NEW x \in Sides, OwnerLeaves(x) PROVE IndInv'
      BY <2>5, OwnerLeavesGood
    <2>6. ASSUME NEW x \in Sides, Destroyed(x) PROVE IndInv'
      BY <2>6, DestroyedGood
    <2>7. CASE Attaches
      BY <2>7, AttachesGood
    <2>8. CASE Stops
      BY <2>8, StopsGood
    <2>9. CASE Cancels
      BY <2>9, CancelsGood
    <2>10. CASE UNCHANGED w
      BY <2>10 DEF IndInv
    <2> QED
      BY <2>1, <2>2, <2>3, <2>4, <2>5, <2>6, <2>7, <2>8, <2>9, <2>10 DEF Next
  <1> QED
    BY <1>1, <1>2, PTL DEF Spec

\* When one session of a live bridge ends both have, and on_closed has run once
\* (ChannelBridge.cpp:30), however many frames arrive and however many links the
\* two are on. A session nobody left holds its mux until it closes.
THEOREM OneEndsBothHolds == Spec => []OneEndsBoth
  <1>1. IndInv => OneEndsBoth
    <2> SUFFICES ASSUME IndInv PROVE OneEndsBoth
      OBVIOUS
    <2>1. \A x \in Sides : w.s[x].closed => ~w.s[x].mux
      BY DEF IndInv, Good, SessionInv
    <2>2. \A x \in Sides : ~w.s[x].mux => w.s[x].closed \/ w.s[x].quiet
      BY DEF IndInv, Good, SessionInv
    <2>3. w.b.calls <= 1 /\ (w.b.fired => w.b.calls = 1)
      BY DEF IndInv, Good, CallsInv
    <2>4. ASSUME w.b.live, NobodyLeft(w), NEW x \in Sides, w.s[x].closed
          PROVE  w.b.calls = 1 /\ \A y \in Sides : w.s[y].closed
      <3>1. w.b.fired
        BY <2>1, <2>4 DEF IndInv, Good, FiredInv
      <3>2. \A y \in Sides : ~w.s[y].mux
        BY <3>1 DEF IndInv, Good, FiredInv
      <3> QED
        BY <2>2, <2>3, <2>4, <3>1, <3>2 DEF NobodyLeft
    <2> QED
      BY <2>3, <2>4 DEF OneEndsBoth, NobodyLeft
  <1> QED
    BY <1>1, IndInvHolds, PTL

\* A session that has closed has let go of its handlers and told its owner at
\* most once (ChannelSession.cpp:137).
THEOREM ClosedLetsGoHolds == Spec => []ClosedLetsGo
  <1>1. IndInv => ClosedLetsGo
    BY DEF IndInv, Good, SessionInv, HandlersInv, ClosedLetsGo, TypeOK
  <1> QED
    BY <1>1, IndInvHolds, PTL

\* With links of their own no session calls into a mux that is no more
\* (ChannelSession.cpp:43, 138): the pointer is dropped before any handler of the
\* session runs, and the other session's mux lives.
THEOREM MuxAliveWhenCalledHolds == ~OneMux => (Spec => []MuxAliveWhenCalled)
  <1>1. ~OneMux /\ IndInv => MuxAliveWhenCalled
    BY DEF IndInv, Good, CallsInv, MuxAliveWhenCalled
  <1> SUFFICES ASSUME ~OneMux PROVE Spec => []MuxAliveWhenCalled
    OBVIOUS
  <1>2. IndInv => MuxAliveWhenCalled
    BY <1>1
  <1> QED
    BY <1>2, IndInvHolds, PTL
=============================================================================
