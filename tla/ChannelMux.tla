----------------------------- MODULE ChannelMux -----------------------------
(***************************************************************************)
(* The channel muxes at the two ends of a link (class ChannelMux): opening *)
(* and ending channels, the send queues that hold reliable frames while    *)
(* the transport's window is full, sequence checks and reassembly.         *)
(*                                                                         *)
(* A reliable frame goes over a first-in first-out stream (FifoChannel,    *)
(* which AdpReliable and CarrierLane implement), a best-effort one may be  *)
(* lost or overtaken, never repeated (the L1 window).  Credit is given     *)
(* back when a frame arrives.                                              *)
(* End "a" dialled: it opens channel 0 (the capability channel) and the    *)
(* odd channels, end "b" the even ones.  A message is a number, counted    *)
(* per end and channel; a large one takes two fragments.  Handlers are     *)
(* bound as soon as a channel has a record.                                *)
(***************************************************************************)
EXTENDS Naturals, Sequences, SequencesExt, FiniteSets, Functions

CONSTANTS Ids,          \* channels that may be opened (bound)
          Timed,        \* those whose reader has a read_timeout
          MaxMsgs,      \* messages the two ends may try to send, on all channels together (bound)
          MaxEndings,   \* times a channel is reset, closed or timed out or a link dropped by its user (bound)
          Window,       \* reliable frames in flight (TransportCredits)
          MaxQueued,    \* tuning_.max_queued_bytes
          MaxChannels,  \* tuning_.max_concurrent_channels
          MaxPartials   \* max_partials_ of a channel's reassembly

ASSUME ConstantsAssumption ==
    /\ Ids \subseteq Nat /\ IsFiniteSet(Ids)
    /\ Timed \subseteq Ids \ {0}
    /\ MaxMsgs \in Nat /\ MaxEndings \in Nat /\ Window \in Nat \ {0} /\ MaxQueued \in Nat
    /\ MaxChannels \in Nat \ {0} /\ MaxPartials \in Nat \ {0}

VARIABLES bestEffort, \* channels of class Realtime, as their openers chose
          channels,   \* channels_ of each end, a record or None for each id
          nextId,     \* next_dynamic_id_ of each end
          tx,         \* sending side of each end: send_queues_, send_order_, queued_bytes_, frames in flight
          down,       \* ends whose mux went with its link
          endings,    \* endings so far, to bound them
          calls,      \* SendData calls of each end on each channel
          sent,       \* messages of which SendData said they were sent
          got,        \* messages the data handler was given
          terminal,   \* terminal notices given
          swept,      \* <<end, channel>>: a partial message was dropped there as expired
          refused,    \* channels of which an OPEN, OPENACK, RESET or CLOSE found the send queue full
          closedBy    \* <<end, channel>>: CloseChannel was called there

history == <<endings, calls, sent, got, terminal, swept, refused, closedBy>>
vars == <<bestEffort, channels, nextId, tx, down, history>>

Ends == {"a", "b"}
Peer(e) == IF e = "a" THEN "b" ELSE "a"
Opener(c) == IF c = 0 \/ c % 2 = 1 THEN "a" ELSE "b"

None == [state |-> "None"]
Record(state) == [state |-> state, tx |-> 1, rx |-> 1, partial |-> <<>>]
Has(e, c) == channels[e][c] # None

Frame(kind, c) == [kind |-> kind, id |-> c]
OpenAck(c, ok) == [kind |-> "OpenAck", id |-> c, ok |-> ok]
Data(c, seq, msg) == [kind |-> "Data", id |-> c, seq |-> seq, msg |-> msg]
Frag(c, seq, msg, part) == [kind |-> "Frag", id |-> c, seq |-> seq, msg |-> msg, part |-> part]

\* One unit for the header and one for what a data frame carries.
Size(f) == IF f.kind \in {"Data", "Frag"} THEN 2 ELSE 1
LargePayload == 2

Init ==
    /\ bestEffort \in SUBSET (Ids \ {0})
    /\ channels = [e \in Ends |-> [c \in Ids |-> None]]
    /\ nextId = [e \in Ends |-> IF e = "a" THEN 1 ELSE 2]
    /\ tx = [e \in Ends |-> [queues |-> [c \in Ids |-> <<>>], order |-> <<>>, bytes |-> 0, wire |-> <<>>, air |-> {}]]
    /\ down = {}
    /\ endings = 0
    /\ calls = [e \in Ends |-> [c \in Ids |-> 0]]
    /\ sent = [e \in Ends |-> [c \in Ids |-> <<>>]]
    /\ got = [e \in Ends |-> [c \in Ids |-> <<>>]]
    /\ terminal = [e \in Ends |-> [c \in Ids |-> 0]]
    /\ swept = {} /\ refused = {} /\ closedBy = {}

-----------------------------------------------------------------------------
(* The sending side: operators on t, the sending side of one end.          *)

HasReliableCredit(t) == Len(t.wire) < Window

\* One round of FlushQueued's loop: a stale entry is skipped, a channel with more to send goes to the back.
FlushOne(t) ==
    LET c == Head(t.order)
        q == t.queues[c]
    IN  IF q = <<>>
        THEN [t EXCEPT !.order = Tail(@)]
        ELSE [t EXCEPT !.order = IF Len(q) > 1 THEN Append(Tail(@), c) ELSE Tail(@),
                       !.queues[c] = Tail(q),
                       !.bytes = @ - Size(Head(q)),
                       !.wire = Append(@, Head(q))]

\* Mutant: a channel that has more to send is not put back.
FlushForgets(t) ==
    IF t.order # <<>> /\ HasReliableCredit(t) THEN [FlushOne(t) EXCEPT !.order = Tail(t.order)] ELSE t

\* Every round takes an entry off send_order_ for good or fills a place of the window.
FlushQueued(t) ==
    LET rounds == Len(t.order) + Window
        after[n \in 0 .. rounds] ==
            IF n = 0 THEN t
            ELSE LET u == after[n - 1]
                 IN  IF u.order # <<>> /\ HasReliableCredit(u) THEN FlushOne(u) ELSE u
    IN  after[rounds]

\* SendWire, the queue: t has been flushed.
Waits(t, c) == t.queues[c] # <<>> \/ ~HasReliableCredit(t)

\* Mutant: the cap is compared before the frame is counted.
QueueOverfull(t, f) ==
    f.id \notin bestEffort /\ Waits(FlushQueued(t), f.id) /\ FlushQueued(t).bytes > MaxQueued

\* SendWire fails: "send queue full".
QueueFull(t, f) ==
    /\ f.id \notin bestEffort
    /\ Waits(FlushQueued(t), f.id)
    /\ FlushQueued(t).bytes + Size(f) > MaxQueued

Enqueued(t, f) ==
    [t EXCEPT !.bytes = @ + Size(f),
              !.queues[f.id] = Append(@, f),
              !.order = IF t.queues[f.id] = <<>> THEN Append(@, f.id) ELSE @]

\* Mutant: a frame goes out when there is credit, without a look at what waits.
SendWireUnflushed(t, f) ==
    IF f.id \in bestEffort THEN [t EXCEPT !.air = @ \cup {f}]
    ELSE IF HasReliableCredit(t) THEN [t EXCEPT !.wire = Append(@, f)]
    ELSE IF QueueFull(t, f) THEN t
    ELSE Enqueued(t, f)

SendWire(t, f) ==
    LET u == FlushQueued(t)
    IN  IF f.id \in bestEffort THEN [t EXCEPT !.air = @ \cup {f}]
        ELSE IF ~Waits(u, f.id) THEN [u EXCEPT !.wire = Append(@, f)]
        ELSE IF QueueFull(t, f) THEN u
        ELSE Enqueued(u, f)

QueuedSize(q) == FoldLeft(LAMBDA n, f : n + Size(f), 0, q)

\* DropQueued: the entry in send_order_ stays and is skipped later.
DropQueued(t, c) == [t EXCEPT !.queues[c] = <<>>, !.bytes = @ - QueuedSize(t.queues[c])]

\* A frame that is not data and finds the queue full is lost, and the channel noted.
NoteRefused(t, f) == IF QueueFull(t, f) THEN refused \cup {f.id} ELSE refused

-----------------------------------------------------------------------------
(* What the user of a mux does.                                            *)

Alive(e) == e \notin down

\* OpenOutbound: the record stays when the OPEN finds the queue full.  SendCapabilityOffer opens channel 0.
OpenOutbound(e, c) ==
    /\ Alive(e) /\ c \in Ids /\ Opener(c) = e /\ ~Has(e, c)
    /\ IF c = 0
       THEN calls[e][0] = 0 /\ terminal[e][0] = 0 /\ UNCHANGED nextId
       ELSE c = nextId[e] /\ nextId' = [nextId EXCEPT ![e] = @ + 2]
    /\ channels' = [channels EXCEPT ![e][c] = Record("Opening")]
    /\ tx' = [tx EXCEPT ![e] = SendWire(@, Frame("Open", c))]
    /\ refused' = NoteRefused(tx[e], Frame("Open", c))
    /\ UNCHANGED <<bestEffort, down, endings, calls, sent, got, terminal, swept, closedBy>>

\* SendData of a message that fits one frame, on a record with sequence number seq and the sending side t.
SendOne(e, c, seq, t) ==
    LET msg == calls[e][c] + 1
        ok == ~QueueFull(t, Data(c, seq, msg))
    IN  /\ calls' = [calls EXCEPT ![e][c] = msg]
        /\ sent' = IF ok THEN [sent EXCEPT ![e][c] = Append(@, msg)] ELSE sent
        /\ channels' = [channels EXCEPT ![e][c] = [@ EXCEPT !.state = "Open", !.tx = IF ok THEN seq + 1 ELSE seq]]

\* SendData's first condition, with the bound on messages.
MaySend(e, c) ==
    /\ Alive(e) /\ channels[e][c].state = "Open"
    /\ SumFunction(calls["a"]) + SumFunction(calls["b"]) < MaxMsgs

SendSmall(e, c) ==
    /\ MaySend(e, c)
    /\ LET seq == channels[e][c].tx
       IN  /\ SendOne(e, c, seq, tx[e])
           /\ tx' = [tx EXCEPT ![e] = SendWire(@, Data(c, seq, calls[e][c] + 1))]
    /\ UNCHANGED <<bestEffort, nextId, down, endings, got, terminal, swept, refused, closedBy>>

\* Mutant: only the first fragment's result is looked at.
FirstFragmentSent(t, first, second) == ~QueueFull(t, first)

BothFragmentsSent(t, first, second) == ~QueueFull(t, first) /\ ~QueueFull(SendWire(t, first), second)

\* SendData of a message in two fragments: refused up front when its payload does not fit the queue; each fragment's
\* frame is larger than its payload, so the second one can still be refused after the first has gone.
SendLarge(e, c) ==
    /\ c # 0 /\ MaySend(e, c)
    /\ LET seq == channels[e][c].tx
           msg == calls[e][c] + 1
           first == Frag(c, seq, msg, 1)
           second == Frag(c, seq + 1, msg, 2)
           t1 == SendWire(tx[e], first)
           fits == c \in bestEffort \/ tx[e].bytes + LargePayload <= MaxQueued
           ok1 == fits /\ ~QueueFull(tx[e], first)
           ok2 == ok1 /\ ~QueueFull(t1, second)
       IN  /\ calls' = [calls EXCEPT ![e][c] = msg]
           /\ sent' = IF fits /\ BothFragmentsSent(tx[e], first, second)
                      THEN [sent EXCEPT ![e][c] = Append(@, msg)] ELSE sent
           /\ channels' = [channels EXCEPT ![e][c].tx = IF ok2 THEN seq + 2 ELSE IF ok1 THEN seq + 1 ELSE seq]
           /\ tx' = [tx EXCEPT ![e] = IF ~fits THEN @ ELSE IF ok1 THEN SendWire(t1, second) ELSE t1]
    /\ UNCHANGED <<bestEffort, nextId, down, endings, got, terminal, swept, refused, closedBy>>

MayEnd(e) == Alive(e) /\ endings < MaxEndings /\ endings' = endings + 1

\* Mutant: the peer is not told.
ResetSilently(e, c) ==
    /\ tx' = [tx EXCEPT ![e] = DropQueued(@, c)]
    /\ channels' = [channels EXCEPT ![e][c] = None]
    /\ UNCHANGED refused

\* ResetChannel, on the sending side and the table.
Reset(e, c) ==
    /\ tx' = [tx EXCEPT ![e] = SendWire(DropQueued(@, c), Frame("Reset", c))]
    /\ refused' = NoteRefused(DropQueued(tx[e], c), Frame("Reset", c))
    /\ channels' = [channels EXCEPT ![e][c] = None]

ResetChannel(e, c) ==
    /\ MayEnd(e) /\ c # 0 /\ Has(e, c)
    /\ Reset(e, c)
    /\ UNCHANGED <<bestEffort, nextId, down, calls, sent, got, terminal, swept, closedBy>>

\* CloseChannel: the CLOSE waits behind queued data; the record stays.  A session closes once.
CloseChannel(e, c) ==
    /\ MayEnd(e) /\ c # 0 /\ Has(e, c) /\ <<e, c>> \notin closedBy
    /\ channels' = [channels EXCEPT ![e][c] = [@ EXCEPT !.state = "Closing", !.tx = channels[e][c].tx + 1]]
    /\ tx' = [tx EXCEPT ![e] = SendWire(@, Frame("Close", c))]
    /\ refused' = NoteRefused(tx[e], Frame("Close", c))
    /\ closedBy' = closedBy \cup {<<e, c>>}
    /\ UNCHANGED <<bestEffort, nextId, down, calls, sent, got, terminal, swept>>

\* DetachAllChannels: the link is dropped and its mux destroyed; each channel's user is told.
DetachAllChannels(e) ==
    /\ MayEnd(e)
    /\ down' = down \cup {e}
    /\ channels' = [channels EXCEPT ![e] = [c \in Ids |-> None]]
    /\ tx' = [tx EXCEPT ![e] = [@ EXCEPT !.queues = [c \in Ids |-> <<>>], !.order = <<>>, !.bytes = 0]]
    /\ terminal' = [terminal EXCEPT ![e] = [c \in Ids |-> IF Has(e, c) THEN @[c] + 1 ELSE @[c]]]
    /\ UNCHANGED <<bestEffort, nextId, calls, sent, got, swept, refused, closedBy>>

-----------------------------------------------------------------------------
(* DispatchFrame: frame f has come to end e; txs is tx without it.         *)

NotifyTerminal(e, c) == terminal' = [terminal EXCEPT ![e][c] = @ + 1]

\* Mutant: an OPEN that is not taken is dropped, without the refusing OPENACK.
OpenIgnored(e, f, txs, handled) ==
    /\ f.kind = "Open"
    /\ IF Has(e, f.id) \/ ~handled \/ Cardinality({d \in Ids : Has(e, d)}) >= MaxChannels
       THEN tx' = txs /\ UNCHANGED <<channels, refused>>
       ELSE /\ channels' = [channels EXCEPT ![e][f.id] = Record("Open")]
            /\ tx' = [txs EXCEPT ![e] = SendWire(@, OpenAck(f.id, TRUE))]
            /\ refused' = NoteRefused(txs[e], OpenAck(f.id, TRUE))
    /\ UNCHANGED <<calls, sent, got, terminal>>

\* HandleOpen: handled says whether a handler is registered, or unhandled opens are taken.
HandleOpen(e, f, txs, handled) ==
    LET c == f.id
        count == Cardinality({d \in Ids : Has(e, d)})
        takes == (c = 0 \/ Opener(c) # e) /\ count < MaxChannels /\ (c = 0 \/ handled)
    IN  /\ f.kind = "Open"
        /\ IF Has(e, c)
           THEN tx' = txs /\ UNCHANGED <<channels, refused>>
           ELSE /\ channels' = IF takes THEN [channels EXCEPT ![e][c] = Record("Open")] ELSE channels
                /\ tx' = [txs EXCEPT ![e] = SendWire(@, OpenAck(c, takes))]
                /\ refused' = NoteRefused(txs[e], OpenAck(c, takes))
        /\ UNCHANGED <<calls, sent, got, terminal>>

\* HandleOpenAck: the capability offer waits in pending_open_data_ while channel 0 is opening.
HandleOpenAck(e, f, txs) ==
    LET c == f.id
    IN  /\ f.kind = "OpenAck"
        /\ IF ~Has(e, c)
           THEN tx' = txs /\ UNCHANGED <<channels, terminal, calls, sent>>
           ELSE IF ~f.ok
           THEN /\ channels' = [channels EXCEPT ![e][c] = None]
                /\ NotifyTerminal(e, c)
                /\ tx' = txs /\ UNCHANGED <<calls, sent>>
           ELSE IF c = 0
           THEN /\ SendOne(e, 0, channels[e][0].tx, txs[e])
                /\ tx' = [txs EXCEPT ![e] = SendWire(@, Data(0, channels[e][0].tx, calls[e][0] + 1))]
                /\ UNCHANGED terminal
           ELSE /\ channels' = [channels EXCEPT ![e][c].state = "Open"]
                /\ tx' = txs /\ UNCHANGED <<terminal, calls, sent>>
        /\ UNCHANGED <<refused, got>>

\* Mutant: the record stays behind.
KeepsRecord(e, f, txs) ==
    /\ f.kind \in {"Reset", "Close"}
    /\ tx' = [txs EXCEPT ![e] = DropQueued(@, f.id)]
    /\ IF Has(e, f.id) THEN NotifyTerminal(e, f.id) ELSE UNCHANGED terminal
    /\ UNCHANGED <<channels, refused, calls, sent, got>>

\* A RESET or a CLOSE of the peer.
HandleTerminal(e, f, txs) ==
    /\ f.kind \in {"Reset", "Close"}
    /\ IF Has(e, f.id)
       THEN /\ channels' = [channels EXCEPT ![e][f.id] = None]
            /\ tx' = [txs EXCEPT ![e] = DropQueued(@, f.id)]
            /\ NotifyTerminal(e, f.id)
       ELSE tx' = txs /\ UNCHANGED <<channels, terminal>>
    /\ UNCHANGED <<refused, calls, sent, got>>

\* Does the channel take this data frame: it is open and, if reliable, the number is the next one.
InSequence(e, f) ==
    /\ channels[e][f.id].state = "Open"
    /\ f.id \in bestEffort \/ f.seq = channels[e][f.id].rx

Advanced(e, c) == IF c \in bestEffort THEN channels[e][c].rx ELSE channels[e][c].rx + 1

HandleData(e, f, txs) ==
    /\ f.kind = "Data"
    /\ IF InSequence(e, f)
       THEN /\ channels' = [channels EXCEPT ![e][f.id].rx = Advanced(e, f.id)]
            /\ got' = [got EXCEPT ![e][f.id] = Append(@, f.msg)]
       ELSE UNCHANGED <<channels, got>>
    /\ tx' = txs
    /\ UNCHANGED <<refused, calls, sent, terminal>>

\* MessageReassembly::Push of a message in two parts; partial holds the parts so far, <<message, part>>, as they came,
\* so its first one is of the message begun first.  At the cap of partial messages a reliable channel is reset; a lossy
\* one drops its oldest.
Assembling(e, c) == {p[1] : p \in Range(channels[e][c].partial)}
AtCap(e, f) == f.msg \notin Assembling(e, f.id) /\ Cardinality(Assembling(e, f.id)) >= MaxPartials
Without(partial, msgs) ==
    LET kept[n \in 0 .. Len(partial)] ==
            IF n = 0 THEN <<>>
            ELSE IF partial[n][1] \in msgs THEN kept[n - 1] ELSE Append(kept[n - 1], partial[n])
    IN  kept[Len(partial)]

HandleFrag(e, f, txs) ==
    LET c == f.id
        old == channels[e][c].partial
        kept == IF AtCap(e, f) THEN Without(old, {Head(old)[1]}) ELSE old
        now == Append(kept, <<f.msg, f.part>>)
        whole == {<<f.msg, 1>>, <<f.msg, 2>>} \subseteq Range(now)
    IN  /\ f.kind = "Frag"
        /\ IF ~InSequence(e, f)
           THEN tx' = txs /\ UNCHANGED <<channels, refused, got, terminal>>
           ELSE IF AtCap(e, f) /\ c \notin bestEffort
           THEN /\ channels' = [channels EXCEPT ![e][c] = None]
                /\ tx' = [txs EXCEPT ![e] = SendWire(DropQueued(@, c), Frame("Reset", c))]
                /\ refused' = NoteRefused(DropQueued(txs[e], c), Frame("Reset", c))
                /\ NotifyTerminal(e, c)
                /\ UNCHANGED got
           ELSE /\ channels' = [channels EXCEPT ![e][c] =
                        [@ EXCEPT !.rx = Advanced(e, c), !.partial = IF whole THEN Without(now, {f.msg}) ELSE now]]
                /\ got' = IF whole THEN [got EXCEPT ![e][c] = Append(@, f.msg)] ELSE got
                /\ tx' = txs
                /\ UNCHANGED <<refused, terminal>>
        /\ UNCHANGED <<calls, sent>>

DispatchFrame(e, f, txs) ==
    /\ \/ \E handled \in BOOLEAN : HandleOpen(e, f, txs, handled)
       \/ HandleOpenAck(e, f, txs)
       \/ HandleTerminal(e, f, txs)
       \/ HandleData(e, f, txs)
       \/ HandleFrag(e, f, txs)
    /\ UNCHANGED <<bestEffort, nextId, down, endings, swept, closedBy>>

\* OnFrameInbound, from the reliable stream and from the best-effort one.
Receive(e) ==
    /\ Alive(e) /\ tx[Peer(e)].wire # <<>>
    /\ DispatchFrame(e, Head(tx[Peer(e)].wire), [tx EXCEPT ![Peer(e)].wire = Tail(@)])

ReceiveBestEffort(e, f) ==
    /\ Alive(e)
    /\ DispatchFrame(e, f, [tx EXCEPT ![Peer(e)].air = @ \ {f}])

-----------------------------------------------------------------------------
(* Tick: expired partial messages, silent readers, the queues.             *)

\* ExpireIdleReaders of the channels in idle, in that order: no data has come for their read_timeout.
ResetInTurn(t, idle) ==
    LET after[n \in 0 .. Len(idle)] ==
            IF n = 0 THEN t ELSE SendWire(DropQueued(after[n - 1], idle[n]), Frame("Reset", idle[n]))
    IN  after[Len(idle)]

RefusedInTurn(t, idle) ==
    {idle[i] : i \in {n \in DOMAIN idle :
        QueueFull(DropQueued(ResetInTurn(t, SubSeq(idle, 1, n - 1)), idle[n]), Frame("Reset", idle[n]))}}

\* What SweepExpired leaves of a channel's partial messages.
Unexpired(e, c, old) == Without(channels[e][c].partial, {m \in Assembling(e, c) : <<c, m>> \in old})

\* SweepExpired of the messages in old, <<channel, message>>, which have been assembling for too long; the idle
\* readers; FlushQueued.
Tick(e, old, idle) ==
    /\ Alive(e)
    /\ endings' = endings + Len(idle) /\ endings' <= MaxEndings
    /\ channels' = [channels EXCEPT ![e] = [c \in Ids |->
            IF c \in Range(idle) \/ ~Has(e, c) THEN None
            ELSE [@[c] EXCEPT !.partial = Unexpired(e, c, old)]]]
    /\ swept' = swept \cup {<<e, o[1]>> : o \in old}
    /\ terminal' = [terminal EXCEPT ![e] = [c \in Ids |-> IF c \in Range(idle) THEN @[c] + 1 ELSE @[c]]]
    /\ refused' = refused \cup RefusedInTurn(tx[e], idle)
    /\ tx' = [tx EXCEPT ![e] = FlushQueued(ResetInTurn(@, idle))]
    /\ UNCHANGED <<bestEffort, nextId, down, calls, sent, got, closedBy>>

\* What a tick may find expired.
Partials(e) == UNION {{c} \X Assembling(e, c) : c \in {d \in Ids : Has(e, d)}}
Readers(e) == {c \in Timed : Has(e, c)}

-----------------------------------------------------------------------------

Next ==
    \E e \in Ends :
        \/ \E c \in Ids :
            \/ OpenOutbound(e, c)
            \/ SendSmall(e, c)
            \/ SendLarge(e, c)
            \/ ResetChannel(e, c)
            \/ CloseChannel(e, c)
        \/ DetachAllChannels(e)
        \/ \E old \in SUBSET Partials(e), readers \in SUBSET Readers(e) :
            \E idle \in SetToSeqs(readers) : Tick(e, old, idle)
        \/ Receive(e)
        \/ \E f \in tx[Peer(e)].air : ReceiveBestEffort(e, f)

\* A link is ticked and its reliable stream delivers for as long as it is up.
Fairness == \A e \in Ends : WF_vars(Tick(e, {}, <<>>)) /\ WF_vars(Receive(e))

Spec == Init /\ [][Next]_vars /\ Fairness

-----------------------------------------------------------------------------

Frames == {"Open", "OpenAck", "Data", "Frag", "Reset", "Close"}
Reliable == Ids \ bestEffort

\* The tables, queues and streams hold what their types say.
TypeOK ==
    /\ \A e \in Ends, c \in Ids :
        /\ Has(e, c) =>
            /\ channels[e][c].state \in {"Opening", "Open", "Closing"}
            /\ channels[e][c].tx \in 1 .. 2 * MaxMsgs + 4 /\ channels[e][c].rx \in 1 .. 2 * MaxMsgs + 3
            /\ Range(channels[e][c].partial) \subseteq (1 .. MaxMsgs + 1) \X {1, 2}
        /\ \A i \in DOMAIN tx[e].queues[c] : tx[e].queues[c][i].id = c /\ tx[e].queues[c][i].kind \in Frames
        /\ calls[e][c] \in 0 .. MaxMsgs + 1
        /\ sent[e][c] \in Seq(1 .. MaxMsgs + 1) /\ got[e][c] \in Seq(1 .. MaxMsgs + 1)
        /\ terminal[e][c] \in Nat
    /\ \A e \in Ends : nextId[e] \in Nat /\ tx[e].bytes \in 0 .. MaxQueued /\ Len(tx[e].wire) <= Window
    /\ down \subseteq Ends /\ swept \subseteq Ends \X Ids /\ closedBy \subseteq Ends \X Ids /\ refused \subseteq Ids

\* What the data handler of a reliable channel has been given is the beginning of what the other end's SendData said it
\* sent, whatever was fragmented, queued, refused or reset meanwhile (unless a partial message timed out there).
DataInOrder ==
    \A e \in Ends, c \in Reliable : <<e, c>> \notin swept => IsPrefix(got[e][c], sent[Peer(e)][c])

\* The number of a data frame that comes out of the reliable stream for an open channel is the one rx_seq expects: the
\* send queues never let a frame of a channel overtake another, and a refused frame uses no number
\* (a CLOSE does, so not after the other end's CloseChannel: see ClosedStaysClosed).
NoOutOfOrder ==
    \A e \in Ends : tx[Peer(e)].wire # <<>> =>
        LET f == Head(tx[Peer(e)].wire)
        IN  f.kind \in {"Data", "Frag"} /\ channels[e][f.id].state = "Open"
                => f.seq = channels[e][f.id].rx \/ <<Peer(e), f.id>> \in closedBy

\* A channel's user is told at most once that it ended, and is given no data after that.
TerminalOnce ==
    [][\A e \in Ends, c \in Ids :
        /\ terminal'[e][c] <= 1
        /\ got'[e][c] # got[e][c] => terminal[e][c] = 0]_vars

\* Of a channel whose OPEN, OPENACK, RESET or CLOSE found the send queue full, or whose link went, nothing is promised.
Excused(c) == down # {} \/ c \in refused

(* The bounds end the traffic of every behaviour, so what follows is       *)
(* stated of all channels at once, as []<>.                                *)

\* The OPEN of a reliable channel is answered, by a refusal when the other end's table is full or nobody handles the
\* protocol: the channel does not stay Opening.
OpensAreAnswered ==
    []<>(\A e \in Ends, c \in Reliable : channels[e][c].state # "Opening" \/ Excused(c))

\* What waits in the send queues goes out, though the window is full at first and RESETs drop part of it.
QueueDrains ==
    []<>(down # {} \/ \A e \in Ends : tx[e].bytes = 0)

\* A reliable channel does not stay open at one end when the other has no record of it (unless this end called
\* CloseChannel: see ClosedStaysClosed).
HalfOpenEnds ==
    []<>(\A e \in Ends, c \in Reliable :
            channels[e][c].state = "Open" => Has(Peer(e), c) \/ Excused(c) \/ <<e, c>> \in closedBy)

\* "Closing and reset channels are no longer open" (channel_mux_test.cpp): once closed by its user a channel is not
\* open again.  HandleOpenAck does not look at the state it replaces.
ClosedStaysClosed ==
    \A e \in Ends, c \in Ids : <<e, c>> \in closedBy => channels[e][c].state # "Open"
-----------------------------------------------------------------------------
(* The inductive invariant. It speaks of the frames of a channel that are  *)
(* on their way from one end, in a send queue or in flight, as a set: the  *)
(* numbers they carry give their order.                                    *)

Sendable ==
    [kind : {"Open", "Reset", "Close"}, id : Ids]
        \cup [kind : {"OpenAck"}, id : Ids, ok : BOOLEAN]
        \cup [kind : {"Data"}, id : Ids, seq : Nat \ {0}, msg : Nat \ {0}]
        \cup [kind : {"Frag"}, id : Ids, seq : Nat \ {0}, msg : Nat \ {0}, part : {1, 2}]

Records ==
    [state : {"Opening", "Open", "Closing"}, tx : Nat \ {0}, rx : Nat \ {0},
     partial : Seq((Nat \ {0}) \X {1, 2})]

StateTypes ==
    /\ bestEffort \subseteq Ids \ {0}
    /\ channels \in [Ends -> [Ids -> Records \cup {None}]]
    /\ nextId \in [Ends -> Nat]
    /\ calls \in [Ends -> [Ids -> Nat]]
    /\ sent \in [Ends -> [Ids -> Seq(Nat)]]
    /\ got \in [Ends -> [Ids -> Seq(Nat)]]
    /\ terminal \in [Ends -> [Ids -> Nat]]
    /\ DOMAIN tx = Ends /\ tx = [e \in Ends |-> tx[e]]

\* A RESET or CLOSE may come at any time; an OPEN or OPENACK is the first frame of its direction, then come data frames
\* in the order of their numbers.
Ranked(f) == f.kind \notin {"Reset", "Close"}
IsData(f) == f.kind \in {"Data", "Frag"}
Rank(f) == IF IsData(f) THEN f.seq ELSE 0
Precedes(f, g) == f.id = g.id /\ Ranked(f) /\ Ranked(g) => Rank(f) < Rank(g)

SideTypes(t) ==
    /\ t \in [queues : {t.queues}, order : {t.order}, bytes : {t.bytes}, wire : {t.wire}, air : {t.air}]
    /\ t.queues \in [Ids -> Seq(Sendable)]
    /\ t.order \in Seq(Ids)
    /\ t.wire \in Seq(Sendable)
    /\ t.air \subseteq Sendable

\* What a channel's class says of where its frames are.
SideClasses(t) ==
    /\ \A c \in Ids : \A f \in Range(t.queues[c]) : f.id = c /\ c \notin bestEffort
    /\ \A f \in Range(t.wire) : f.id \notin bestEffort
    /\ \A f \in t.air : f.id \in bestEffort

Ordered(q) == \A i, k \in 1 .. Len(q) : i < k => Precedes(q[i], q[k])

SideOrder(t) ==
    /\ Ordered(t.wire)
    /\ \A c \in Ids :
        /\ Ordered(t.queues[c])
        /\ \A f \in Range(t.wire), g \in Range(t.queues[c]) : Precedes(f, g)

SideOK(t) == SideTypes(t) /\ SideClasses(t) /\ SideOrder(t)

InTransit(t, c) == {f \in Range(t.wire) \cup Range(t.queues[c]) \cup t.air : f.id = c}

DataOf(S) == {f \in S : IsData(f)}
HasKind(S, kind) == \E f \in S : f.kind = kind

(* The life of a channel: o opens it, p is the other end.                  *)

Touched(e, c) ==
    \/ InTransit(tx[e], c) # {} \/ Has(e, c) \/ terminal[e][c] # 0
    \/ sent[e][c] # <<>> \/ got[e][c] # <<>>

\* A channel that can still be opened has never been: an id is used once.
OpenedOnce(c) ==
    LET o == Opener(c)
    IN  (\/ c # 0 /\ nextId[o] <= c
         \/ c = 0 /\ Alive(o) /\ ~Has(o, c) /\ terminal[o][c] = 0)
            => ~Touched(o, c) /\ ~Touched(Peer(o), c)

\* Before the OPENACK has come the opener has sent no data, and before the OPEN has come the other end nothing.
Opens(c) ==
    LET o == Opener(c)
        p == Peer(o)
        from == InTransit(tx[o], c)
        back == InTransit(tx[p], c)
    IN  /\ ~HasKind(back, "Open") /\ ~HasKind(from, "OpenAck")
        /\ \A f, g \in back : f.kind = "OpenAck" /\ g.kind = "OpenAck" => f = g
        /\ HasKind(from, "Open") => ~Touched(p, c)
        /\ HasKind(from, "Open") \/ HasKind(back, "OpenAck") =>
            /\ DataOf(from) = {} /\ sent[o][c] = <<>> /\ got[o][c] = <<>> /\ got[p][c] = <<>>
            /\ Has(o, c) =>
                /\ channels[o][c].state # "Open" /\ channels[o][c].rx = 1 /\ channels[o][c].partial = <<>>
                /\ channels[o][c].tx = 1 \/ <<o, c>> \in closedBy

EndsOnce(e, c) == terminal[e][c] \in {0, 1} /\ (Has(e, c) => terminal[e][c] = 0)

(* The data of a reliable channel from one end to the other. D: the data   *)
(* frames in transit, from: the sender's record, to: the receiver's.       *)

\* The frame that makes its message whole.
Completes(f) == f.kind = "Data" \/ f.part = 2
Part(f, n) == f.kind = "Frag" /\ f.part = n

\* Numbers and messages rise together, and the sender's next number is beyond them.
Numbered(D, from, count, msgs) ==
    /\ \A f \in D : f.msg <= count /\ (from # None => f.seq < from.tx)
    /\ \A f, g \in D :
        /\ f.seq = g.seq => f = g
        /\ f.seq < g.seq => f.msg < g.msg \/ (f.msg = g.msg /\ Part(f, 1) /\ Part(g, 2))
    /\ \A j \in 1 .. Len(msgs) : msgs[j] <= count
    /\ \A i, j \in 1 .. Len(msgs) : i < j => msgs[i] < msgs[j]

\* The receiver takes what comes, or will when the OPENACK has come.
Listens(S, to) == to # None /\ (to.state = "Open" \/ HasKind(S, "OpenAck"))

\* The frames between the one the receiver expects and number seq are all on their way.
Linked(D, to, seq) == \A n \in to.rx .. seq - 1 : \E f \in D : f.seq = n

Ahead(D, from, to) ==
    /\ \A f \in D : to.rx <= f.seq
    /\ from # None => to.rx <= from.tx

NoGap(D, from, to) ==
    /\ \A f \in D : Linked(D, to, f.seq)
    /\ from # None => Linked(D, to, from.tx)

Pending(D, msg) == \E f \in D : Completes(f) /\ f.msg = msg

\* What has been sent and not been given to the receiver is on its way, up to the first gap.
Complete(D, from, to, msgs, given) ==
    /\ \A f \in D : Completes(f) => \E j \in 1 .. Len(msgs) : j > Len(given) /\ msgs[j] = f.msg
    /\ \A f \in D : Linked(D, to, f.seq) =>
        \A j \in 1 .. Len(msgs) : j > Len(given) /\ msgs[j] < f.msg => Pending(D, msgs[j])
    /\ from # None /\ Linked(D, to, from.tx) =>
        \A j \in 1 .. Len(msgs) : j > Len(given) => Pending(D, msgs[j])
    /\ \A p \in Range(to.partial) : p[2] = 1
    /\ \A f \in D : Part(f, 2) /\ Linked(D, to, f.seq) =>
        \/ \E p \in Range(to.partial) : p[1] = f.msg
        \/ \E g \in D : Part(g, 1) /\ g.msg = f.msg

Begins(given, msgs) == Len(given) <= Len(msgs) /\ \A j \in 1 .. Len(given) : given[j] = msgs[j]

\* closed: the sender has called CloseChannel; lost: a partial message was dropped at the receiver.
Flow(S, from, to, count, msgs, given, closed, lost) ==
    LET D == DataOf(S)
    IN  /\ Numbered(D, from, count, msgs)
        /\ Listens(S, to) => Ahead(D, from, to)
        /\ Listens(S, to) /\ ~closed => NoGap(D, from, to)
        /\ Listens(S, to) /\ ~lost => Complete(D, from, to, msgs, given)
        /\ ~lost => Begins(given, msgs)

Flows(s, c) ==
    LET e == Peer(s)
    IN  Flow(InTransit(tx[s], c), channels[s][c], channels[e][c], calls[s][c], sent[s][c], got[e][c],
             <<s, c>> \in closedBy, <<e, c>> \in swept)

ChannelInv(c) ==
    /\ OpenedOnce(c)
    /\ Opens(c)
    /\ \A e \in Ends : EndsOnce(e, c)
    /\ c \notin bestEffort => \A s \in Ends : Flows(s, c)

IndInv ==
    /\ StateTypes
    /\ \A e \in Ends : SideOK(tx[e])
    /\ \A c \in Ids : ChannelInv(c)
=============================================================================
