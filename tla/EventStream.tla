----------------------------- MODULE EventStream -----------------------------
(***************************************************************************)
(* One session's events on their way from the log to a page.  The log is a *)
(* table several processes append to; the Web process that serves the page *)
(* also hears, on its own bus, of the events it appended itself.  The      *)
(* connection (handleSessionEventsSse) merges the bus and a polling of the *)
(* table, is cut short when the client is slow or far behind, and may      *)
(* break; the client (openSessionStream, useSessionStream) reconnects from *)
(* the last event it saw, keeps a window of events and can page backwards. *)
(*                                                                         *)
(* One connection at a time: what an abandoned one writes is lost.         *)
(***************************************************************************)
EXTENDS Naturals, Sequences, SequencesExt, FiniteSets, FiniteSetsExt

CONSTANTS MaxSeq,        \* bound on the log
          MaxInternal,   \* bound on its internal events
          MaxUnheard,    \* bound on the events waiting to be published
          MaxFaults,     \* bound on broken connections, crashes, new subscriptions
          Window,        \* REPLAY_WINDOW
          Chunk,         \* CATCH_UP_CHUNK_LIMIT
          Size,          \* the bytes of an event, by its seq
          Budget,        \* RECONNECT_MAX_EVENTS
          BudgetBytes,   \* RECONNECT_MAX_BYTES
          MaxPending,    \* MAX_PENDING_EVENTS
          PendingBytes,  \* MAX_PENDING_BYTES
          HighWater,     \* frames in flight from which write() returns false
          ClientWindow,  \* CLIENT_STREAM_WINDOW_SIZE
          MaxEarlier,    \* MAX_EARLIER
          EarlierPage,   \* EARLIER_PAGE_LIMIT
          MaxScans       \* MAX_SCANS

ASSUME LimitsAssumption ==
    /\ {MaxSeq, MaxInternal, MaxUnheard, MaxFaults, Window, Chunk, Budget, BudgetBytes,
        MaxPending, PendingBytes, HighWater, ClientWindow, MaxEarlier, EarlierPage,
        MaxScans} \subseteq Nat
    /\ Size \in [1..MaxSeq -> Nat]
    /\ 0 < EarlierPage /\ 0 < HighWater /\ 0 < MaxScans /\ 0 < Chunk
    /\ Window <= ClientWindow

VARIABLES
    log,        \* the rows in order of seq; TRUE: visible, FALSE: internal
    unheard,    \* events this process appended and has not published yet
    conn,       \* the connection, with the frames on the wire
    client,     \* openSessionStream: state and maxSeq
    shown,      \* eventsRef: the seqs of the events on the page
    retain,     \* retainFloor
    earlier,    \* earlierCursor, 0 for null
    asked,      \* session.events requests in flight; mine: of this subscription
    cut,        \* history: the highest cursor a truncation frame announced
    letGo,      \* history: events that were shown and left the window
    faults

vars == <<log, unheard, conn, client, shown, retain, earlier, asked, cut, letGo,
          faults>>
history == <<retain, earlier, asked>>

Seqs == 1..MaxSeq
Greatest(a, b) == IF a < b THEN b ELSE a
Least(a, b) == IF a < b THEN a ELSE b
Monus(a, b) == IF a < b THEN 0 ELSE a - b
Visible(S) == {s \in S : log[s]}
\* The element of a singleton.  (What is bound in a set is evaluated once.)
Once(S) == CHOOSE x \in S : TRUE
Interval(a, b) == [i \in 1..Monus(b + 1, a) |-> a + i - 1]

\* The elements of S in order: the i-th has i - 1 below it.
Ascending(S) ==
    [i \in 1..Cardinality(S) |-> CHOOSE s \in S : Cardinality({t \in S : t < s}) = i - 1]

\* What the rows weigh together.
Bytes(rows) ==
    LET upto[n \in 0..Len(rows)] == IF n = 0 THEN 0 ELSE upto[n - 1] + Size[rows[n]]
    IN  upto[Len(rows)]

Event(s) == [kind |-> "event", seq |-> s]
Truncated(s) == [kind |-> "truncated", seq |-> s]

NoConnection ==
    [state |-> "none", cursor |-> 0, pending |-> {}, blocked |-> FALSE,
     over |-> FALSE, budget |-> FALSE, counted |-> 0, bytes |-> 0, pc |-> "idle",
     page |-> <<>>, more |-> FALSE, latest |-> 0, wire |-> <<>>]

Init ==
    /\ log = <<>>
    /\ unheard = {}
    /\ conn = NoConnection
    /\ client = [state |-> "waiting", maxSeq |-> 0]
    /\ shown = <<>>
    /\ retain = 0
    /\ earlier = 0
    /\ asked = {}
    /\ cut = 0
    /\ letGo = {}
    /\ faults = 0

-----------------------------------------------------------------------------
(* The log and the bus.                                                    *)

\* appendEvent: max(seq) + 1 under the writer lock, by this process, which
\* publishes the event after the await, or by another one, which cannot.
AppendEvent(visible, here) ==
    /\ Len(log) < MaxSeq
    /\ visible \/ Cardinality(DOMAIN log \ Visible(DOMAIN log)) < MaxInternal
    /\ here => Cardinality(unheard) < MaxUnheard
    /\ log' = Append(log, visible)
    /\ unheard' = IF here THEN unheard \cup {Len(log) + 1} ELSE unheard
    /\ UNCHANGED <<conn, client, shown, history, cut, letGo, faults>>

\* Mutant: the buffer is not contiguous, the oldest buffered event goes first.
DrainWithoutOrder(c) ==
    IF c.blocked \/ c.pending = {} THEN c
    ELSE LET s == Min(c.pending)
             out == IF log[s] THEN <<Event(s)>> ELSE <<>>
         IN [c EXCEPT !.cursor = s, !.pending = @ \ {s}, !.wire = @ \o out,
                      !.blocked = log[s] /\ Len(c.wire) + 1 >= HighWater]

\* drain(): the contiguous prefix goes out, the cursor with it, until a write
\* returns false; internal events move the cursor and are not written.
Drain(c) ==
    LET rows(k) == (c.cursor + 1)..(c.cursor + k)
        frames(k) == Ascending(Visible(rows(k)))
        refused(k) == log[c.cursor + k] /\ Len(c.wire) + Len(frames(k)) >= HighWater
        may == {k \in 0..Cardinality(c.pending) :
                  rows(k) \subseteq c.pending /\ \A j \in 1..(k - 1) : ~refused(j)}
        sent(k) == [c EXCEPT !.cursor = @ + k, !.pending = @ \ rows(k),
                             !.wire = @ \o [i \in DOMAIN frames(k) |-> Event(frames(k)[i])],
                             !.blocked = k > 0 /\ refused(k)]
    IN IF c.blocked THEN c ELSE Once({sent(k) : k \in {Max(may)}})

\* Mutant: what waits for a slow client has no cap.
EnqueueUncapped(c, s) ==
    IF s <= c.cursor \/ s \in c.pending \/ c.over THEN c
    ELSE Drain([c EXCEPT !.pending = @ \cup {s}])

\* enqueue(): an event already written or buffered is ignored; a buffer over
\* one of its caps is dropped and the connection is going to be truncated and closed.
Enqueue(c, s) ==
    LET grown == [c EXCEPT !.pending = @ \cup {s}] IN
    IF s <= c.cursor \/ s \in c.pending \/ c.over THEN c
    ELSE IF \/ Cardinality(grown.pending) > MaxPending
            \/ Bytes(Ascending(grown.pending)) > PendingBytes
    THEN [c EXCEPT !.pending = {}, !.over = TRUE]
    ELSE Drain(grown)

\* enqueue() of one row after the other.
EnqueueAll(c, rows) ==
    LET after[n \in 0..Len(rows)] ==
            IF n = 0 THEN c ELSE Once({Enqueue(d, rows[n]) : d \in {after[n - 1]}})
    IN  after[Len(rows)]

\* bus.publish: synchronous, to whoever is subscribed at that moment.
Publish(s) ==
    /\ s \in unheard
    /\ unheard' = unheard \ {s}
    /\ conn' = IF conn.state = "open" THEN Enqueue(conn, s) ELSE conn
    /\ UNCHANGED <<log, client, shown, history, cut, letGo, faults>>

-----------------------------------------------------------------------------
(* The connection.                                                         *)

\* The handler up to its subscription: a first connection starts a window
\* before the end, a reconnection after Last-Event-ID with a replay budget.
Connect ==
    /\ client.state = "waiting"
    /\ client' = [client EXCEPT !.state = "connected"]
    /\ conn' = [NoConnection EXCEPT
                  !.state = "open",
                  !.cursor = IF client.maxSeq = 0 THEN Monus(Len(log), Window)
                             ELSE client.maxSeq,
                  !.budget = client.maxSeq # 0]
    /\ UNCHANGED <<log, unheard, shown, history, cut, letGo, faults>>

Upto(first, n) == Interval(first + 1, Least(first + n, Len(log)))

\* catchUp(), by its first call, its timer or its loop: read a page.
ReadPage ==
    /\ conn.state = "open" /\ conn.pc = "idle" /\ ~conn.blocked /\ ~conn.over
    /\ conn' = [conn EXCEPT !.pc = "page", !.page = Upto(conn.cursor, Chunk),
                            !.more = conn.cursor + Chunk < Len(log)]
    /\ UNCHANGED <<log, unheard, client, shown, history, cut, letGo, faults>>

\* Hand the page to enqueue, counting its rows and their bytes against the budget of a
\* reconnection, up to the row that exceeds it.
\* The pass ends over budget, blocked, or at the end of the log, where the
\* budget has served; otherwise it reads on.
ReplayPage ==
    /\ conn.state = "open" /\ conn.pc = "page"
    /\ LET bytes(k) == conn.bytes + Bytes(SubSeq(conn.page, 1, k))
           exceeding == {k \in DOMAIN conn.page :
                           conn.counted + k > Budget \/ bytes(k) > BudgetBytes}
           n == IF conn.budget /\ exceeding # {} THEN Min(exceeding) - 1 ELSE Len(conn.page)
           cutOff == n < Len(conn.page)
       IN \E c \in {EnqueueAll(conn, SubSeq(conn.page, 1, n))} :
            LET atEnd == /\ ~cutOff /\ ~c.blocked /\ ~c.over
                         /\ ~conn.more \/ conn.page = <<>>
                served == ~c.budget \/ cutOff \/ atEnd
            IN conn' = [c EXCEPT !.page = <<>>, !.more = FALSE,
                                 !.pc = IF cutOff THEN "cut" ELSE "idle",
                                 !.latest = IF cutOff THEN Len(log) ELSE 0,
                                 !.budget = ~served,
                                 !.counted = IF served THEN 0 ELSE @ + n,
                                 !.bytes = IF served THEN 0 ELSE bytes(n)]
    /\ UNCHANGED <<log, unheard, client, shown, history, cut, letGo, faults>>

\* Over budget: skip to a window before the end, tell the client, read the tail.  If
\* the bytes exceeded it, this may lie before rows that were written already.
CutReplay ==
    LET start == Monus(conn.latest, Window) IN
    /\ conn.state = "open" /\ conn.pc = "cut"
    /\ conn' = [conn EXCEPT
                  !.cursor = start, !.pending = {}, !.pc = "tail", !.latest = 0,
                  !.wire = Append(@, Truncated(start)), !.page = Upto(start, Window)]
    /\ UNCHANGED <<log, unheard, client, shown, history, cut, letGo, faults>>

ReplayTail ==
    /\ conn.state = "open" /\ conn.pc = "tail"
    /\ conn' = [EnqueueAll(conn, conn.page) EXCEPT !.pc = "idle", !.page = <<>>]
    /\ UNCHANGED <<log, unheard, client, shown, history, cut, letGo, faults>>

\* truncateForBackpressure after its await: announce the tail and close.
CutAndClose ==
    LET start == Monus(Len(log), Window) IN
    /\ conn.state = "open" /\ conn.over
    /\ conn' = [NoConnection EXCEPT !.state = "ended",
                                    !.wire = Append(conn.wire, Truncated(start))]
    /\ UNCHANGED <<log, unheard, client, shown, history, cut, letGo, faults>>

\* Mutant: writing may go on, and what is buffered stays there.
UnblockOnly ==
    /\ conn.state = "open" /\ conn.blocked /\ Len(conn.wire) < HighWater
    /\ conn' = [conn EXCEPT !.blocked = FALSE]
    /\ UNCHANGED <<log, unheard, client, shown, history, cut, letGo, faults>>

\* The socket's 'drain'.
Unblock ==
    /\ conn.state = "open" /\ conn.blocked /\ Len(conn.wire) < HighWater
    /\ conn' = Drain([conn EXCEPT !.blocked = FALSE])
    /\ UNCHANGED <<log, unheard, client, shown, history, cut, letGo, faults>>

\* The heartbeat's write may find the socket full too.
Ping ==
    /\ conn.state = "open" /\ ~conn.blocked /\ Len(conn.wire) >= HighWater
    /\ conn' = [conn EXCEPT !.blocked = TRUE]
    /\ UNCHANGED <<log, unheard, client, shown, history, cut, letGo, faults>>

-----------------------------------------------------------------------------
(* The client.                                                             *)

\* mergeEventsBySeq: append what follows; otherwise one copy of each, in order.
Merge(xs, ys) ==
    LET ordered(zs) == \A i \in 1..(Len(zs) - 1) : zs[i] < zs[i + 1] IN
    IF /\ ordered(xs) /\ ordered(ys)
       /\ xs = <<>> \/ ys = <<>> \/ xs[Len(xs)] < ys[1]
    THEN xs \o ys
    ELSE Ascending(ToSet(xs) \cup ToSet(ys))

\* The newest events that fit the window.
Newest(xs, size) == SubSeq(xs, Monus(Len(xs), size) + 1, Len(xs))

Show(xs, kept) ==
    LET next == Newest(xs, ClientWindow + kept) IN
    /\ shown' = next
    /\ letGo' = letGo \cup (ToSet(xs) \ ToSet(next))

\* A frame arrives: the end of the stream's loop body.
Receive ==
    LET frame == Head(conn.wire) IN
    /\ client.state = "connected" /\ conn.wire # <<>>
    /\ conn' = [conn EXCEPT !.wire = Tail(@)]
    /\ client' = [client EXCEPT !.maxSeq = Greatest(@, frame.seq)]
    /\ \/ /\ frame.kind = "event"
          /\ Show(Merge(shown, <<frame.seq>>), retain)
          /\ UNCHANGED cut
       \/ /\ frame.kind = "truncated"
          /\ cut' = Greatest(cut, frame.seq)
          /\ UNCHANGED <<shown, letGo>>
    /\ UNCHANGED <<log, unheard, history, faults>>

\* The server closed the stream and all of it was read: reconnect.
EndOfStream ==
    /\ client.state = "connected" /\ conn.state = "ended" /\ conn.wire = <<>>
    /\ client' = [client EXCEPT !.state = "waiting"]
    /\ conn' = NoConnection
    /\ UNCHANGED <<log, unheard, shown, history, cut, letGo, faults>>

\* The connection breaks, what is on the wire is lost; or the server's process
\* dies, and what it has not published it never will.
Break(crash) ==
    /\ faults < MaxFaults
    /\ faults' = faults + 1
    /\ client.state = "connected"
    /\ client' = [client EXCEPT !.state = "waiting"]
    /\ conn' = NoConnection
    /\ unheard' = IF crash THEN {} ELSE unheard
    /\ UNCHANGED <<log, shown, history, cut, letGo>>

\* The page is closed, and what it held is gone.  (A status that never recovers
\* also stops the client; it means that the session or the token is gone.)
Leave ==
    /\ client.state # "left"
    /\ client' = [state |-> "left", maxSeq |-> 0]
    /\ conn' = NoConnection
    /\ shown' = <<>> /\ retain' = 0 /\ earlier' = 0 /\ asked' = {}
    /\ cut' = 0 /\ letGo' = {}
    /\ UNCHANGED <<log, unheard, faults>>

\* The effect runs again (another token): everything starts over, and answers
\* to the old subscription's requests are not its own any more.
Resubscribe ==
    /\ faults < MaxFaults
    /\ faults' = faults + 1
    /\ client.state # "left"
    /\ client' = [state |-> "waiting", maxSeq |-> 0]
    /\ conn' = NoConnection
    /\ shown' = <<>>
    /\ retain' = 0
    /\ earlier' = 0
    /\ asked' = {[q EXCEPT !.mine = FALSE] : q \in asked}
    /\ cut' = 0
    /\ letGo' = {}
    /\ UNCHANGED <<log, unheard>>

-----------------------------------------------------------------------------
(* Earlier history.                                                        *)

\* readEventsBackward: scans of raw rows below `before` until a page of visible
\* events is full, the log ends or the scans are used up.  next = 0: no older.
Backward(before) ==
    LET lowest(k) == Greatest(1, Monus(before, k * EarlierPage))
        found(k) == Visible(lowest(k)..(before - 1))
        full(k) == Cardinality(found(k)) >= EarlierPage
        scans == Min({k \in 1..MaxScans : full(k) \/ lowest(k) = 1 \/ k = MaxScans})
        events == Newest(Ascending(found(scans)), EarlierPage)
    IN [events |-> events,
        next |-> IF ~full(scans) /\ lowest(scans) = 1 THEN 0
                 ELSE IF events # <<>> THEN events[1] ELSE lowest(scans)]

\* loadEarlier up to its request, below the saved cursor or the oldest event.
AskEarlier ==
    LET oldest == IF shown = <<>> THEN 0 ELSE shown[1]
        before == IF earlier # 0 THEN earlier ELSE oldest
    IN /\ client.state # "left"
       /\ retain < MaxEarlier
       /\ ~ \E q \in asked : q.mine
       /\ before > 1
       /\ asked' = asked \cup {[before |-> before, mine |-> TRUE]}
       /\ UNCHANGED <<log, unheard, conn, client, shown, retain, earlier, cut, letGo,
                      faults>>

\* The answer, if it is still this subscription's: merge it in front and keep
\* that many events more.
AnswerEarlier(q) ==
    LET answer == Backward(q.before)
        merged == Merge(answer.events, shown)
        older == shown # <<>> /\ merged[1] < shown[1]
    IN /\ q \in asked /\ q.mine
       /\ asked' = asked \ {q}
       /\ earlier' = answer.next
       /\ \/ /\ answer.events = <<>>
             /\ UNCHANGED <<shown, letGo, retain>>
          \/ /\ answer.events # <<>>
             /\ retain' = IF older THEN Least(MaxEarlier, retain + Len(answer.events))
                          ELSE retain
             /\ Show(merged, retain')
       /\ UNCHANGED <<log, unheard, conn, client, cut, faults>>

\* The request fails, or it was an older subscription's: nothing changes.
DropEarlier(q) ==
    /\ q \in asked
    /\ asked' = asked \ {q}
    /\ UNCHANGED <<log, unheard, conn, client, shown, retain, earlier, cut, letGo,
                   faults>>

-----------------------------------------------------------------------------
Next ==
    \/ \E visible, here \in BOOLEAN : AppendEvent(visible, here)
    \/ \E s \in unheard : Publish(s)
    \/ Connect \/ ReadPage \/ ReplayPage \/ CutReplay \/ ReplayTail
    \/ CutAndClose \/ Unblock \/ Ping
    \/ Receive \/ EndOfStream \/ Leave \/ Resubscribe
    \/ \E crash \in BOOLEAN : Break(crash)
    \/ AskEarlier
    \/ \E q \in asked : AnswerEarlier(q) \/ DropEarlier(q)

Spec == Init /\ [][Next]_vars

\* The server's catch-up and the client's loop, each a sequential program.
CatchUpStep == ReadPage \/ ReplayPage \/ CutReplay \/ ReplayTail
ClientStep == Connect \/ Receive \/ EndOfStream

\* The timers of the server and the client's loop go on; the client reads.
\* Nothing is assumed of publishing, of breaks or of the user.
Fairness ==
    /\ WF_vars(CatchUpStep) /\ WF_vars(CutAndClose) /\ WF_vars(Unblock)
    /\ WF_vars(ClientStep)

FairSpec == Spec /\ Fairness
-----------------------------------------------------------------------------
(* Properties.                                                             *)

\* Types: the connection's cursor never passes the log, what is buffered is
\* ahead of the cursor and within the cap, frames carry rows of the log.
TypeOK ==
    /\ log \in BoundedSeq(BOOLEAN, MaxSeq)
    /\ unheard \subseteq DOMAIN log
    /\ conn.state \in {"none", "open", "ended"}
    /\ conn.pc \in {"idle", "page", "cut", "tail"}
    /\ conn.cursor \in 0..Len(log)
    /\ conn.pending \subseteq (conn.cursor + 1)..Len(log)
    /\ Cardinality(conn.pending) <= MaxPending
    /\ ToSet(conn.page) \subseteq DOMAIN log
    /\ conn.counted \in 0..Budget /\ conn.bytes \in 0..BudgetBytes
    /\ \A i \in DOMAIN conn.wire :
          \/ conn.wire[i].kind = "event" /\ conn.wire[i].seq \in Visible(DOMAIN log)
          \/ conn.wire[i].kind = "truncated" /\ conn.wire[i].seq \in 0..Len(log)
    /\ client.state \in {"waiting", "connected", "left"}
    /\ client.maxSeq \in 0..Len(log)
    /\ ToSet(shown) \subseteq Visible(DOMAIN log)
    /\ retain \in 0..MaxEarlier
    /\ Len(shown) <= ClientWindow + retain
    /\ earlier \in 0..Len(log)

\* Whatever the bus, the polling, truncations, reconnections, new subscriptions
\* and pages of older history do to each other, the page shows events in the
\* order of the log, each once, and between two of them it misses only what the
\* server announced as truncated or what its own window has let go.  (The
\* stream's promise of "no loss and no duplication", sse.ts and session-stream.ts.)
NothingSkipped ==
    /\ \A i \in 1..(Len(shown) - 1) : shown[i] < shown[i + 1]
    /\ shown # <<>> =>
         \A s \in Visible(shown[1]..shown[Len(shown)]) :
           s \in ToSet(shown) \/ s <= cut \/ s \in letGo

\* A page that stays ends up showing every visible event of the log's tail,
\* whichever process appended it and whether or not it was published: nothing
\* stays behind in a buffer or below a cursor.
CatchesUp ==
    <>[](\/ client.state = "left"
         \/ Visible((Monus(Len(log), Window) + 1)..Len(log)) \subseteq ToSet(shown))
=============================================================================
