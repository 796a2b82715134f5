----------------------------- MODULE EventStream -----------------------------
(* From an engine call to the journal and to the native streams.             *)
(*                                                                           *)
(* Engine.PlaceLimit, ExecuteIOC and CancelOrder write their intent to the   *)
(* write-ahead log (pkg/wal) and then call the book, whose first hook        *)
(* (cmd/exchange/main.go) runs under the instrument's lock: it appends the   *)
(* event to the same log and offers it to a channel that drops when full.    *)
(* The gRPC server's goroutine takes events from the channel and offers each *)
(* to the channel of every open stream, which drops when full as well.       *)
(* A stream also carries its client's commands, and the answer to one brings *)
(* the events of the command a second time, beside what the channel brings.  *)
(* HTTP and WebSocket sessions command and are answered without subscribing. *)
(*                                                                           *)
(* What the book does with an order is left to OrderBook.tla: a command      *)
(* brings about some number of events of its instrument, which are numbered. *)
(* Left out: the trigger of an order without volume, which the log has and   *)
(* which no stream is told of, and snapshots, acknowledgements and errors.   *)
EXTENDS Integers, Sequences, FiniteSets

CONSTANTS
    Sockets,      \* the native API's connections
    Streaming,      \* those of them that are gRPC streams
    Instruments,
    Bursts,         \* how many events a command may bring about
    FlushEvery,     \* 32
    EventCap,       \* capacity of the event channel (1024)
    UpdateCap,      \* capacity of a stream's channel (64)
    MaxCommands,    \* bound on commands
    MaxRuns,        \* bound on restarts
    DiskFails       \* may a flush fail?

ASSUME StreamAssumption ==
    /\ Streaming \subseteq Sockets
    /\ Bursts \subseteq Nat /\ FlushEvery \in Nat \ {0} /\ DiskFails \in BOOLEAN
    /\ {EventCap, UpdateCap, MaxCommands, MaxRuns} \subseteq Nat

VARIABLES
    status,     \* of the process: "up", "down" or "panic"
    runs,       \* how often it was started
    journal,    \* wal: [file, buffer, pending, broken]
    fired,      \* how many events each instrument fired since the start
    locked,     \* which session's call holds each instrument's lock, or Free
    channel,    \* the event channel
    fan,        \* consumeEvents: the event it hands out, the streams still to visit, and
                \* the one whose channel it has just loaded
    handler,    \* each session's goroutine and its locals
    watchers,   \* Server.watchers: the streams in the map
    shut,       \* the streams whose channel was closed
    updates,    \* each stream's channel
    wire,       \* what each gRPC stream was sent of the book's events, in order
    commands    \* how many commands were sent

streamVars == <<status, runs, journal, fired, locked, channel, fan, handler,
                watchers, shut, updates, wire, commands>>

Free == "free"
NoEvent == [inst |-> "none"]
NoStream == "nobody"
NotHanding == [event |-> NoEvent, todo |-> {}, to |-> NoStream]
Resting == [at |-> "off"]
NewProcess ==
    /\ locked' = [i \in Instruments |-> Free]
    /\ channel' = <<>> /\ fan' = NotHanding
    /\ handler' = [s \in Sockets |-> Resting]
    /\ watchers' = {} /\ shut' = {}
    /\ updates' = [s \in Sockets |-> <<>>] /\ wire' = [s \in Sockets |-> <<>>]

StreamInit ==
    /\ status = "up" /\ runs = 1
    /\ journal = [file |-> <<>>, buffer |-> <<>>, pending |-> 0, broken |-> FALSE]
    /\ fired = [i \in Instruments |-> 0]
    /\ locked = [i \in Instruments |-> Free]
    /\ channel = <<>> /\ fan = NotHanding
    /\ handler = [s \in Sockets |-> Resting]
    /\ watchers = {} /\ shut = {}
    /\ updates = [s \in Sockets |-> <<>>] /\ wire = [s \in Sockets |-> <<>>]
    /\ commands = 0

-----------------------------------------------------------------------------
(* The write-ahead log. *)

\* Append: after FlushEvery entries the buffer is flushed.  A bufio.Writer
\* whose flush failed refuses everything from then on; nobody stops for that.
\* Mutant: the buffer is emptied without a flush.
AppendLosing(entry) ==
    LET b == Append(journal.buffer, entry) IN
    IF journal.broken THEN journal' = journal
    ELSE IF journal.pending + 1 < FlushEvery
    THEN journal' = [journal EXCEPT !.buffer = b, !.pending = @ + 1]
    ELSE journal' = [journal EXCEPT !.file = Append(@, entry), !.buffer = <<>>, !.pending = 0]

Log(entry) ==
    LET b == Append(journal.buffer, entry) IN
    IF journal.broken THEN journal' = journal
    ELSE IF journal.pending + 1 < FlushEvery
    THEN journal' = [journal EXCEPT !.buffer = b, !.pending = @ + 1]
    ELSE \/ journal' = [journal EXCEPT !.file = @ \o b, !.buffer = <<>>, !.pending = 0]
         \/ DiskFails /\ journal' = [journal EXCEPT !.buffer = b, !.pending = @ + 1, !.broken = TRUE]

-----------------------------------------------------------------------------
(* Sessions and their commands. *)

Is(s, at) == status = "up" /\ handler[s].at = at
Now(s, fields) == handler' = [handler EXCEPT ![s] = fields]

Connect(s) ==
    /\ Is(s, "off")
    /\ Now(s, [at |-> "serving"])
    /\ watchers' = IF s \in Streaming THEN watchers \cup {s} ELSE watchers
    /\ UNCHANGED <<status, runs, journal, fired, locked, channel, fan, shut, updates, wire, commands>>

\* A command that passed the token and the margin check: first the intent.
Command(s, inst, burst) ==
    /\ Is(s, "serving") /\ commands < MaxCommands
    /\ commands' = commands + 1
    /\ Log([kind |-> "intent", inst |-> inst, by |-> commands + 1, run |-> runs])
    /\ Now(s, [at |-> "intended", inst |-> inst, id |-> commands + 1, left |-> burst, own |-> <<>>])
    /\ UNCHANGED <<status, runs, fired, locked, channel, fan, watchers, shut, updates, wire>>

EnterBook(s) ==
    /\ Is(s, "intended") /\ locked[handler[s].inst] = Free
    /\ locked' = [locked EXCEPT ![handler[s].inst] = s]
    /\ Now(s, [handler[s] EXCEPT !.at = "matching"])
    /\ UNCHANGED <<status, runs, journal, fired, channel, fan, watchers, shut, updates, wire, commands>>

\* The hook: journal first, then the channel, without waiting.
Offer(queue, cap, x) == IF Len(queue) < cap THEN Append(queue, x) ELSE queue

Fire(s) ==
    /\ Is(s, "matching") /\ handler[s].left > 0
    /\ LET inst == handler[s].inst
           event == [kind |-> "event", inst |-> inst, n |-> fired[inst] + 1, by |-> handler[s].id, run |-> runs]
       IN /\ fired' = [fired EXCEPT ![inst] = @ + 1]
          /\ Log(event)
          /\ channel' = Offer(channel, EventCap, event)
          /\ Now(s, [handler[s] EXCEPT !.left = @ - 1, !.own = Append(@, event)])
    /\ UNCHANGED <<status, runs, locked, fan, watchers, shut, updates, wire, commands>>

\* The handler of a stream's command sends what it has yet to tell of it.
Answering(s, own) ==
    Now(s, IF s \in Streaming /\ own # <<>> THEN [at |-> "replying", own |-> own] ELSE [at |-> "serving"])

\* The book returns what it did, and the lock is released.
BookReplies(s) ==
    /\ Is(s, "matching") /\ handler[s].left = 0
    /\ locked' = [locked EXCEPT ![handler[s].inst] = Free]
    /\ Answering(s, handler[s].own)
    /\ UNCHANGED <<status, runs, journal, fired, channel, fan, watchers, shut, updates, wire, commands>>

\* Each trade of the command, or the cancel, is sent as the update which the
\* hook's event makes too; only then is the stream's channel read again.
Reply(s) ==
    /\ Is(s, "replying")
    /\ wire' = [wire EXCEPT ![s] = Append(@, [Head(handler[s].own) EXCEPT !.kind = "reply"])]
    /\ Answering(s, Tail(handler[s].own))
    /\ UNCHANGED <<status, runs, journal, fired, locked, channel, fan, watchers, shut, updates, commands>>

\* StreamOrders writes what waits in the stream's channel.
Forward(s) ==
    /\ Is(s, "serving") /\ updates[s] # <<>>
    /\ wire' = [wire EXCEPT ![s] = Append(@, Head(updates[s]))]
    /\ updates' = [updates EXCEPT ![s] = Tail(@)]
    /\ UNCHANGED <<status, runs, journal, fired, locked, channel, fan, handler, watchers, shut, commands>>

\* The client is gone, which a write may be the first to find.  unsubscribe
\* closes the channel and then takes the stream out of the map.
StreamLeaves(s) ==
    /\ Is(s, "serving") \/ Is(s, "replying")
    /\ Now(s, [at |-> IF s \in Streaming THEN "closed" ELSE "gone"])
    /\ shut' = IF s \in Streaming THEN shut \cup {s} ELSE shut
    /\ UNCHANGED <<status, runs, journal, fired, locked, channel, fan, watchers, updates, wire, commands>>

Forget(s) ==
    /\ Is(s, "closed")
    /\ watchers' = watchers \ {s}
    /\ Now(s, [at |-> "gone"])
    /\ UNCHANGED <<status, runs, journal, fired, locked, channel, fan, shut, updates, wire, commands>>

-----------------------------------------------------------------------------
(* consumeEvents *)

\* Mutant: each event is handed out by a goroutine of its own.
PickAny == DOMAIN channel

Pick == {1} \cap DOMAIN channel

TakeEvent ==
    /\ status = "up" /\ fan.event = NoEvent
    /\ \E p \in Pick :
         /\ fan' = [event |-> channel[p], todo |-> watchers, to |-> NoStream]
         /\ channel' = SubSeq(channel, 1, p - 1) \o SubSeq(channel, p + 1, Len(channel))
    /\ UNCHANGED <<status, runs, journal, fired, locked, handler, watchers, shut, updates, wire, commands>>

\* One turn of sync.Map.Range: a stream that was deleted since is passed over.
ReachStream(s) ==
    /\ status = "up" /\ fan.to = NoStream /\ s \in fan.todo
    /\ fan' = [fan EXCEPT !.todo = @ \ {s}, !.to = IF s \in watchers THEN s ELSE NoStream]
    /\ UNCHANGED <<status, runs, journal, fired, locked, channel, handler, watchers, shut, updates, wire, commands>>

\* The send to the loaded channel panics if the channel was closed meanwhile,
\* select or not, and a panic ends the process.
HandOver ==
    /\ status = "up" /\ fan.to # NoStream
    /\ fan' = [fan EXCEPT !.to = NoStream]
    /\ IF fan.to \in shut
       THEN status' = "panic" /\ UNCHANGED updates
       ELSE updates' = [updates EXCEPT ![fan.to] = Offer(@, UpdateCap, fan.event)] /\ UNCHANGED status
    /\ UNCHANGED <<runs, journal, fired, locked, channel, handler, watchers, shut, wire, commands>>

HandedOut ==
    /\ status = "up" /\ fan.event # NoEvent /\ fan.todo = {} /\ fan.to = NoStream
    /\ fan' = NotHanding
    /\ UNCHANGED <<status, runs, journal, fired, locked, channel, handler, watchers, shut, updates, wire, commands>>

-----------------------------------------------------------------------------
\* The process ends: a crash loses what was not flushed, Close flushes it.
Stop(closed) ==
    /\ status = "up" /\ runs < MaxRuns
    /\ status' = "down"
    /\ journal' = IF closed /\ ~ journal.broken
                  THEN [journal EXCEPT !.file = @ \o journal.buffer, !.buffer = <<>>] ELSE journal
    /\ UNCHANGED <<runs, fired, locked, channel, fan, handler, watchers, shut, updates, wire, commands>>

Restart ==
    /\ status # "up" /\ runs < MaxRuns
    /\ status' = "up" /\ runs' = runs + 1
    /\ journal' = [journal EXCEPT !.buffer = <<>>, !.pending = 0, !.broken = FALSE]
    /\ fired' = [i \in Instruments |-> 0]
    /\ NewProcess
    /\ UNCHANGED commands

StreamNext ==
    \/ \E s \in Sockets :
         \/ Connect(s) \/ EnterBook(s) \/ Fire(s) \/ BookReplies(s) \/ Reply(s) \/ Forward(s)
         \/ StreamLeaves(s) \/ Forget(s) \/ ReachStream(s)
         \/ \E inst \in Instruments, burst \in Bursts : Command(s, inst, burst)
    \/ TakeEvent \/ HandOver \/ HandedOut \/ Restart
    \/ \E closed \in BOOLEAN : Stop(closed)

StreamSpec == StreamInit /\ [][StreamNext]_streamVars
-----------------------------------------------------------------------------
(* Properties. *)

Journalled == journal.file \o journal.buffer

\* The journal tells each instrument's events in the book's order and without
\* a gap, and what was asked before what came of it; while the disk works it
\* has all of them, and a crash costs less than a flush interval.
JournalFollowsBook ==
    /\ \A q \in DOMAIN Journalled : LET e == Journalled[q] IN e.kind = "event" =>
         /\ \E p \in 1..(q - 1) : Journalled[p].kind = "intent" /\ Journalled[p].by = e.by
         /\ e.n > 1 => \E p \in 1..(q - 1) : LET d == Journalled[p] IN
              d.kind = "event" /\ d.inst = e.inst /\ d.run = e.run /\ d.n = e.n - 1
    /\ (status = "up" /\ ~ journal.broken) =>
         /\ Len(journal.buffer) < FlushEvery
         /\ \A i \in Instruments : \A n \in 1..fired[i] : \E p \in DOMAIN Journalled : LET e == Journalled[p] IN
              e.kind = "event" /\ e.inst = i /\ e.run = runs /\ e.n = n

\* A stream may miss events, but of one instrument it is never told of one
\* after a later one or a second time, except in one direction: the answer to
\* its own command tells of that command's events ahead of all that waits in
\* channel and updates, the same events among it.  So a client may hear of what
\* it did first from the answer, then of what happened before, then of its own
\* again, but what is forwarded is in order, answers are in order, and no answer
\* follows what is later or the same.
StreamsInOrder ==
    \A s \in Streaming : LET told == wire[s] \o updates[s] IN
        \A p, q \in DOMAIN told : (p < q /\ told[p].inst = told[q].inst) =>
            told[p].n < told[q].n \/ (told[p].kind = "reply" /\ told[q].kind = "event")

=============================================================================
