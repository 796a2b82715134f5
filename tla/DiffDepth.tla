------------------------------ MODULE DiffDepth -------------------------------
(* The diff-depth stream of the Binance edge, and a client that follows the  *)
(* documented protocol: open <symbol>@depth, keep its events, ask REST for a *)
(* snapshot, drop the events up to the snapshot's id, and apply the rest.    *)
(*                                                                           *)
(* A stream has several names ("@depth", "@depth@100ms", any letter case),   *)
(* which all share the symbol's one baseline and update id.  A connection    *)
(* watches one of them.  Ids are counted from 0, for the clock reading the   *)
(* code starts from.                                                         *)
EXTENDS DepthFeed

CONSTANT Streams

VARIABLES
    lastID,  \* symbolDepth.lastID
    subs,    \* Broadcaster.market: the subscribers of each name
    todo,    \* the names this tick has still to visit
    name,    \* the name it is at
    event,   \* the event it has still to fan out; <<>> when there is none
    at,      \* the id in the response to each client's depth request
    kept,    \* the events each client keeps until it has the response
    last,    \* history: the id of the last event each client got, 0 for none
    since,   \* history: the levels diffs named since its request read the id
    split    \* history: two names have been in use at once

diffVars == <<lastID, subs, todo, name, event, at, kept, last, since, split>>
diffDepthVars == <<feedVars, diffVars>>

NoID == MaxChanges + 2
Event(id, diff) == [id |-> id, levels |-> diff]

Subscribers == UNION {subs[s] : s \in Streams}

DiffInit ==
    /\ FeedInit
    /\ lastID = 0
    /\ subs = [s \in Streams |-> {}]
    /\ todo = {} /\ name \in Streams /\ event = <<>>
    /\ at = [c \in Viewers |-> NoID]
    /\ kept = [c \in Viewers |-> <<>>]
    /\ last = [c \in Viewers |-> 0]
    /\ since = [c \in Viewers |-> {}]
    /\ split = FALSE

DiffBookMoves(l, size) == LevelChanges(l, size) /\ UNCHANGED diffVars

-----------------------------------------------------------------------------
(* The ticker *)

TickBusy(s) == name = s /\ (snap # NoBook \/ event # <<>>)
TickDone == todo = {} /\ snap = NoBook /\ event = <<>>

\* pushDepthTick lists the names that have subscribers.
DiffTick ==
    /\ TickDone
    /\ todo' = {s \in Streams : subs[s] # {}}
    /\ UNCHANGED <<feedVars, lastID, subs, name, event, at, kept, last, since, split>>

\* The subscribers of a listed name have left.
Skip(s) ==
    /\ snap = NoBook /\ event = <<>>
    /\ s \in todo /\ subs[s] = {}
    /\ todo' = todo \ {s}
    /\ UNCHANGED <<feedVars, lastID, subs, name, event, at, kept, last, since, split>>

\* broadcastDepthDiff reads the book.
VisitStream(s) ==
    /\ event = <<>>
    /\ s \in todo /\ subs[s] # {}
    /\ TakeSnapshot
    /\ todo' = todo \ {s} /\ name' = s
    /\ UNCHANGED <<lastID, subs, event, at, kept, last, since, split>>

\* Mutant: an id is spent on a quiet tick.
SpentID(diff) == lastID + 1

\* The id advances by one when the book has changed.
NextID(diff) == IF diff = <<>> THEN lastID ELSE lastID + 1

\* depthDiffer.diff, under its lock.
TakeDiff ==
    /\ snap # NoBook
    /\ LET diff == Diff(Seeded(snap), snap)
       IN  /\ lastID' = NextID(diff)
           /\ event' = IF diff = <<>> THEN <<>> ELSE Event(lastID', diff)
           /\ since' = [c \in Viewers |-> since[c] \cup DOMAIN diff]
    /\ baseline' = snap
    /\ snap' = NoBook
    /\ UNCHANGED <<levels, changes, out, closed, view, subs, todo, name, at, kept, last, split>>

\* publishMarketFunc to the subscribers of this one name.
Fanout ==
    /\ event # <<>>
    /\ SendAll(subs[name], event)
    /\ event' = <<>>
    /\ UNCHANGED <<levels, changes, baseline, snap, view>>
    /\ UNCHANGED <<lastID, subs, todo, name, at, kept, last, since, split>>

-----------------------------------------------------------------------------
(* Connections and requests *)

\* upgradeMarket registers the connection.
OpenStream(c, s) ==
    /\ ~closed[c] /\ c \notin Subscribers
    /\ subs' = [subs EXCEPT ![s] = @ \cup {c}]
    /\ split' = (split \/ \E z \in Streams \ {s} : subs[z] # {} \/ TickBusy(z))
    /\ UNCHANGED <<feedVars, lastID, todo, name, event, at, kept, last, since>>

\* Mutant: the id of the next diff, not of the last.
CurrentAhead == lastID + 1

\* depthDiffer.current.
Current == lastID

\* handleDepth reads the id first ...
ReadID(c) ==
    /\ c \in Subscribers /\ at[c] = NoID
    /\ at' = [at EXCEPT ![c] = Current]
    /\ since' = [since EXCEPT ![c] = {}]
    /\ UNCHANGED <<feedVars, lastID, subs, todo, name, event, kept, last, split>>

\* The book a client that holds book has after an event, and after several: of
\* each level what the last event says that names it and is not dropped.
DiffReceived(c, book, e) == IF e.id > at[c] THEN Applied(e.levels, book) ELSE book

LastNamed(c, es, l) == LastOf({i \in DOMAIN es : es[i].id > at[c] /\ l \in DOMAIN es[i].levels})

AllReceived(c, book, es) ==
    [l \in Levels |-> LET i == LastNamed(c, es, l)
                      IN  IF i = 0 THEN book[l] ELSE es[i].levels[l]]

\* ... and then the book; the client applies what it has kept.
ReadBook(c) ==
    /\ at[c] # NoID /\ view[c] = NoBook
    /\ view' = [view EXCEPT ![c] = AllReceived(c, levels, kept[c])]
    /\ kept' = [kept EXCEPT ![c] = <<>>]
    /\ UNCHANGED <<levels, changes, baseline, snap, out, closed>>
    /\ UNCHANGED <<lastID, subs, todo, name, event, at, last, since, split>>

\* The write pump sends the next event.
DiffWrite(c) ==
    /\ out[c] # <<>>
    /\ LET e == Head(out[c])
       IN  /\ last' = [last EXCEPT ![c] = e.id]
           /\ IF view[c] = NoBook
              THEN kept' = [kept EXCEPT ![c] = Append(@, e)] /\ UNCHANGED view
              ELSE view' = [view EXCEPT ![c] = DiffReceived(c, @, e)] /\ UNCHANGED kept
    /\ out' = [out EXCEPT ![c] = Tail(@)]
    /\ UNCHANGED <<levels, changes, baseline, snap, closed>>
    /\ UNCHANGED <<lastID, subs, todo, name, event, at, since, split>>

DiffLeave(c) == c \in Subscribers /\ Hangup(c) /\ UNCHANGED diffVars

\* The connection is removed, and the client starts over.
DiffReturn(c) ==
    /\ Redial(c)
    /\ subs' = [s \in Streams |-> subs[s] \ {c}]
    /\ at' = [at EXCEPT ![c] = NoID]
    /\ kept' = [kept EXCEPT ![c] = <<>>]
    /\ last' = [last EXCEPT ![c] = 0]
    /\ since' = [since EXCEPT ![c] = {}]
    /\ UNCHANGED <<lastID, todo, name, event, split>>

DiffNext ==
    \/ \E l \in Levels, size \in 0..MaxSize : DiffBookMoves(l, size)
    \/ DiffTick \/ TakeDiff \/ Fanout
    \/ \E s \in Streams : Skip(s) \/ VisitStream(s)
    \/ \E c \in Viewers :
          \/ \E s \in Streams : OpenStream(c, s)
          \/ ReadID(c) \/ ReadBook(c) \/ DiffWrite(c) \/ DiffLeave(c) \/ DiffReturn(c)

DiffSpec == DiffInit /\ [][DiffNext]_diffDepthVars

-----------------------------------------------------------------------------
\* Viewers the server still serves, while the stream goes by one name.
Served == {c \in Subscribers : ~closed[c] /\ ~split}

\* The events on their way to a client.
Coming(c) == out[c] \o (IF event # <<>> /\ c \in subs[name] THEN <<event>> ELSE <<>>)

(* "Binance's monotonic U/u update-id semantics" (depthdiff.go:12): the ids  *)
(* a connection is sent follow one another up to the last id, although slow  *)
(* connections are dropped and others come and go.  (Under two names they    *)
(* do not: each diff goes to one of the names.)                              *)
IdsContiguous ==
    \A c \in Served :
        LET ids == (IF last[c] = 0 THEN <<>> ELSE <<last[c]>>)
                     \o [i \in DOMAIN Coming(c) |-> Coming(c)[i].id]
        IN  ids # <<>> =>
              /\ Last(ids) = lastID
              /\ \A i \in 2..Len(ids) : ids[i] = ids[i - 1] + 1

(* "the reverse ordering ... could drop a delta and permanently desync the   *)
(* client" (rest.go:187): of the levels a diff has named since the request   *)
(* read its id, a client has the baseline's quantity once it has received    *)
(* what is coming, wherever the ticker was between id and book.              *)
DeltasKept ==
    \A c \in Served : view[c] # NoBook =>
        \A l \in since[c] : AllReceived(c, view[c], Coming(c))[l] = baseline[l]

=============================================================================
