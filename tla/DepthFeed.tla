------------------------------- MODULE DepthFeed -------------------------------
(* What the depth channels of the two venues share: a book that moves under  *)
(* them, the book last broadcast (the baseline), a ticker that pushes the    *)
(* difference, and connections with a bounded queue and a write pump.        *)
(*                                                                           *)
(* A book is the quantity at each level, 0 where there is none.  A frame is  *)
(* queued or refused in one step, and a broadcast is one step: queues of     *)
(* different connections do not depend on each other.                        *)
EXTENDS Naturals, Sequences, SequencesExt

CONSTANTS
    Viewers,      \* connections
    Levels,       \* a level is a side and a price
    MaxSize,      \* bound: quantities
    MaxChanges,   \* bound: how often the book moves
    SendBuffer,   \* sendBuffer, 256 in the code
    Start,        \* the book before anybody looks
    NoBook

ASSUME FeedAssumption ==
    /\ {MaxSize, MaxChanges, SendBuffer} \subseteq Nat
    /\ Start \in [Levels -> 0..MaxSize]
    /\ NoBook \notin [Levels -> 0..MaxSize]

VARIABLES
    levels,    \* the engine's book
    changes,   \* counts its moves
    baseline,  \* the book last broadcast; NoBook before the first sighting
    snap,      \* the snapshot the ticker works on; NoBook between two ticks
    out,       \* wsConn.out
    closed,    \* wsConn.closed
    view       \* the book each client has; NoBook when it has none

feedVars == <<levels, changes, baseline, snap, out, closed, view>>

FeedInit ==
    /\ levels = Start /\ changes = 0
    /\ baseline = NoBook /\ snap = NoBook
    /\ out = [c \in Viewers |-> <<>>]
    /\ closed = [c \in Viewers |-> FALSE]
    /\ view = [c \in Viewers |-> NoBook]

\* Orders come and go: a level gets another quantity.
LevelChanges(l, size) ==
    /\ changes < MaxChanges /\ size # levels[l]
    /\ changes' = changes + 1
    /\ levels' = [levels EXCEPT ![l] = size]
    /\ UNCHANGED <<baseline, snap, out, closed, view>>

\* The levels that changed, with their new quantities, 0 for one that is gone.
Diff(old, new) == [l \in {k \in Levels : old[k] # new[k]} |-> new[l]]

\* Quantities are absolute: a level of the diff replaces the book's.
Applied(diff, book) ==
    [l \in Levels |-> IF l \in DOMAIN diff THEN diff[l] ELSE book[l]]

\* The baseline a snapshot is held against: itself, on the first sighting.
Seeded(book) == IF baseline = NoBook THEN book ELSE baseline

\* trySend succeeds.
Fits(c) == ~closed[c] /\ Len(out[c]) < SendBuffer

Queued(c, frame) == IF Fits(c) THEN Append(out[c], frame) ELSE out[c]

\* Mutant: a subscriber whose queue is full misses the frame and stays.
ClosesNobody(cs, c) == closed[c]

\* dropAll: a subscriber whose queue is full is closed.
Closes(cs, c) == closed[c] \/ (c \in cs /\ ~Fits(c))

SendAll(cs, frame) ==
    /\ out' = [c \in Viewers |-> IF c \in cs THEN Queued(c, frame) ELSE out[c]]
    /\ closed' = [c \in Viewers |-> Closes(cs, c)]

\* The last of some places in a queue, 0 when there are none.
LastOf(places) == Max({0} \cup places)

\* Engine.Snapshot, by the ticker.
TakeSnapshot ==
    /\ snap = NoBook
    /\ snap' = levels
    /\ UNCHANGED <<levels, changes, baseline, out, closed, view>>

\* The peer goes away, a write fails or a pong is missing.
Hangup(c) ==
    /\ ~closed[c]
    /\ closed' = [closed EXCEPT ![c] = TRUE]
    /\ UNCHANGED <<levels, changes, baseline, snap, out, view>>

\* Both pumps have seen it closed; the client may dial again.
Redial(c) ==
    /\ closed[c]
    /\ closed' = [closed EXCEPT ![c] = FALSE]
    /\ out' = [out EXCEPT ![c] = <<>>]
    /\ view' = [view EXCEPT ![c] = NoBook]
    /\ UNCHANGED <<levels, changes, baseline, snap>>
=============================================================================
