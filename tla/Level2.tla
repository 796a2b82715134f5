-------------------------------- MODULE Level2 --------------------------------
(* The level2 channel of the Coinbase edge: a client subscribes, gets the    *)
(* baseline as its snapshot, and then the changes of each tick.              *)
(*                                                                           *)
(* The lock of the differ is held from the diff to the end of the broadcast, *)
(* and from the snapshot frame to the registration: each is one step.  The   *)
(* book is read before, outside that lock.  Sequence numbers, acks and the   *)
(* other channels of the connection are left out.                            *)
EXTENDS DepthFeed

VARIABLES
    followers, \* Broadcaster.market of the channel
    reading,   \* the book a subscribing read pump has read; NoBook: none does
    cut        \* history: a snapshot frame of this connection was refused

l2Vars == <<followers, reading, cut>>
level2Vars == <<feedVars, l2Vars>>

L2Snapshot(book) == [kind |-> "snapshot", levels |-> book]
L2Update(diff) == [kind |-> "update", levels |-> diff]

L2Init ==
    /\ FeedInit
    /\ followers = {} /\ cut = {}
    /\ reading = [c \in Viewers |-> NoBook]

L2BookMoves(l, size) ==
    /\ LevelChanges(l, size)
    /\ UNCHANGED <<followers, reading, cut>>

\* The ticker finds a subscriber and reads the book.
L2Tick == followers # {} /\ TakeSnapshot /\ UNCHANGED l2Vars

\* broadcastLevel2 under the lock; nothing is sent when nothing changed.
Push ==
    /\ snap # NoBook
    /\ LET diff == Diff(Seeded(snap), snap)
       IN  IF diff = <<>> THEN UNCHANGED <<out, closed>>
           ELSE SendAll(followers, L2Update(diff))
    /\ baseline' = snap
    /\ snap' = NoBook
    /\ UNCHANGED <<levels, changes, view, l2Vars>>

\* The read pump gets a subscribe message and reads the book.
Subscribe(c) ==
    /\ ~closed[c] /\ reading[c] = NoBook
    /\ reading' = [reading EXCEPT ![c] = levels]
    /\ UNCHANGED <<feedVars, followers, cut>>

\* Mutant: the snapshot is the book just read, not the baseline.
FirstBookLive(c) == reading[c]

\* What snapshotUpdatesLocked returns.
FirstBook(c) == Seeded(reading[c])

\* subscribeLevel2 under the lock: a refused snapshot frame is not noticed.
Enlist(c) ==
    /\ reading[c] # NoBook
    /\ baseline' = Seeded(reading[c])
    /\ out' = [out EXCEPT ![c] = Queued(c, L2Snapshot(FirstBook(c)))]
    /\ followers' = followers \cup {c}
    /\ cut' = IF Fits(c) THEN cut ELSE cut \cup {c}
    /\ reading' = [reading EXCEPT ![c] = NoBook]
    /\ UNCHANGED <<levels, changes, snap, closed, view>>

\* An unsubscribe message; the client forgets its book.
Unsubscribe(c) ==
    /\ ~closed[c] /\ reading[c] = NoBook
    /\ followers' = followers \ {c}
    /\ view' = [view EXCEPT ![c] = NoBook]
    /\ UNCHANGED <<levels, changes, baseline, snap, out, closed, reading, cut>>

\* The book of a client that holds book and gets frame.
L2Received(book, frame) ==
    CASE frame.kind = "snapshot" -> frame.levels
      [] frame.kind = "update" /\ book # NoBook -> Applied(frame.levels, book)
      [] OTHER -> book

\* The write pump sends the next frame.
L2Write(c) ==
    /\ out[c] # <<>>
    /\ view' = [view EXCEPT ![c] = L2Received(@, Head(out[c]))]
    /\ out' = [out EXCEPT ![c] = Tail(@)]
    /\ UNCHANGED <<levels, changes, baseline, snap, closed, l2Vars>>

L2Leave(c) == Hangup(c) /\ UNCHANGED l2Vars

L2Return(c) ==
    /\ reading[c] = NoBook
    /\ Redial(c)
    /\ followers' = followers \ {c} /\ cut' = cut \ {c}
    /\ UNCHANGED <<reading>>

L2Next ==
    \/ \E l \in Levels, size \in 0..MaxSize : L2BookMoves(l, size)
    \/ L2Tick \/ Push
    \/ \E c \in Viewers :
          \/ Subscribe(c) \/ Enlist(c) \/ Unsubscribe(c)
          \/ L2Write(c) \/ L2Leave(c) \/ L2Return(c)

L2Spec == L2Init /\ [][L2Next]_level2Vars

-----------------------------------------------------------------------------
L2Served(c) == c \in followers /\ ~closed[c] /\ c \notin cut

\* The levels a frame tells of, and the queued frame that tells of one last.
Covered(frame) == IF frame.kind = "snapshot" THEN Levels ELSE DOMAIN frame.levels
LastWord(c, l) == LastOf({i \in DOMAIN out[c] : l \in Covered(out[c][i])})

(* "a subscriber never MISSES a change" (level2diff.go:20): with the frames  *)
(* still queued for it, a subscriber has exactly the baseline, whatever tick *)
(* its subscription met.                                                     *)
NoChangeMissed ==
    \A c \in Viewers : L2Served(c) =>
        /\ view[c] # NoBook \/ \E i \in DOMAIN out[c] : out[c][i].kind = "snapshot"
        /\ \A l \in Levels :
              LET i == LastWord(c, l)
              IN  (IF i = 0 THEN view[c] ELSE out[c][i].levels)[l] = baseline[l]
=============================================================================
