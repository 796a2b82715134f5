------------------------------ MODULE MarketFeed ------------------------------
(***************************************************************************)
(* From a venue's websocket to the emulator's reference book:              *)
(*                                                                         *)
(*   venue -> wire -> adapter -> channel -> dispatcher -> inbox -> worker  *)
(*                                                                         *)
(* The adapter (internal/feed) reads frames and blocks while its channel   *)
(* is full; it reconnects after an error.  The dispatcher                  *)
(* (cmd/exchange/emulator.go) moves every price by the shift in force and  *)
(* drops an event whose instrument's inbox is full.  The worker waits out  *)
(* the feed-to-book latency with the event in hand and applies it.  A      *)
(* scenario changes the shift at any time.                                 *)
(*                                                                         *)
(* link.diffs holds of Coinbase's level2 (a snapshot per connection, then  *)
(* diffs, with a connection-wide sequence number) and not of Binance's     *)
(* depth20 (every frame is a snapshot).  A level of the reference book is  *)
(* a venue level under a shift: two shifts never give one price here.      *)
(***************************************************************************)
EXTENDS ReferenceBook, Sequences

CONSTANTS Keys, Quantities, Shifts, NoShift, NoFrame,
          Protocols,                             \* values of link.diffs
          ChannelCap, InboxCap,                  \* sizes of the two channels
          MaxChanges, MaxGaps, MaxDrops, MaxShifts \* bounds on the environment

ASSUME FeedAssumption ==
    /\ NoShift \in Shifts /\ Protocols \subseteq BOOLEAN
    /\ 0 \in Quantities /\ Quantities \subseteq Nat
    /\ ChannelCap \in Nat \ {0} /\ InboxCap \in Nat \ {0}
    /\ {MaxChanges, MaxGaps, MaxDrops, MaxShifts} \subseteq Nat

VARIABLES venue,    \* the venue's books so far, the last one the current
          link,     \* [diffs, up, sent, read]: the connection, its sequence numbers
          wire,     \* frames sent and not yet read
          channel,  \* frames of the adapter
          inbox,    \* frames of the instrument, shifted
          held,     \* the frame the worker sleeps on
          rebuilt,      \* the reference book
          shift,    \* the shift in force
          happened,    \* [changes, gaps, drops, shifts]: what the environment did
          errors,   \* gaps the adapter noticed
          base      \* what the reference book is made of: see Provenance

feedVars == <<venue, link, wire, channel, inbox, held, rebuilt, shift, happened,
              errors, base>>

Levels == Keys \X Shifts
Now == venue[Len(venue)]
Diffs == link.diffs

\* Where a reference book comes from: the version of the venue's book it
\* should show, the shift, and whether frames since its snapshot are missing.
Provenance == [at |-> 0, shift |-> NoShift, whole |-> TRUE, mixed |-> FALSE]

FeedInit ==
    /\ venue = <<[k \in Keys |-> 0]>>
    /\ \E diffs \in Protocols :
          link = [diffs |-> diffs, up |-> FALSE, sent |-> 0, read |-> 0]
    /\ wire = <<>> /\ channel = <<>> /\ inbox = <<>> /\ held = NoFrame
    /\ rebuilt = Blank(Levels)
    /\ shift = NoShift
    /\ happened = [changes |-> 0, gaps |-> 0, drops |-> 0, shifts |-> 0]
    /\ errors = 0
    /\ base = Provenance
-----------------------------------------------------------------------------
Frame(snap, levels, at, seq) ==
    [snapshot |-> snap, levels |-> levels, at |-> at, seq |-> seq,
     shift |-> NoShift]

\* Coinbase: a snapshot or the levels that changed, under the connection's
\* sequence number.  Binance: the top of the book, all of it and unnumbered.
Level2Frame(snap, levels, at, seq) == Frame(snap, levels, at, seq)
Depth20Frame(at) == Frame(TRUE, venue'[at], at, 0)

\* Mutant: an error ends the adapter.
DialOnce ==
    /\ ~link.up /\ happened.drops = 0
    /\ UNCHANGED venue
    /\ wire' = <<IF Diffs THEN Level2Frame(TRUE, Now, Len(venue), 1)
                 ELSE Depth20Frame(Len(venue))>>
    /\ link' = [link EXCEPT !.up = TRUE, !.sent = 1, !.read = 0]
    /\ UNCHANGED << channel, inbox, held, rebuilt, shift, happened, errors, base>>

\* The adapter dials and subscribes; the venue answers with a snapshot.
Dial ==
    /\ ~link.up
    /\ UNCHANGED venue
    /\ wire' = <<IF Diffs THEN Level2Frame(TRUE, Now, Len(venue), 1)
                 ELSE Depth20Frame(Len(venue))>>
    /\ link' = [link EXCEPT !.up = TRUE, !.sent = 1, !.read = 0]
    /\ UNCHANGED << channel, inbox, held, rebuilt, shift, happened, errors, base>>

\* The venue's book changes at one level and a frame tells of it, or none does
\* (a gap).
VenueMoves(k, q, told) ==
    /\ happened.changes < MaxChanges /\ q # Now[k]
    /\ IF told THEN Len(wire) < ChannelCap ELSE happened.gaps < MaxGaps /\ link.up
    /\ happened' = [happened EXCEPT !.changes = @ + 1, !.gaps = IF told THEN @ ELSE @ + 1]
    /\ venue' = Append(venue, [Now EXCEPT ![k] = q])
    /\ link' = [link EXCEPT !.sent = IF link.up THEN @ + 1 ELSE 0]
    /\ wire' = IF link.up /\ told
                 THEN Append(wire, IF Diffs
                        THEN Level2Frame(FALSE, [l \in {k} |-> q], Len(venue'), link'.sent)
                        ELSE Depth20Frame(Len(venue')))
                 ELSE wire
    /\ UNCHANGED <<channel, inbox, held, rebuilt, shift, errors, base>>

\* Binance sends the top of the book every 100 ms, changed or not.
Refresh ==
    /\ ~Diffs /\ link.up /\ wire = <<>>
    /\ UNCHANGED venue
    /\ wire' = <<Depth20Frame(Len(venue))>>
    /\ UNCHANGED <<link, channel, inbox, held, rebuilt, shift, happened, errors, base>>

\* A read fails, or times out on a silent socket: the frames not yet read are
\* gone, and the loop dials again after its backoff.
LoseConnection ==
    /\ link.up /\ happened.drops < MaxDrops
    /\ happened' = [happened EXCEPT !.drops = @ + 1]
    /\ link' = [link EXCEPT !.up = FALSE, !.sent = 0, !.read = 0]
    /\ wire' = <<>>
    /\ errors' = errors + 1
    /\ UNCHANGED <<venue, channel, inbox, held, rebuilt, shift, base>>

\* A break in the sequence numbers is counted, and the frame goes on.
Gap(frame) == frame.seq # 0 /\ link.read # 0 /\ frame.seq # link.read + 1

ReadFrame ==
    /\ link.up /\ wire # <<>>
    /\ Len(channel) < ChannelCap
    /\ channel' = Append(channel, Head(wire))
    /\ wire' = Tail(wire)
    /\ link' = [link EXCEPT !.read = Head(wire).seq]
    /\ errors' = IF Gap(Head(wire)) THEN errors + 1 ELSE errors
    /\ UNCHANGED <<venue, inbox, held, rebuilt, shift, happened, base>>

ShiftFrame(frame) ==
    [frame EXCEPT !.shift = shift,
                  !.levels = [l \in (DOMAIN frame.levels) \X {shift} |->
                                frame.levels[l[1]]]]

\* The dispatcher never waits: a full inbox costs the event.
Dispatch ==
    /\ channel # <<>>
    /\ channel' = Tail(channel)
    /\ inbox' = IF Len(inbox) < InboxCap
                  THEN Append(inbox, ShiftFrame(Head(channel))) ELSE inbox
    /\ UNCHANGED <<venue, link, wire, held, rebuilt, shift, happened, errors, base>>

Take ==
    /\ held = NoFrame /\ inbox # <<>>
    /\ held' = Head(inbox)
    /\ inbox' = Tail(inbox)
    /\ UNCHANGED <<venue, link, wire, channel, rebuilt, shift, happened, errors, base>>

\* What the book is made of once the frame is applied: a snapshot starts
\* afresh, a diff extends it and may come under another shift or after a
\* version that was lost.
Derived(frame) ==
    IF frame.snapshot
      THEN [at |-> frame.at, shift |-> frame.shift, whole |-> TRUE, mixed |-> FALSE]
      ELSE [at |-> frame.at, shift |-> base.shift,
            whole |-> base.whole /\ frame.at = base.at + 1,
            mixed |-> base.mixed \/ frame.shift # base.shift]

Apply ==
    /\ held # NoFrame
    /\ rebuilt' = ApplyFrame(rebuilt, held)
    /\ base' = IF rebuilt'.seen THEN Derived(held) ELSE base
    /\ held' = NoFrame
    /\ UNCHANGED <<venue, link, wire, channel, inbox, shift, happened, errors>>

\* A due action of the scenario stores another shift; events in the inbox keep
\* the one they were given.
SetPriceShift(s) ==
    /\ happened.shifts < MaxShifts /\ s # shift
    /\ shift' = s /\ happened' = [happened EXCEPT !.shifts = @ + 1]
    /\ UNCHANGED <<venue, link, wire, channel, inbox, held, rebuilt, errors, base>>

FeedNext ==
    \/ Dial \/ Refresh \/ LoseConnection \/ ReadFrame \/ Dispatch \/ Take \/ Apply
    \/ \E k \in Keys, q \in Quantities, told \in BOOLEAN : VenueMoves(k, q, told)
    \/ \E s \in Shifts : SetPriceShift(s)

\* The goroutines keep running and the venue keeps answering.
FeedFairness ==
    /\ WF_feedVars(Dial) /\ WF_feedVars(Refresh) /\ WF_feedVars(ReadFrame)
    /\ WF_feedVars(Dispatch) /\ WF_feedVars(Take) /\ WF_feedVars(Apply)

FeedSpec == FeedInit /\ [][FeedNext]_feedVars /\ FeedFairness
-----------------------------------------------------------------------------
Under(s, book) == [l \in Levels |-> IF l[2] = s THEN book[l[1]] ELSE 0]

\* A reference book with no frame missing since its snapshot, all under one
\* shift, is a book the venue had, price by price: frames are applied in the
\* order of the venue, none twice, and a reconnection starts from a snapshot.
ReferenceIsAVenueBook ==
    rebuilt.seen /\ base.whole /\ ~base.mixed =>
        rebuilt.book = Under(base.shift, venue[base.at])

\* Once the venue and the scenario rest, the reference book shows the venue's
\* current book, however many frames were dropped on the way, where every
\* frame is a snapshot; where frames are diffs, unless one of them was lost or
\* the shift changed between them, or the last of them was lost.
ReferenceCatchesUp ==
    <>[](\/ rebuilt.book = Under(shift, Now)
         \/ Diffs /\ (~base.whole \/ base.mixed \/ base.at # Len(venue)
                        \/ base.shift # shift))
=============================================================================
