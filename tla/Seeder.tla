-------------------------------- MODULE Seeder --------------------------------
(***************************************************************************)
(* The seeder (internal/emulator/seeder.go) keeps one synthetic limit      *)
(* order in the engine per level of the reference book.  A pass checks the *)
(* book, folds the fills reported by the trade hook into what it believes  *)
(* rests, reads the depth, cancels every level that must change and places *)
(* the new ones; each call of the engine or of the reference book is a     *)
(* step of its own, and frames, users, the venue's tape and toxic sweeps   *)
(* act in between.                                                         *)
(*                                                                         *)
(* An order is a record; its id counts arrivals, so it is also its time    *)
(* priority.  A level is <<side, price>>.  A call of the engine is one     *)
(* step, its trades and hooks included: both run under the book's lock.    *)
(***************************************************************************)
EXTENDS ReferenceBook, Sums

CONSTANTS Prices,
          Frames,       \* frames of the venue
          Flow,         \* orders of others: [side, price, vol, rests]
          Offsets,      \* how far the model would have a sweep penetrate
          Halves,       \* the set of alphas: TRUE halves the deviation, FALSE closes it
          DepthLevels, Eps,
          MaxFrames, MaxFlow

ASSUME SeederAssumption ==
    /\ Halves \subseteq BOOLEAN /\ Eps \in Nat /\ DepthLevels \in Nat
    /\ MaxFrames \in Nat /\ MaxFlow \in Nat
    /\ \A f \in Frames : \A l \in DOMAIN f.levels : f.levels[l] \in Nat
    /\ \A order \in Flow : order.vol \in Nat

VARIABLES ref,     \* the reference book
          resting, \* the engine's resting orders
          last,    \* orders submitted so far: ids are 1..last
          placed,  \* level -> [id, vol]: what the seeder believes rests
          fills,   \* id -> volume reported by the hook and not folded yet
          pass,    \* the pass in progress: [stage, half, cancels, places]
          spent    \* [frames, flow]: what the environment did

seederVars == <<ref, resting, last, placed, fills, pass, spent>>

BookLevels == {"buy", "sell"} \X Prices
Other(side) == IF side = "buy" THEN "sell" ELSE "buy"
NoLevels == [l \in {} |-> 0]
Without(f, S) == [x \in DOMAIN f \ S |-> f[x]]
Volume(f, x) == IF x \in DOMAIN f THEN f[x] ELSE 0
Total(orders) == SumOf([o \in orders |-> o.vol])
Idle == [stage |-> "idle", half |-> FALSE, cancels |-> {}, places |-> NoLevels]

SeederInit ==
    /\ ref = Blank(BookLevels)
    /\ resting = {}
    /\ last = 0
    /\ placed = NoLevels
    /\ fills = NoLevels
    /\ pass = Idle
    /\ spent = [frames |-> 0, flow |-> 0]
-----------------------------------------------------------------------------
(* The engine, as the seeder and its hook see it.                          *)

Reaches(taker, o) ==
    /\ o.side = Other(taker.side)
    /\ IF taker.side = "buy" THEN o.price <= taker.price ELSE o.price >= taker.price

Priority(o, p) ==
    \/ (IF o.side = "buy" THEN o.price > p.price ELSE o.price < p.price)
    \/ (o.price = p.price /\ o.id < p.id)

\* Price-time order: a resting order gives what those ahead of it leave.
Ahead(taker, o) == {p \in resting : Reaches(taker, p) /\ Priority(p, o)}
LeftFor(taker, o) == taker.vol - Total(Ahead(taker, o))

Gives(taker, o) ==
    IF Reaches(taker, o) /\ LeftFor(taker, o) > 0 THEN Min({o.vol, LeftFor(taker, o)}) ELSE 0

Takes(taker) == Min({taker.vol, Total({o \in resting : Reaches(taker, o)})})

\* Mutant: a fill replaces the one buffered before it.
ReportLatest(id, volume) == volume

\* OnTrade: the fills of an order add up in the buffer.
Report(id, volume) == Volume(fills, id) + volume

\* The taker trades in price-time order; what is left rests, or is discarded.
\* The hook buffers a fill for each side of a trade that is synthetic.
Execute(taker, rests) ==
    LET volume(o) == IF o = taker THEN Takes(taker) ELSE Gives(taker, o)
        left(o)   == o.vol - volume(o)
        hit       == {o \in resting \cup {taker} : o.synth /\ volume(o) > 0}
    IN  /\ resting' = {[o EXCEPT !.vol = left(o)] :
                         o \in {p \in resting \cup {taker} : left(p) > 0 /\ (p = taker => rests)}}
        /\ fills' = [id \in DOMAIN fills \cup {o.id : o \in hit} |->
                       IF \E o \in hit : o.id = id
                         THEN Report(id, volume(CHOOSE o \in hit : o.id = id)) ELSE fills[id]]
        /\ last' = taker.id

NewOrder(synth, side, price, vol) ==
    [id |-> last + 1, synth |-> synth, side |-> side, price |-> price, vol |-> vol]
-----------------------------------------------------------------------------
(* A pass of Converge.                                                     *)

\* Initialized and not crossed, or the tick is skipped.
Check(half) ==
    /\ pass.stage = "idle"
    /\ ref.seen /\ ~Crossed(ref.book)
    /\ pass' = [Idle EXCEPT !.stage = "checked", !.half = half]
    /\ UNCHANGED <<ref, resting, last, placed, fills, spent>>

\* Fills of orders that were replaced meanwhile are discarded; a level eaten
\* up is forgotten.
Folded ==
    LET left(l) == placed[l].vol - Volume(fills, placed[l].id)
    IN  [l \in {m \in DOMAIN placed : left(m) > 0} |->
           [placed[l] EXCEPT !.vol = left(l)]]

\* Toward zero, as a product with 1/2 truncates.
Half(n) == IF n >= 0 THEN n \div 2 ELSE -((-n) \div 2)

\* Mutant: a level that is gone decays as the others do.
TargetDecaying(current, wanted) ==
    IF ~pass.half THEN wanted ELSE current + Half(wanted - current)

\* current + alpha * (reference - current); zero for a level that is gone.
Target(current, wanted) ==
    IF wanted = 0 \/ ~pass.half THEN wanted ELSE current + Half(wanted - current)

Plan ==
    LET depth == Depth(ref.book, DepthLevels)
        current(l) == IF l \in DOMAIN Folded THEN Folded[l].vol ELSE 0
        target(l) == Target(current(l), depth[l])
        changes == {l \in BookLevels :
                      IF l \in DOMAIN Folded
                        THEN target(l) - current(l) \notin (-Eps)..Eps
                        ELSE target(l) > 0}
    IN  /\ pass.stage = "checked"
        /\ placed' = Folded
        /\ fills' = NoLevels
        /\ pass' = IF changes = {} THEN Idle ELSE
                     [pass EXCEPT !.stage = "changing",
                        !.cancels = changes \cap DOMAIN Folded,
                        !.places = [l \in {m \in changes : target(m) > 0} |-> target(l)]]
        /\ UNCHANGED <<ref, resting, last, spent>>

\* One cancel; an order that is gone is as good as cancelled.
CancelLevel(l) ==
    /\ pass.stage = "changing" /\ l \in pass.cancels
    /\ resting' = {o \in resting : o.id # placed[l].id}
    /\ placed' = Without(placed, {l})
    /\ pass' = IF pass.cancels = {l} /\ pass.places = NoLevels THEN Idle
               ELSE [pass EXCEPT !.cancels = @ \ {l}]
    /\ UNCHANGED <<ref, last, fills, spent>>

\* Placements come after the cancels, in the order of their keys (of prices with
\* as many digits as one another, the order of the prices).
KeyBefore(l, m) ==
    \/ l[1] = "buy" /\ m[1] = "sell"
    \/ l[1] = m[1] /\ l[2] < m[2]

PlaceLevel ==
    /\ pass.stage = "changing" /\ pass.cancels = {}
    /\ \E l \in DOMAIN pass.places :
          LET order == NewOrder(TRUE, l[1], l[2], pass.places[l])
          IN  /\ \A m \in DOMAIN pass.places : ~KeyBefore(m, l)
              /\ Execute(order, TRUE)
              /\ placed' = [m \in DOMAIN placed \cup {l} |->
                              IF m = l THEN [id |-> order.id, vol |-> order.vol] ELSE placed[m]]
              /\ pass' = IF DOMAIN pass.places = {l} THEN Idle
                         ELSE [pass EXCEPT !.places = Without(@, {l})]
    /\ UNCHANGED <<ref, spent>>
-----------------------------------------------------------------------------
(* Everybody else.                                                         *)

FrameArrives(frame) ==
    /\ spent.frames < MaxFrames
    /\ ref' = ApplyFrame(ref, frame) /\ ref' # ref
    /\ spent' = [spent EXCEPT !.frames = @ + 1]
    /\ UNCHANGED <<resting, last, placed, fills, pass>>

\* A user's limit order rests; a trade of the venue's tape is immediate or cancel.
OthersTrade(order) ==
    /\ spent.flow < MaxFlow
    /\ spent' = [spent EXCEPT !.flow = @ + 1]
    /\ Execute(NewOrder(FALSE, order.side, order.price, order.vol), order.rests)
    /\ UNCHANGED <<ref, placed, pass>>

\* A toxic print sweeps the touch of the REFERENCE book and at most one spread
\* beyond it, for as much as rests there.
SweepCap(side, offset) ==
    LET beyond == IF Spread(ref.book) > 0 THEN Min({offset, Spread(ref.book)}) ELSE offset
    IN  IF side = "buy" THEN BestAsk(ref.book) + beyond ELSE BestBid(ref.book) - beyond

Sweep(side, offset) ==
    /\ spent.flow < MaxFlow /\ HasTouch(ref.book)
    /\ SweepCap(side, offset) > 0
    /\ spent' = [spent EXCEPT !.flow = @ + 1]
    /\ Execute(NewOrder(FALSE, side, SweepCap(side, offset), 100), FALSE)
    /\ UNCHANGED <<ref, placed, pass>>

Converge ==
    \/ \E half \in Halves : Check(half)
    \/ Plan \/ PlaceLevel
    \/ \E l \in BookLevels : CancelLevel(l)

SeederNext ==
    \/ Converge
    \/ \E frame \in Frames : FrameArrives(frame)
    \/ \E order \in Flow : OthersTrade(order)
    \/ \E side \in {"buy", "sell"}, offset \in Offsets : Sweep(side, offset)

\* The ticker keeps ticking and the engine answers.
SeederSpec == SeederInit /\ [][SeederNext]_seederVars /\ WF_seederVars(Converge)
-----------------------------------------------------------------------------
Rests(l) == {o \in resting : o.synth /\ <<o.side, o.price>> = l}
Resting(l) == Total(Rests(l))

\* What the seeder believes, less the fills still buffered, is what rests, and
\* nothing synthetic rests that it does not know of: also while a pass cancels
\* and places, whoever trades in between, and when a placement trades at once.
PlacedFollowsBook ==
    \A l \in BookLevels :
        Resting(l) = IF l \in DOMAIN placed
                       THEN placed[l].vol - Volume(fills, placed[l].id) ELSE 0

\* Once the venue and the traders rest, what rests at every level of the
\* reference book is what the book shows, to within what a pass no longer
\* corrects (the tolerance; over alpha, when passes halve the deviation), and at
\* any other level no more than the tolerance.
MirrorSettles ==
    LET wanted == Depth(ref.book, DepthLevels)
        slack(l) == IF wanted[l] > 0 /\ TRUE \in Halves THEN 2 * Eps + 1 ELSE Eps
    IN  <>[](ref.seen /\ ~Crossed(ref.book) =>
               \A l \in BookLevels : Resting(l) - wanted[l] \in -slack(l)..slack(l))

=============================================================================
