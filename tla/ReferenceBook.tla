---------------------------- MODULE ReferenceBook ----------------------------
(***************************************************************************)
(* The reference book of internal/reference: the copy of a venue's book    *)
(* that the emulator rebuilds from the venue's frames.  A frame is a full  *)
(* snapshot or a diff; a quantity of zero removes a level.  A book is a    *)
(* function from levels to quantities, zero where no level is held, and a  *)
(* level of a priced book is a pair <<side, price>>.                       *)
(***************************************************************************)
EXTENDS Integers, FiniteSets, FiniteSetsExt

Blank(levels) == [seen |-> FALSE, book |-> [l \in levels |-> 0]]

\* The book once the quantities of levels have replaced its own.
Over(levels, book) ==
    [l \in DOMAIN book |-> IF l \in DOMAIN levels THEN levels[l] ELSE book[l]]

\* Mutant: a snapshot is merged into the old levels.
ApplyFrameMerging(ref, frame) ==
    IF frame.snapshot \/ ref.seen THEN [seen |-> TRUE, book |-> Over(frame.levels, ref.book)]
    ELSE ref

\* A snapshot replaces the whole book, a diff changes the levels it names, and
\* a diff before the first snapshot is dropped.
ApplyFrame(ref, frame) ==
    IF frame.snapshot
      THEN [seen |-> TRUE,
            book |-> Over(frame.levels, [l \in DOMAIN ref.book |-> 0])]
      ELSE IF ref.seen THEN [ref EXCEPT !.book = Over(frame.levels, @)] ELSE ref

Side(book, side) == {l \in DOMAIN book : l[1] = side /\ book[l] > 0}
PricesOf(levels) == {l[2] : l \in levels}

\* The touch of a book that has both sides.
HasTouch(book) == Side(book, "buy") # {} /\ Side(book, "sell") # {}
BestBid(book) == Max(PricesOf(Side(book, "buy")))
BestAsk(book) == Min(PricesOf(Side(book, "sell")))
Spread(book) == BestAsk(book) - BestBid(book)
Crossed(book) == HasTouch(book) /\ Spread(book) <= 0

\* The best n levels of each side, all of them when n is zero.
Depth(book, n) ==
    LET Ahead(l) == {m \in Side(book, l[1]) :
                       IF l[1] = "buy" THEN m[2] > l[2] ELSE m[2] < l[2]}
    IN  [l \in DOMAIN book |-> IF n = 0 \/ Cardinality(Ahead(l)) < n
                                 THEN book[l] ELSE 0]
=============================================================================
