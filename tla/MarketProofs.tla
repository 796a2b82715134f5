----------------------------- MODULE MarketProofs -----------------------------
(* What is proved of a venue's book on its way into the emulator             *)
(* (MarketFeed.tla) and of the Coinbase edge (CoinbaseEdge.tla).             *)
EXTENDS MarketFeed, CoinbaseEdge, SumTheorems, SequenceTheorems, FiniteSetTheorems, TLAPS

-----------------------------------------------------------------------------
(* The reference book. *)

Books == [Keys -> Quantities]

\* A frame on its way from the venue: a snapshot is a book the venue had, a
\* diff names all that changed since the version before.
Tells(f) ==
    /\ f.at \in 1..Len(venue)
    /\ f.snapshot => f.levels = venue[f.at]
    /\ ~f.snapshot =>
          /\ f.at # 1
          /\ \A k \in Keys : venue[f.at][k] =
                IF k \in DOMAIN f.levels THEN f.levels[k] ELSE venue[f.at - 1][k]

RawFrames ==
    {f \in [snapshot : BOOLEAN, levels : UNION {[D -> Quantities] : D \in SUBSET Keys},
            at : Nat, seq : Nat, shift : {NoShift}] : Tells(f)}

\* The same of a frame whose prices were moved by a shift.
TellsShifted(f) ==
    /\ f.at \in 1..Len(venue)
    /\ \A l \in DOMAIN f.levels : l[2] = f.shift
    /\ f.snapshot => \A k \in Keys :
          <<k, f.shift>> \in DOMAIN f.levels /\ f.levels[<<k, f.shift>>] = venue[f.at][k]
    /\ ~f.snapshot =>
          /\ f.at # 1
          /\ \A k \in Keys : venue[f.at][k] =
                IF <<k, f.shift>> \in DOMAIN f.levels THEN f.levels[<<k, f.shift>>]
                                                      ELSE venue[f.at - 1][k]

ShiftedFrames ==
    {f \in [snapshot : BOOLEAN, levels : UNION {[D -> Quantities] : D \in SUBSET Levels},
            at : Nat, seq : Nat, shift : Shifts] : TellsShifted(f)}

FeedTypes ==
    /\ venue \in Seq(Books) /\ Len(venue) # 0
    /\ link \in [diffs : BOOLEAN, up : BOOLEAN, sent : Nat, read : Nat]
    /\ shift \in Shifts
    /\ rebuilt \in [seen : BOOLEAN, book : [Levels -> Quantities]]
    /\ base \in [at : Nat, shift : Shifts, whole : BOOLEAN, mixed : BOOLEAN]
    /\ rebuilt.seen => base.at \in 1..Len(venue)

\* Whatever was lost, a frame still on its way tells the truth of the version
\* it is about; no order of the frames is needed.
FramesTell ==
    /\ wire \in Seq(RawFrames) /\ channel \in Seq(RawFrames)
    /\ inbox \in Seq(ShiftedFrames)
    /\ held = NoFrame \/ held \in ShiftedFrames

FeedInv == FeedTypes /\ FramesTell /\ ReferenceIsAVenueBook

\* The venue's book moves: its earlier versions stay what they were, and so do
\* the frames about them and the book made of them.
LEMMA VenueGrows ==
    ASSUME FeedInv, NEW b \in Books, venue' = Append(venue, b),
           UNCHANGED <<shift, rebuilt, base>>
    PROVE  /\ venue' \in Seq(Books) /\ Len(venue') = Len(venue) + 1
           /\ venue'[Len(venue')] = b
           /\ \A i \in 1..Len(venue) : venue'[i] = venue[i]
           /\ RawFrames \subseteq RawFrames' /\ ShiftedFrames \subseteq ShiftedFrames'
           /\ ReferenceIsAVenueBook'
<1>1. /\ venue' \in Seq(Books) /\ Len(venue) \in Nat /\ Len(venue') = Len(venue) + 1
      /\ venue'[Len(venue')] = b
      /\ \A i \in 1..Len(venue) : venue'[i] = venue[i]
  BY DEF FeedInv, FeedTypes
<1>2. ASSUME NEW f, Tells(f), f.at \in Nat PROVE Tells(f)'
  <2>1. f.at \in 1..Len(venue) /\ f.at \in 1..Len(venue') /\ venue'[f.at] = venue[f.at]
    BY <1>1, <1>2 DEF Tells
  <2>2. f.at # 1 => venue'[f.at - 1] = venue[f.at - 1]
    BY <1>1, <2>1
  <2> QED
    BY <1>2, <2>1, <2>2 DEF Tells
<1>3. ASSUME NEW f, TellsShifted(f), f.at \in Nat PROVE TellsShifted(f)'
  <2>1. f.at \in 1..Len(venue) /\ f.at \in 1..Len(venue') /\ venue'[f.at] = venue[f.at]
    BY <1>1, <1>3 DEF TellsShifted
  <2>2. f.at # 1 => venue'[f.at - 1] = venue[f.at - 1]
    BY <1>1, <2>1
  <2> QED
    BY <1>3, <2>1, <2>2 DEF TellsShifted
<1>4. RawFrames \subseteq RawFrames' /\ ShiftedFrames \subseteq ShiftedFrames'
  BY <1>2, <1>3 DEF RawFrames, ShiftedFrames
<1>5. ReferenceIsAVenueBook'
  <2>1. rebuilt.seen => venue'[base.at] = venue[base.at]
    BY <1>1 DEF FeedInv, FeedTypes
  <2> QED
    BY <2>1 DEF FeedInv, ReferenceIsAVenueBook, Under
<1> QED
  BY <1>1, <1>4, <1>5

\* A step that leaves the venue's book alone leaves alone what tells of it.
LEMMA VenueStays ==
    ASSUME venue' = venue
    PROVE  RawFrames' = RawFrames /\ ShiftedFrames' = ShiftedFrames
  BY DEF RawFrames, ShiftedFrames, Tells, TellsShifted

\* A snapshot of the venue's book, of either protocol, tells the truth.
LEMMA SnapshotTells ==
    ASSUME FeedInv, NEW seq \in Nat
    PROVE  Frame(TRUE, Now, Len(venue), seq) \in RawFrames
<1>1. Len(venue) \in 1..Len(venue) /\ Now \in Books
  BY DEF FeedInv, FeedTypes, Now
<1>2. Now \in UNION {[D -> Quantities] : D \in SUBSET Keys}
  BY <1>1 DEF Books
<1> QED
  BY <1>1, <1>2 DEF Frame, RawFrames, Tells, Now

\* Nothing is on its way when the emulator starts.
LEMMA FeedStarts == FeedInit => FeedInv
<1> SUFFICES ASSUME FeedInit PROVE FeedInv
  OBVIOUS
<1>1. /\ 0 \in Quantities /\ NoShift \in Shifts /\ Protocols \subseteq BOOLEAN
  BY FeedAssumption
<1>2. venue = <<[k \in Keys |-> 0]>> /\ [k \in Keys |-> 0] \in Books
  BY <1>1 DEF FeedInit, Books
<1>3. venue \in Seq(Books) /\ Len(venue) = 1
  BY <1>2
<1>4. rebuilt = [seen |-> FALSE, book |-> [l \in Levels |-> 0]]
  BY DEF FeedInit, Blank
<1>5. FeedTypes
  BY <1>1, <1>3, <1>4 DEF FeedTypes, FeedInit, Provenance
<1>6. FramesTell
  BY DEF FeedInit, FramesTell
<1>7. ReferenceIsAVenueBook
  BY <1>4 DEF ReferenceIsAVenueBook
<1> QED
  BY <1>5, <1>6, <1>7 DEF FeedInv

\* A step that leaves the venue and the reference book alone keeps the
\* invariant when it keeps the frames.
LEMMA FramesMove ==
    ASSUME FeedInv, UNCHANGED <<venue, rebuilt, base>>,
           link' \in [diffs : BOOLEAN, up : BOOLEAN, sent : Nat, read : Nat],
           shift' \in Shifts, wire' \in Seq(RawFrames), channel' \in Seq(RawFrames),
           inbox' \in Seq(ShiftedFrames), held' = NoFrame \/ held' \in ShiftedFrames
    PROVE  FeedInv'
<1>1. FeedTypes'
  BY DEF FeedInv, FeedTypes
<1>2. FramesTell'
  BY VenueStays DEF FramesTell
<1>3. ReferenceIsAVenueBook'
  BY DEF FeedInv, ReferenceIsAVenueBook, Under
<1> QED
  BY <1>1, <1>2, <1>3 DEF FeedInv

\* A snapshot is the only frame on a wire, after a dial or a silence.
LEMMA SnapshotSent ==
    ASSUME FeedInv, Dial \/ Refresh PROVE FeedInv'
<1> DEFINE LinkType == [diffs : BOOLEAN, up : BOOLEAN, sent : Nat, read : Nat]
<1>1. link' \in LinkType
  <2>1. link \in LinkType
    BY DEF FeedInv, FeedTypes
  <2>2. link' = link \/ link' = [link EXCEPT !.up = TRUE, !.sent = 1, !.read = 0]
    BY DEF Dial, Refresh
  <2>3. CASE link' = [link EXCEPT !.up = TRUE, !.sent = 1, !.read = 0]
    BY <2>1, <2>3
  <2> QED
    BY <2>1, <2>2, <2>3
<1>2. \A seq \in Nat : Frame(TRUE, Now, Len(venue), seq) \in RawFrames
  BY SnapshotTells
<1>3. \E seq \in Nat : wire' = <<Frame(TRUE, Now, Len(venue), seq)>>
  BY DEF Dial, Refresh, Level2Frame, Depth20Frame, Now
<1>4. wire' \in Seq(RawFrames)
  <2>1. PICK f \in RawFrames : wire' = <<f>>
    BY <1>2, <1>3
  <2> QED
    BY <2>1
<1>5. UNCHANGED <<venue, channel, inbox, held, rebuilt, shift, base>>
  BY DEF Dial, Refresh
<1> QED
  BY <1>1, <1>4, <1>5, FramesMove DEF FeedInv, FeedTypes, FramesTell

\* The frame of a change, whichever protocol it is in, tells the truth of the
\* version that comes with it.
LEMMA VenueMovesKeeps ==
    ASSUME FeedInv, NEW k \in Keys, NEW q \in Quantities, NEW told \in BOOLEAN,
           VenueMoves(k, q, told)
    PROVE  FeedInv'
<1> DEFINE b == [Now EXCEPT ![k] = q]
           LinkType == [diffs : BOOLEAN, up : BOOLEAN, sent : Nat, read : Nat]
           diff == Level2Frame(FALSE, [l \in {k} |-> q], Len(venue'), link'.sent)
           full == Depth20Frame(Len(venue'))
<1>1. /\ venue' = Append(venue, b)
      /\ UNCHANGED <<channel, inbox, held, rebuilt, shift, base>>
  BY DEF VenueMoves
<1>2. Len(venue) \in 1..Len(venue) /\ Now \in Books /\ b \in Books
  BY DEF FeedInv, FeedTypes, Now, Books
<1>3. /\ venue' \in Seq(Books) /\ Len(venue') = Len(venue) + 1
      /\ venue'[Len(venue')] = b
      /\ \A i \in 1..Len(venue) : venue'[i] = venue[i]
      /\ RawFrames \subseteq RawFrames' /\ ShiftedFrames \subseteq ShiftedFrames'
      /\ ReferenceIsAVenueBook'
  BY <1>1, <1>2, VenueGrows
<1>4. link' \in LinkType
  BY DEF VenueMoves, FeedInv, FeedTypes
<1>5. Len(venue') \in 1..Len(venue') /\ Len(venue') # 1 /\ Len(venue') - 1 = Len(venue)
  BY <1>2, <1>3
<1>6. ASSUME NEW f, f = diff PROVE f \in RawFrames'
  <2>1. f = [snapshot |-> FALSE, levels |-> [l \in {k} |-> q], at |-> Len(venue'),
             seq |-> link'.sent, shift |-> NoShift]
    BY <1>6 DEF Level2Frame, Frame
  <2>2. \A l \in Keys : b[l] = IF l \in {k} THEN [m \in {k} |-> q][l] ELSE venue'[Len(venue)][l]
    BY <1>2, <1>3 DEF Now, Books
  <2>3. Tells(f)'
    BY <1>3, <1>5, <2>1, <2>2 DEF Tells
  <2>4. [l \in {k} |-> q] \in UNION {[D -> Quantities] : D \in SUBSET Keys}
    <3>1. [l \in {k} |-> q] \in [{k} -> Quantities] /\ {k} \in SUBSET Keys
      OBVIOUS
    <3> QED
      BY <3>1
  <2>5. link'.sent \in Nat
    BY <1>4
  <2>6. PICK lv \in UNION {[D -> Quantities] : D \in SUBSET Keys} :
            f = [snapshot |-> FALSE, levels |-> lv, at |-> Len(venue'),
                 seq |-> link'.sent, shift |-> NoShift]
    BY <2>1, <2>4
  <2> QED
    BY <1>5, <2>3, <2>5, <2>6 DEF RawFrames
<1>7. ASSUME NEW f, f = full PROVE f \in RawFrames'
  <2>1. f = [snapshot |-> TRUE, levels |-> b, at |-> Len(venue'), seq |-> 0,
             shift |-> NoShift]
    BY <1>3, <1>7 DEF Depth20Frame, Frame
  <2>2. Tells(f)'
    BY <1>3, <1>5, <2>1 DEF Tells
  <2>3. b \in UNION {[D -> Quantities] : D \in SUBSET Keys}
    BY <1>2 DEF Books
  <2> HIDE DEF b
  <2> QED
    BY <1>5, <2>1, <2>2, <2>3 DEF RawFrames
<1>8. wire \in Seq(RawFrames') /\ channel' \in Seq(RawFrames') /\ inbox' \in Seq(ShiftedFrames')
  BY <1>1, <1>3, SeqMonotonic DEF FeedInv, FramesTell
<1>9. wire' \in Seq(RawFrames')
  <2>1. wire' = wire \/ wire' = Append(wire, diff) \/ wire' = Append(wire, full)
    BY DEF VenueMoves
  <2>2. diff \in RawFrames' /\ full \in RawFrames'
    BY <1>6, <1>7
  <2>3. ASSUME NEW f \in RawFrames' PROVE Append(wire, f) \in Seq(RawFrames')
    BY <1>8, <2>3, AppendProperties
  <2> HIDE DEF diff, full
  <2> QED
    BY <1>8, <2>1, <2>2, <2>3
<1>10. FramesTell'
  BY <1>1, <1>3, <1>8, <1>9 DEF FeedInv, FramesTell
<1>11. FeedTypes'
  BY <1>1, <1>3, <1>4 DEF FeedInv, FeedTypes
<1> QED
  BY <1>3, <1>10, <1>11 DEF FeedInv

\* A shifted frame tells what it told, price by price.
LEMMA ShiftTells ==
    ASSUME FeedInv, NEW f \in RawFrames
    PROVE  ShiftFrame(f) \in ShiftedFrames
<1> DEFINE lv == [l \in (DOMAIN f.levels) \X {shift} |-> f.levels[l[1]]]
<1>1. /\ f \in [snapshot : BOOLEAN, levels : UNION {[D -> Quantities] : D \in SUBSET Keys},
                at : Nat, seq : Nat, shift : {NoShift}]
      /\ Tells(f) /\ shift \in Shifts
  BY DEF RawFrames, FeedInv, FeedTypes
<1>2. PICK D \in SUBSET Keys : f.levels \in [D -> Quantities]
  BY <1>1
<1>3. lv \in [D \X {shift} -> Quantities] /\ D \X {shift} \in SUBSET Levels
  BY <1>1, <1>2 DEF Levels
<1>4. lv \in UNION {[E -> Quantities] : E \in SUBSET Levels}
  BY <1>3
<1>5. \A k \in Keys : (<<k, shift>> \in DOMAIN lv <=> k \in DOMAIN f.levels)
                      /\ (k \in DOMAIN f.levels => lv[<<k, shift>>] = f.levels[k])
  BY <1>2
<1>6. \A l \in DOMAIN lv : l[2] = shift
  BY <1>2
<1>7. f.snapshot => \A k \in Keys : k \in DOMAIN f.levels
  BY <1>1 DEF Tells, FeedInv, FeedTypes, Books
<1>8. ShiftFrame(f) = [f EXCEPT !.shift = shift, !.levels = lv]
  BY DEF ShiftFrame
<1> HIDE DEF lv
<1>10. ShiftFrame(f) = [snapshot |-> f.snapshot, levels |-> lv, at |-> f.at,
                        seq |-> f.seq, shift |-> shift]
  <2>1. PICK sn, fl, a, sq, sh :
            f = [snapshot |-> sn, levels |-> fl, at |-> a, seq |-> sq, shift |-> sh]
    BY <1>1
  <2> QED
    BY <1>8, <2>1
<1>9. ASSUME NEW g, g = [snapshot |-> f.snapshot, levels |-> lv, at |-> f.at,
                         seq |-> f.seq, shift |-> shift]
      PROVE  g \in ShiftedFrames
  <2>1. g \in [snapshot : BOOLEAN, levels : UNION {[E -> Quantities] : E \in SUBSET Levels},
               at : Nat, seq : Nat, shift : Shifts]
    BY <1>1, <1>4, <1>9
  <2>2. TellsShifted(g)
    BY <1>1, <1>5, <1>6, <1>7, <1>9 DEF TellsShifted, Tells
  <2> QED
    BY <2>1, <2>2 DEF ShiftedFrames
<1> QED
  BY <1>9, <1>10

\* A snapshot makes the reference book what it tells; a diff makes the book of
\* one version the book of the next.
LEMMA ApplyKeeps ==
    ASSUME FeedInv, Apply PROVE FeedInv'
<1> DEFINE f == held
<1>1. /\ f \in [snapshot : BOOLEAN, levels : UNION {[E -> Quantities] : E \in SUBSET Levels},
                at : Nat, seq : Nat, shift : Shifts]
      /\ TellsShifted(f)
  BY DEF FeedInv, FramesTell, Apply, ShiftedFrames
<1>2. PICK E \in SUBSET Levels : f.levels \in [E -> Quantities]
  BY <1>1
<1>3. /\ rebuilt' = ApplyFrame(rebuilt, f)
      /\ base' = IF rebuilt'.seen THEN Derived(f) ELSE base
      /\ held' = NoFrame
      /\ UNCHANGED <<venue, link, wire, channel, inbox, shift, happened, errors>>
  BY DEF Apply
<1>4. /\ rebuilt \in [seen : BOOLEAN, book : [Levels -> Quantities]]
      /\ base \in [at : Nat, shift : Shifts, whole : BOOLEAN, mixed : BOOLEAN]
      /\ Len(venue) \in Nat /\ 0 \in Quantities
      /\ f.at \in 1..Len(venue)
  BY <1>1, FeedAssumption DEF FeedInv, FeedTypes, TellsShifted
<1>5. FramesTell'
  BY <1>3, VenueStays DEF FeedInv, FramesTell
<1>6. CASE f.snapshot
  <2> DEFINE nb == Over(f.levels, [l \in Levels |-> 0])
  <2>1. rebuilt' = [seen |-> TRUE, book |-> nb]
    BY <1>3, <1>4, <1>6 DEF ApplyFrame
  <2>2. base' = [at |-> f.at, shift |-> f.shift, whole |-> TRUE, mixed |-> FALSE]
    BY <1>3, <1>6, <2>1 DEF Derived
  <2>3. nb \in [Levels -> Quantities]
    BY <1>2, <1>4 DEF Over
  <2>4. nb = Under(f.shift, venue[f.at])
    <3>1. ASSUME NEW l \in Levels
          PROVE  nb[l] = IF l[2] = f.shift THEN venue[f.at][l[1]] ELSE 0
      <4>1. l[1] \in Keys /\ l = <<l[1], l[2]>>
        BY <3>1 DEF Levels
      <4>2. nb[l] = IF l \in E THEN f.levels[l] ELSE 0
        BY <1>2, <3>1 DEF Over
      <4> HIDE DEF nb
      <4> QED
        BY <1>1, <1>2, <1>6, <4>1, <4>2 DEF TellsShifted
    <3> QED
      BY <3>1, <2>3 DEF Under, Over
  <2> HIDE DEF nb
  <2>5. FeedTypes'
    <3>1. base' \in [at : Nat, shift : Shifts, whole : BOOLEAN, mixed : BOOLEAN]
          /\ base'.at \in 1..Len(venue)
      BY <1>1, <1>4, <2>2
    <3>2. rebuilt' \in [seen : BOOLEAN, book : [Levels -> Quantities]]
      BY <2>1, <2>3
    <3> QED
      BY <1>3, <3>1, <3>2 DEF FeedInv, FeedTypes
  <2>6. ReferenceIsAVenueBook'
    BY <1>3, <2>1, <2>2, <2>4 DEF ReferenceIsAVenueBook, Under
  <2> QED
    BY <1>5, <2>5, <2>6 DEF FeedInv
<1>7. CASE ~f.snapshot /\ rebuilt.seen
  <2> DEFINE nb == Over(f.levels, rebuilt.book)
  <2>1. rebuilt' = [rebuilt EXCEPT !.book = nb]
    BY <1>3, <1>7 DEF ApplyFrame
  <2>2. rebuilt'.seen /\ rebuilt'.book = nb
    BY <1>4, <1>7, <2>1
  <2>3. base' = [at |-> f.at, shift |-> base.shift,
                 whole |-> base.whole /\ f.at = base.at + 1,
                 mixed |-> base.mixed \/ f.shift # base.shift]
    BY <1>3, <1>7, <2>2 DEF Derived
  <2>4. nb \in [Levels -> Quantities]
    BY <1>2, <1>4 DEF Over
  <2>5. rebuilt' \in [seen : BOOLEAN, book : [Levels -> Quantities]]
    <3> HIDE DEF nb
    <3> QED
      BY <1>4, <2>1, <2>4
  <2>6. base' \in [at : Nat, shift : Shifts, whole : BOOLEAN, mixed : BOOLEAN]
        /\ base'.at = f.at
    BY <1>1, <1>4, <2>3
  <2>7. FeedTypes'
    BY <1>3, <1>4, <2>5, <2>6 DEF FeedInv, FeedTypes
  <2>8. ASSUME base'.whole, ~base'.mixed PROVE nb = Under(base.shift, venue[f.at])
    <3>1. /\ base.whole /\ ~base.mixed
          /\ f.at - 1 = base.at /\ f.shift = base.shift
      BY <1>4, <2>3, <2>8
    <3>2. rebuilt.book = Under(base.shift, venue[f.at - 1])
      BY <1>7, <3>1 DEF FeedInv, ReferenceIsAVenueBook
    <3>3. ASSUME NEW l \in Levels
          PROVE  nb[l] = IF l[2] = f.shift THEN venue[f.at][l[1]] ELSE 0
      <4>1. l[1] \in Keys /\ l = <<l[1], l[2]>>
        BY <3>3 DEF Levels
      <4>2. nb[l] = IF l \in E THEN f.levels[l] ELSE rebuilt.book[l]
        BY <1>2, <1>4, <3>3 DEF Over
      <4>3. rebuilt.book[l] = IF l[2] = f.shift THEN venue[f.at - 1][l[1]] ELSE 0
        BY <3>1, <3>2, <3>3 DEF Under
      <4> HIDE DEF nb
      <4> QED
        BY <1>1, <1>2, <1>7, <4>1, <4>2, <4>3 DEF TellsShifted
    <3> QED
      BY <2>4, <3>1, <3>3 DEF Under, Over
  <2> HIDE DEF nb
  <2>9. base'.shift = base.shift
    BY <2>3
  <2>10. ReferenceIsAVenueBook'
    BY <1>3, <2>2, <2>6, <2>8, <2>9 DEF ReferenceIsAVenueBook, Under
  <2> QED
    BY <1>5, <2>7, <2>10 DEF FeedInv
<1>8. CASE ~f.snapshot /\ ~rebuilt.seen
  <2>1. rebuilt' = rebuilt /\ base' = base
    BY <1>3, <1>8 DEF ApplyFrame
  <2>2. FeedTypes'
    BY <1>3, <2>1 DEF FeedInv, FeedTypes
  <2>3. ReferenceIsAVenueBook'
    BY <1>8, <2>1 DEF ReferenceIsAVenueBook
  <2> QED
    BY <1>5, <2>2, <2>3 DEF FeedInv
<1> QED
  BY <1>6, <1>7, <1>8

\* Every step of the feed keeps FeedInv.
LEMMA FeedStep == FeedInv /\ [FeedNext]_feedVars => FeedInv'
<1> SUFFICES ASSUME FeedInv, [FeedNext]_feedVars PROVE FeedInv'
  OBVIOUS
<1> DEFINE LinkType == [diffs : BOOLEAN, up : BOOLEAN, sent : Nat, read : Nat]
<1>0. /\ link \in LinkType /\ shift \in Shifts
      /\ wire \in Seq(RawFrames) /\ channel \in Seq(RawFrames)
      /\ inbox \in Seq(ShiftedFrames) /\ (held = NoFrame \/ held \in ShiftedFrames)
  BY DEF FeedInv, FeedTypes, FramesTell
<1>1. CASE Dial \/ Refresh
  BY <1>1, SnapshotSent
<1>2. ASSUME NEW k \in Keys, NEW q \in Quantities, NEW told \in BOOLEAN,
             VenueMoves(k, q, told)
      PROVE  FeedInv'
  BY <1>2, VenueMovesKeeps
<1>3. CASE LoseConnection
  <2>1. link' = [link EXCEPT !.up = FALSE, !.sent = 0, !.read = 0] /\ wire' = <<>>
    BY <1>3 DEF LoseConnection
  <2>2. wire' \in Seq(RawFrames)
    BY <2>1
  <2>3. link' \in LinkType
    <3>1. [link EXCEPT !.up = FALSE, !.sent = 0, !.read = 0] \in LinkType
      BY <1>0
    <3> QED
      BY <2>1, <3>1
  <2> QED
    BY <1>0, <1>3, <2>2, <2>3, FramesMove DEF LoseConnection
<1>4. CASE ReadFrame
  <2>1. /\ wire # <<>> /\ wire' = Tail(wire) /\ channel' = Append(channel, Head(wire))
        /\ link' = [link EXCEPT !.read = Head(wire).seq]
    BY <1>4 DEF ReadFrame
  <2>2. Head(wire) \in RawFrames /\ wire' \in Seq(RawFrames)
    BY <1>0, <2>1, HeadTailProperties
  <2>3. channel' \in Seq(RawFrames)
    BY <1>0, <2>1, <2>2, AppendProperties
  <2>4. Head(wire).seq \in Nat
    BY <2>2 DEF RawFrames
  <2>5. link' \in LinkType
    BY <1>0, <2>1, <2>4
  <2> QED
    BY <1>0, <1>4, <2>2, <2>3, <2>5, FramesMove DEF ReadFrame
<1>5. CASE Dispatch
  <2>1. Head(channel) \in RawFrames /\ channel' \in Seq(RawFrames)
    BY <1>0, <1>5, HeadTailProperties DEF Dispatch
  <2>2. inbox' = inbox \/ inbox' = Append(inbox, ShiftFrame(Head(channel)))
    BY <1>5 DEF Dispatch
  <2>3. inbox' \in Seq(ShiftedFrames)
    <3>1. ShiftFrame(Head(channel)) \in ShiftedFrames
      BY <2>1, ShiftTells
    <3>2. Append(inbox, ShiftFrame(Head(channel))) \in Seq(ShiftedFrames)
      BY <1>0, <3>1, AppendProperties
    <3> QED
      BY <1>0, <2>2, <3>2
  <2> QED
    BY <1>0, <1>5, <2>1, <2>3, FramesMove DEF Dispatch
<1>6. CASE Take
  <2>1. held' \in ShiftedFrames /\ inbox' \in Seq(ShiftedFrames)
    BY <1>0, <1>6, HeadTailProperties DEF Take
  <2> QED
    BY <1>0, <1>6, <2>1, FramesMove DEF Take
<1>7. CASE Apply
  BY <1>7, ApplyKeeps
<1>8. ASSUME NEW s \in Shifts, SetPriceShift(s) PROVE FeedInv'
  BY <1>0, <1>8, FramesMove DEF SetPriceShift
<1>9. CASE UNCHANGED feedVars
  BY <1>0, <1>9, FramesMove DEF feedVars
<1> QED
  BY <1>1, <1>2, <1>3, <1>4, <1>5, <1>6, <1>7, <1>8, <1>9 DEF FeedNext

\* internal/feed, internal/reference, cmd/exchange/emulator.go: for any venue
\* and any loss on the way, a reference book that misses nothing since its
\* snapshot is a book the venue had.
THEOREM FeedKeepsBook == FeedSpec => []ReferenceIsAVenueBook
<1>1. FeedInv => ReferenceIsAVenueBook
  BY DEF FeedInv
<1> QED
  BY <1>1, FeedStarts, FeedStep, PTL DEF FeedSpec

-----------------------------------------------------------------------------
(* Orders of the Coinbase edge. *)

Marks == {"CANCELLED", "FILLED"}
OrderStates == Marks \cup {"OPEN", "REMOVED"}
OrderRecs == [side : {"buy", "sell"}, kind : {"limit", "market"}, price : Nat,
              size : Nat \ {0}, filled : Nat, status : OrderStates]
Reports == [id : Nat, status : OrderStates, filled : Nat]
Calls == [by : Threads \cup {"nobody", "taker"}, id : Nat, vol : Nat, price : Nat,
          stage : {"free", "registry", "emit", "ledger", "return"}]
InBook == {"placing", "cancelling"}
Knowing == InBook \cup {"place", "undo", "cancel", "mark", "report", "stamp"}

UserFrames == [owner : {"hook", "handler", "timer"}, state : Reports]

CoinbaseTypes ==
    /\ \E n \in Nat : rec \in [1..n -> OrderRecs]
    /\ DOMAIN resting \subseteq DOMAIN rec
    /\ pc \in [Threads -> {"idle", "record"} \cup Knowing]
    /\ DOMAIN req = Threads
    /\ call \in Calls
    /\ timers \subseteq Reports
    /\ flight \in Seq(UserFrames)

\* What a handler holds: an order not yet recorded, the id of a recorded one,
\* or the report it is about to send.
HasInHand(t) ==
    /\ pc[t] = "record" => req[t] \in ClientOrders
    /\ pc[t] \in Knowing => req[t].id \in DOMAIN rec
    /\ pc[t] = "stamp" => req[t] \in Reports

\* An order on its way into the book does not rest there, and nobody else has
\* it in hand.
Fresh(t) ==
    pc[t] = "place" =>
        /\ req[t].id \notin DOMAIN resting
        /\ \A u \in Threads \ {t} :
              pc[u] \in InBook \cup {"place", "mark"} => req[u].id # req[t].id

\* A handler that waits for the book has the call in it.
Calling(t) ==
    /\ pc[t] \in InBook => call.by = t /\ call.stage # "free"
    /\ pc[t] = "cancelling" =>
          /\ call.id = req[t].id /\ call.vol = 0
          /\ call.stage # "registry" => rec[req[t].id].status \in Marks
    /\ pc[t] = "mark" => rec[req[t].id].status \in Marks

\* Who will still send the present state of an order.
OnItsWay(id) ==
    \/ \E i \in DOMAIN flight : flight[i].state = State(id)
    \/ State(id) \in timers
    \/ call.id = id /\ call.stage \in {"registry", "emit"}
    \/ \E t \in Threads : pc[t] \in {"place", "placing", "report"} /\ req[t].id = id
    \/ \E t \in Threads : pc[t] = "stamp" /\ req[t] = State(id)

CoinbaseHands ==
    /\ CoinbaseTypes
    /\ call.stage # "free" => call.id \in DOMAIN rec
    /\ \A t \in Threads : HasInHand(t)

CoinbaseControl == \A t \in Threads : Fresh(t) /\ Calling(t)

CoinbaseSends ==
    \A id \in DOMAIN rec :
        id \in untold /\ rec[id].status # "REMOVED" => OnItsWay(id)

\* A new record gets the id after the last one.
LEMMA NewIdIsNext ==
    ASSUME CoinbaseTypes
    PROVE  \E n \in Nat : rec \in [1..n -> OrderRecs] /\ NextId = n + 1
<1>1. PICK n \in Nat : rec \in [1..n -> OrderRecs]
  BY DEF CoinbaseTypes
<1>2. Cardinality(1..n) = n
  BY FS_Interval
<1> QED
  BY <1>1, <1>2 DEF NextId

\* Giving a recorded order another state leaves every other record alone.
LEMMA RecordChanges ==
    ASSUME CoinbaseTypes, NEW id \in DOMAIN rec, NEW r \in OrderRecs,
           rec' = [rec EXCEPT ![id] = r]
    PROVE  /\ \E n \in Nat : rec' \in [1..n -> OrderRecs]
           /\ DOMAIN rec' = DOMAIN rec
           /\ rec'[id] = r
           /\ \A other \in DOMAIN rec : other # id => rec'[other] = rec[other]
<1>1. PICK n \in Nat : rec \in [1..n -> OrderRecs]
  BY DEF CoinbaseTypes
<1> QED
  BY <1>1

\* A handler goes on without touching any record or frame: what is then in its
\* hands is enough to look at.
LEMMA HandMoves ==
    ASSUME CoinbaseHands, NEW t \in Threads,
           NEW to \in {"idle", "record"} \cup Knowing, NEW h,
           pc' = [pc EXCEPT ![t] = to], req' = [req EXCEPT ![t] = h],
           to = "record" => h \in ClientOrders,
           to \in Knowing => h.id \in DOMAIN rec',
           to = "stamp" => h \in Reports,
           DOMAIN rec \subseteq DOMAIN rec'
    PROVE  /\ pc' \in [Threads -> {"idle", "record"} \cup Knowing]
           /\ DOMAIN req' = Threads
           /\ \A u \in Threads : HasInHand(u)'
<1>1. pc \in [Threads -> {"idle", "record"} \cup Knowing] /\ DOMAIN req = Threads
  BY DEF CoinbaseHands, CoinbaseTypes
<1>2. pc' \in [Threads -> {"idle", "record"} \cup Knowing] /\ DOMAIN req' = Threads
  BY <1>1
<1>3. HasInHand(t)'
  <2>1. pc'[t] = to /\ req'[t] = h
    BY <1>1
  <2> QED
    BY <2>1 DEF HasInHand
<1>4. ASSUME NEW u \in Threads, u # t PROVE HasInHand(u)'
  <2>1. pc'[u] = pc[u] /\ req'[u] = req[u]
    BY <1>1, <1>4
  <2>2. HasInHand(u)
    BY DEF CoinbaseHands
  <2> QED
    BY <2>1, <2>2 DEF HasInHand
<1> QED
  BY <1>2, <1>3, <1>4

\* The report of a recorded order.
LEMMA StateReports ==
    ASSUME CoinbaseTypes, NEW id \in DOMAIN rec
    PROVE  State(id) \in Reports
<1>1. PICK n \in Nat : rec \in [1..n -> OrderRecs]
  BY DEF CoinbaseTypes
<1>2. rec[id] \in OrderRecs /\ id \in Nat
  BY <1>1
<1> QED
  BY <1>2 DEF State, Reports, OrderRecs

\* Frames in flight: one is added at the end, or one is taken out and the
\* others stay.
LEMMA StampAdds ==
    ASSUME flight \in Seq(UserFrames), NEW owner \in {"hook", "handler", "timer"},
           NEW state \in Reports, Stamp(owner, state)
    PROVE  /\ flight' \in Seq(UserFrames)
           /\ \E i \in DOMAIN flight' : flight'[i].state = state
           /\ \A i \in DOMAIN flight : i \in DOMAIN flight' /\ flight'[i] = flight[i]
<1> DEFINE f == [owner |-> owner, state |-> state]
<1>1. flight' = Append(flight, f) /\ f \in UserFrames /\ f.state = state
  BY DEF Stamp, UserFrames
<1> HIDE DEF f
<1>2. /\ flight' \in Seq(UserFrames) /\ Len(flight') = Len(flight) + 1
      /\ flight'[Len(flight) + 1] = f
      /\ \A i \in 1..Len(flight) : flight'[i] = flight[i]
  BY <1>1, AppendProperties
<1>3. Len(flight) \in Nat /\ DOMAIN flight = 1..Len(flight) /\ DOMAIN flight' = 1..Len(flight')
  BY <1>2, LenProperties
<1> QED
  BY <1>1, <1>2, <1>3

\* A frame that leaves takes no other with it.
LEMMA TrySendTakes ==
    ASSUME flight \in Seq(UserFrames), NEW i \in DOMAIN flight, flight' = RemoveAt(flight, i)
    PROVE  /\ flight' \in Seq(UserFrames)
           /\ \A j \in DOMAIN flight : j # i =>
                 \E k \in DOMAIN flight' : flight'[k] = flight[j]
<1> DEFINE a == SubSeq(flight, 1, i - 1)
           b == SubSeq(flight, i + 1, Len(flight))
<1>1. /\ Len(flight) \in Nat /\ DOMAIN flight = 1..Len(flight) /\ i \in 1..Len(flight)
      /\ \A j \in 1..Len(flight) : flight[j] \in UserFrames
  BY LenProperties, ElementOfSeq
<1>2. /\ a \in Seq(UserFrames) /\ Len(a) = i - 1
      /\ \A j \in 1..(i - 1) : a[j] = flight[j]
  <2>1. \A j \in 1..(i - 1) : flight[j] \in UserFrames
    BY <1>1
  <2> QED
    BY <1>1, <2>1, SubSeqProperties
<1>3. /\ b \in Seq(UserFrames) /\ Len(b) = Len(flight) - i
      /\ \A j \in 1..(Len(flight) - i) : b[j] = flight[j + i]
  <2>1. \A j \in (i + 1)..Len(flight) : flight[j] \in UserFrames
    BY <1>1
  <2>2. /\ SubSeq(flight, i + 1, Len(flight)) \in Seq(UserFrames)
        /\ Len(SubSeq(flight, i + 1, Len(flight))) =
              IF i + 1 <= Len(flight) THEN Len(flight) - (i + 1) + 1 ELSE 0
        /\ \A j \in 1..(Len(flight) - (i + 1) + 1) :
              SubSeq(flight, i + 1, Len(flight))[j] = flight[(i + 1) + j - 1]
    BY <1>1, <2>1, SubSeqProperties
  <2>3. Len(flight) - (i + 1) + 1 = Len(flight) - i /\ \A j \in Nat : (i + 1) + j - 1 = j + i
    BY <1>1
  <2>4. Len(b) = Len(flight) - i
    BY <1>1, <2>2
  <2>5. ASSUME NEW j \in 1..(Len(flight) - i) PROVE b[j] = flight[j + i]
    <3>1. j \in 1..(Len(flight) - (i + 1) + 1) /\ (i + 1) + j - 1 = j + i
      BY <1>1
    <3> QED
      BY <2>2, <3>1
  <2> QED
    BY <2>2, <2>4, <2>5
<1> HIDE DEF a, b
<1>4. flight' = a \o b
  BY DEF RemoveAt, a, b
<1>5. /\ flight' \in Seq(UserFrames) /\ Len(flight') = Len(flight) - 1
      /\ \A k \in 1..(Len(flight) - 1) :
            flight'[k] = IF k <= i - 1 THEN a[k] ELSE b[k - (i - 1)]
  <2>1. /\ a \o b \in Seq(UserFrames) /\ Len(a \o b) = Len(a) + Len(b)
        /\ \A k \in 1..(Len(a) + Len(b)) :
              (a \o b)[k] = IF k <= Len(a) THEN a[k] ELSE b[k - Len(a)]
    BY <1>2, <1>3, ConcatProperties
  <2>2. Len(a) = i - 1 /\ Len(a) + Len(b) = Len(flight) - 1
    BY <1>1, <1>2, <1>3
  <2> QED
    BY <1>4, <2>1, <2>2
<1>6. DOMAIN flight' = 1..(Len(flight) - 1)
  BY <1>5, LenProperties
<1>7. ASSUME NEW j \in DOMAIN flight, j # i
      PROVE  \E k \in DOMAIN flight' : flight'[k] = flight[j]
  <2>1. CASE j < i
    BY <1>1, <1>2, <1>5, <1>6, <2>1
  <2>2. CASE j > i
    <3>1. j - 1 \in 1..(Len(flight) - 1) /\ ~(j - 1 <= i - 1)
      BY <1>1, <1>7, <2>2
    <3>2. flight'[j - 1] = b[j - i] /\ j - i \in 1..(Len(flight) - i)
      BY <1>1, <1>5, <1>7, <2>2, <3>1
    <3>3. flight'[j - 1] = flight[j]
      BY <1>1, <1>3, <1>7, <3>2
    <3> QED
      BY <1>6, <3>1, <3>3
  <2> QED
    BY <1>1, <1>7, <2>1, <2>2
<1> QED
  BY <1>5, <1>7

\* The steps of a handler that touch no record, no frame and no call.
LEMMA QuietHands ==
    ASSUME CoinbaseHands, NEW t \in Threads,
           \/ \E o \in ClientOrders : CreateOrder(t, o)
           \/ GiveBack(t) \/ \E id \in Ids : CancelOne(t, id)
           \/ CancelMisses(t) \/ ReadRecord(t)
    PROVE  CoinbaseHands'
<1>1. UNCHANGED <<rec, resting, call, timers, flight>>
  BY DEF CreateOrder, GiveBack, CancelOne, CancelMisses, ReadRecord
<1>2. PICK to, h :
          /\ to \in {"idle", "record"} \cup Knowing
          /\ pc' = [pc EXCEPT ![t] = to] /\ req' = [req EXCEPT ![t] = h]
          /\ to = "record" => h \in ClientOrders
          /\ to \in Knowing => h.id \in DOMAIN rec
          /\ to = "stamp" => h \in Reports
  <2>1. CASE \E o \in ClientOrders : CreateOrder(t, o)
    <3>1. PICK o \in ClientOrders : CreateOrder(t, o)
      BY <2>1
    <3>2. pc' = [pc EXCEPT ![t] = "record"] /\ req' = [req EXCEPT ![t] = o]
      BY <3>1 DEF CreateOrder, Goto
    <3>3. "record" \notin Knowing /\ "record" # "stamp"
      BY DEF Knowing, InBook
    <3> QED
      BY <3>1, <3>2, <3>3
  <2>2. CASE GiveBack(t) \/ CancelMisses(t)
    BY <2>2 DEF GiveBack, CancelMisses, Finish, Goto, Knowing, InBook
  <2>3. ASSUME NEW id \in Ids, CancelOne(t, id)
        PROVE  /\ pc' = [pc EXCEPT ![t] = "cancel"]
               /\ req' = [req EXCEPT ![t] = [id |-> id]] /\ id \in DOMAIN rec
    BY <2>3 DEF CancelOne, Goto
  <2>4. CASE ReadRecord(t)
    <3>1. pc[t] \in Knowing /\ req[t].id \in DOMAIN rec
      BY <2>4 DEF ReadRecord, Goto, Knowing, CoinbaseHands, HasInHand
    <3>2. /\ pc' = [pc EXCEPT ![t] = "stamp"]
          /\ req' = [req EXCEPT ![t] = State(req[t].id)]
      BY <2>4 DEF ReadRecord, Goto
    <3>3. State(req[t].id) \in Reports /\ State(req[t].id).id = req[t].id
      BY <3>1, StateReports DEF CoinbaseHands, State
    <3> QED
      BY <3>1, <3>2, <3>3 DEF Knowing
  <2>5. CASE \E id \in Ids : CancelOne(t, id)
    <3>1. PICK id \in Ids : CancelOne(t, id)
      BY <2>5
    <3>2. "cancel" \in Knowing /\ "cancel" # "record" /\ "cancel" # "stamp"
      BY DEF Knowing
    <3>3. /\ pc' = [pc EXCEPT ![t] = "cancel"]
          /\ req' = [req EXCEPT ![t] = [id |-> id]] /\ [id |-> id].id \in DOMAIN rec
      BY <2>3, <3>1
    <3> QED
      BY <3>2, <3>3
  <2> QED
    BY <2>1, <2>2, <2>4, <2>5
<1>3. /\ pc' \in [Threads -> {"idle", "record"} \cup Knowing]
      /\ DOMAIN req' = Threads
      /\ \A u \in Threads : HasInHand(u)'
  BY <1>1, <1>2, HandMoves
<1> QED
  BY <1>1, <1>3 DEF CoinbaseHands, CoinbaseTypes

\* A record gets another state in the handler's own step.
LEMMA RecordHands ==
    ASSUME CoinbaseHands, NEW t \in Threads,
           Record(t) \/ RemoveRecord(t) \/ MarkCancelled(t)
    PROVE  CoinbaseHands'
<1>1. UNCHANGED <<resting, call, timers, flight>>
  BY DEF Record, RemoveRecord, MarkCancelled
<1>2. CASE Record(t)
  <2> DEFINE r == [side |-> req[t].side, kind |-> req[t].kind,
                   price |-> req[t].price, size |-> req[t].size,
                   filled |-> 0, status |-> "OPEN"]
  <2>1. PICK n \in Nat : rec \in [1..n -> OrderRecs] /\ NextId = n + 1
    BY NewIdIsNext DEF CoinbaseHands
  <2>2. req[t] \in ClientOrders
    BY <1>2 DEF Record, Goto, CoinbaseHands, HasInHand
  <2>3. r \in OrderRecs
    BY <2>2, CoinbaseAssumption DEF OrderRecs, OrderStates, Marks
  <2>4. rec' = Extend(rec, NextId, r)
    BY <1>2 DEF Record
  <2> HIDE DEF r
  <2>5. rec' \in [1..(n + 1) -> OrderRecs] /\ DOMAIN rec \subseteq DOMAIN rec'
        /\ NextId \in DOMAIN rec'
    BY <2>1, <2>3, <2>4 DEF Extend
  <2>6. /\ pc' = [pc EXCEPT ![t] = "place"]
        /\ req' = [req EXCEPT ![t] = [id |-> NextId]] /\ [id |-> NextId].id = NextId
    BY <1>2 DEF Record, Goto
  <2>7. "place" \in Knowing
    BY DEF Knowing
  <2>8. /\ pc' \in [Threads -> {"idle", "record"} \cup Knowing]
        /\ DOMAIN req' = Threads
        /\ \A u \in Threads : HasInHand(u)'
    BY <2>5, <2>6, <2>7, HandMoves
  <2>9. \E k \in Nat : rec' \in [1..k -> OrderRecs]
    BY <2>1, <2>5
  <2> QED
    BY <1>1, <2>5, <2>8, <2>9 DEF CoinbaseHands, CoinbaseTypes
<1>3. CASE RemoveRecord(t) \/ MarkCancelled(t)
  <2>1. req[t].id \in DOMAIN rec
    BY <1>3 DEF RemoveRecord, MarkCancelled, Finish, Goto, CoinbaseHands, HasInHand, Knowing
  <2>2. PICK s \in OrderStates : rec' = [rec EXCEPT ![req[t].id].status = s]
    <3>1. CASE RemoveRecord(t)
      BY <3>1 DEF RemoveRecord, OrderStates
    <3>2. CASE MarkCancelled(t)
      <4>1. rec' = [rec EXCEPT ![req[t].id].status = "CANCELLED"]
            \/ rec' = [rec EXCEPT ![req[t].id].status = "FILLED"]
        BY <3>2 DEF MarkCancelled
      <4> QED
        BY <4>1 DEF OrderStates, Marks
    <3> QED
      BY <1>3, <3>1, <3>2
  <2>3. rec[req[t].id] \in OrderRecs
    BY <2>1 DEF CoinbaseHands, CoinbaseTypes
  <2>4. [rec[req[t].id] EXCEPT !.status = s] \in OrderRecs
    BY <2>3 DEF OrderRecs
  <2>5. (\E n \in Nat : rec' \in [1..n -> OrderRecs]) /\ DOMAIN rec' = DOMAIN rec
    BY <2>1, <2>2, <2>4, RecordChanges DEF CoinbaseHands
  <2>6. ASSUME RemoveRecord(t)
        PROVE  /\ pc' \in [Threads -> {"idle", "record"} \cup Knowing]
               /\ DOMAIN req' = Threads
               /\ \A u \in Threads : HasInHand(u)'
    <3>1. pc[t] = "place" /\ pc' = [pc EXCEPT ![t] = "undo"] /\ req' = req
      BY <2>6 DEF RemoveRecord, Goto
    <3>2. pc' \in [Threads -> {"idle", "record"} \cup Knowing] /\ DOMAIN req' = Threads
          /\ \A u \in Threads : pc'[u] = pc[u] \/ (pc'[u] = "undo" /\ pc[u] \in Knowing)
      BY <3>1 DEF CoinbaseHands, CoinbaseTypes, Knowing
    <3> QED
      BY <2>5, <3>1, <3>2 DEF CoinbaseHands, HasInHand
  <2>8. ASSUME MarkCancelled(t)
        PROVE  /\ pc' \in [Threads -> {"idle", "record"} \cup Knowing]
               /\ DOMAIN req' = Threads
               /\ \A u \in Threads : HasInHand(u)'
    <3>1. pc' = [pc EXCEPT ![t] = "idle"] /\ req' = [req EXCEPT ![t] = [id |-> 0]]
      BY <2>8 DEF MarkCancelled, Finish, Goto
    <3>2. "idle" \notin Knowing
      BY DEF Knowing, InBook
    <3> QED
      BY <2>5, <3>1, <3>2, HandMoves
  <2>7. /\ pc' \in [Threads -> {"idle", "record"} \cup Knowing]
        /\ DOMAIN req' = Threads
        /\ \A u \in Threads : HasInHand(u)'
    BY <1>3, <2>6, <2>8
  <2> QED
    BY <1>1, <2>5, <2>7 DEF CoinbaseHands, CoinbaseTypes
<1> QED
  BY <1>2, <1>3

\* A call enters the book.
LEMMA CallHands ==
    ASSUME CoinbaseHands,
           \/ \E t \in Threads : CancelInBook(t) \/ \E vol \in 0..MostTraded, price \in 0..MostTraded : PlaceOrder(t, vol, price)
           \/ \E id \in Ids, vol \in 1..MostTraded : TakerHits(id, vol)
    PROVE  CoinbaseHands'
<1>1. UNCHANGED <<rec, req, timers, flight>>
  BY DEF CancelInBook, PlaceOrder, TakerHits
<1>2. \A id \in DOMAIN rec : id \in Nat /\ rec[id].price \in Nat
  BY DEF CoinbaseHands, CoinbaseTypes, OrderRecs
<1>3. PICK id \in DOMAIN rec : call' \in Calls /\ call'.id = id
                               /\ DOMAIN resting' \subseteq DOMAIN resting \cup {id}
  <2>1. ASSUME NEW t \in Threads, CancelInBook(t)
        PROVE  \E id \in DOMAIN rec : call' \in Calls /\ call'.id = id
                               /\ DOMAIN resting' \subseteq DOMAIN resting \cup {id}
    <3>1. req[t].id \in DOMAIN rec
      BY <2>1 DEF CancelInBook, CoinbaseHands, CoinbaseTypes
    <3>2. call' = [by |-> t, id |-> req[t].id, vol |-> 0, price |-> 0, stage |-> "registry"]
          /\ DOMAIN resting' \subseteq DOMAIN resting
      BY <2>1 DEF CancelInBook, Drop
    <3>3. call' \in Calls /\ call'.id = req[t].id
      BY <1>2, <3>1, <3>2 DEF Calls
    <3> QED
      BY <3>1, <3>2, <3>3
  <2>2. ASSUME NEW t \in Threads, NEW vol \in 0..MostTraded, NEW price \in 0..MostTraded, PlaceOrder(t, vol, price)
        PROVE  \E id \in DOMAIN rec : call' \in Calls /\ call'.id = id
                               /\ DOMAIN resting' \subseteq DOMAIN resting \cup {id}
    <3>1. req[t].id \in DOMAIN rec
      BY <2>2 DEF PlaceOrder, Goto, CoinbaseHands, HasInHand, Knowing
    <3>2. PICK stage \in {"registry", "return"} :
              call' = [by |-> t, id |-> req[t].id, vol |-> vol, price |-> price, stage |-> stage]
      BY <2>2 DEF PlaceOrder
    <3>3. call' \in Calls /\ call'.id = req[t].id
      BY <1>2, <3>1, <3>2 DEF Calls
    <3>4. DOMAIN resting' \subseteq DOMAIN resting \cup {req[t].id}
      BY <2>2 DEF PlaceOrder, Extend
    <3> QED
      BY <3>1, <3>3, <3>4
  <2>3. ASSUME NEW id \in Ids, NEW vol \in 1..MostTraded, TakerHits(id, vol)
        PROVE  id \in DOMAIN rec /\ call' \in Calls /\ call'.id = id
                               /\ DOMAIN resting' \subseteq DOMAIN resting \cup {id}
    <3>1. id \in DOMAIN rec
      BY <2>3 DEF TakerHits, CoinbaseHands, CoinbaseTypes
    <3>2. call' = [by |-> "taker", id |-> id, vol |-> vol, price |-> rec[id].price,
                   stage |-> "registry"]
      BY <2>3 DEF TakerHits
    <3>3. call' \in Calls /\ call'.id = id
      BY <1>2, <3>1, <3>2 DEF Calls
    <3>4. DOMAIN resting' \subseteq DOMAIN resting
      BY <2>3 DEF TakerHits, Drop
    <3> QED
      BY <3>1, <3>3, <3>4
  <2> QED
    BY <2>1, <2>2, <2>3
<1>4. pc' \in [Threads -> {"idle", "record"} \cup Knowing]
      /\ \A t \in Threads : pc'[t] = pc[t] \/ (pc'[t] \in InBook /\ pc[t] \in Knowing)
  BY DEF CancelInBook, PlaceOrder, TakerHits, Goto, CoinbaseHands, CoinbaseTypes, Knowing, InBook
<1>5. \A t \in Threads : HasInHand(t)'
  BY <1>1, <1>4 DEF CoinbaseHands, HasInHand, InBook
<1> QED
  BY <1>1, <1>3, <1>4, <1>5 DEF CoinbaseHands, CoinbaseTypes

\* The registry applies the call to a recorded order.
LEMMA RegistryRecord ==
    ASSUME CoinbaseHands, RegistryHook
    PROVE  /\ call.id \in DOMAIN rec /\ call.stage = "registry"
           /\ call' = [call EXCEPT !.stage = "emit"] /\ call' \in Calls
           /\ call'.id = call.id /\ call'.stage = "emit" /\ call'.by = call.by
           /\ call'.vol = call.vol
           /\ \E n \in Nat : rec' \in [1..n -> OrderRecs]
           /\ DOMAIN rec' = DOMAIN rec
           /\ \A id \in DOMAIN rec : id # call.id => rec'[id] = rec[id]
           /\ call.vol = 0 => rec'[call.id].status \in Marks
           /\ \A id \in DOMAIN rec : rec[id].status \in Marks => rec'[id].status \in Marks
<1>1. call.id \in DOMAIN rec /\ call.stage = "registry" /\ call \in Calls
  BY DEF RegistryHook, Stage, CoinbaseHands, CoinbaseTypes
<1>2. call' = [call EXCEPT !.stage = "emit"]
  BY DEF RegistryHook, Then
<1>3. /\ call' \in Calls /\ call'.id = call.id /\ call'.stage = "emit" /\ call'.by = call.by
      /\ call'.vol = call.vol
  BY <1>1, <1>2 DEF Calls
<1> DEFINE old == rec[call.id]
           r == IF call.vol > 0 THEN ApplyFill(old)
                ELSE IF old.status = "FILLED" THEN old ELSE [old EXCEPT !.status = "CANCELLED"]
<1>4. rec' = [rec EXCEPT ![call.id] = r]
  BY DEF RegistryHook
<1>5. old \in OrderRecs /\ call.vol \in Nat
  BY <1>1 DEF CoinbaseHands, CoinbaseTypes, Calls
<1> HIDE DEF old
<1>6. /\ r \in OrderRecs
      /\ call.vol = 0 \/ old.status \in Marks => r.status \in Marks
  <2>1. CASE call.vol > 0
    <3>1. old.filled + call.vol \in Nat
      BY <1>5 DEF OrderRecs
    <3>2. PICK s \in OrderStates :
              /\ r = [old EXCEPT !.filled = old.filled + call.vol, !.status = s]
              /\ old.status \in Marks => s \in Marks
      <4>1. CASE old.status # "CANCELLED" /\ old.filled + call.vol >= old.size
        BY <2>1, <4>1 DEF ApplyFill, OrderStates, Marks
      <4>2. CASE ~(old.status # "CANCELLED" /\ old.filled + call.vol >= old.size)
        <5>1. r = [old EXCEPT !.filled = old.filled + call.vol, !.status = old.status]
          BY <2>1, <4>2 DEF ApplyFill
        <5> QED
          BY <1>5, <5>1 DEF OrderRecs
      <4> QED
        BY <4>1, <4>2
    <3>3. ASSUME NEW x \in Nat, r = [old EXCEPT !.filled = x, !.status = s]
          PROVE  r \in OrderRecs /\ r.status = s
      <4> HIDE DEF r
      <4> QED
        BY <1>5, <3>3 DEF OrderRecs
    <3>4. r \in OrderRecs /\ r.status = s
      <4> HIDE DEF r
      <4> QED
        BY <3>1, <3>2, <3>3
    <3>5. call.vol # 0
      BY <1>5, <2>1
    <3> HIDE DEF r
    <3> QED
      BY <3>2, <3>4, <3>5
  <2>2. CASE ~(call.vol > 0)
    BY <1>5, <2>2 DEF OrderRecs, OrderStates, Marks
  <2> QED
    BY <2>1, <2>2
<1> HIDE DEF r
<1>7. /\ \E n \in Nat : rec' \in [1..n -> OrderRecs]
      /\ DOMAIN rec' = DOMAIN rec /\ rec'[call.id] = r
      /\ \A other \in DOMAIN rec : other # call.id => rec'[other] = rec[other]
  BY <1>1, <1>4, <1>6, RecordChanges DEF CoinbaseHands
<1> QED
  BY <1>1, <1>2, <1>3, <1>6, <1>7 DEF old

\* The hooks and the return keep what is in hand.
LEMMA HookHands ==
    ASSUME CoinbaseHands,
           RegistryHook \/ LedgerHook \/ ReturnFromBook \/ \E delayed \in Delays : EmitHook(delayed)
    PROVE  CoinbaseHands'
<1>0. call \in Calls /\ NoCall \in Calls
  BY DEF CoinbaseHands, CoinbaseTypes, Calls, NoCall
<1>1. CASE RegistryHook
  <2>1. UNCHANGED <<resting, pc, req, timers, flight>>
    BY <1>1 DEF RegistryHook
  <2> QED
    BY <1>1, <2>1, RegistryRecord DEF CoinbaseHands, CoinbaseTypes, HasInHand
<1>2. CASE LedgerHook
  <2>1. /\ call' = [call EXCEPT !.stage = "return"] /\ call.stage = "ledger"
        /\ UNCHANGED <<rec, resting, pc, req, timers, flight>>
    BY <1>2 DEF LedgerHook, Then, Stage
  <2>2. call' \in Calls /\ call'.id = call.id
    BY <1>0, <2>1 DEF Calls
  <2> QED
    BY <2>1, <2>2 DEF CoinbaseHands, CoinbaseTypes, HasInHand
<1>3. CASE ReturnFromBook
  <2>1. /\ call' = NoCall /\ UNCHANGED <<rec, resting, req, timers, flight>>
        /\ \/ pc' = pc
           \/ pc[call.by] = "placing" /\ pc' = [pc EXCEPT ![call.by] = "report"]
           \/ pc[call.by] = "cancelling" /\ pc' = [pc EXCEPT ![call.by] = "mark"]
    BY <1>3 DEF ReturnFromBook, Goto
  <2>2. pc' \in [Threads -> {"idle", "record"} \cup Knowing]
        /\ \A t \in Threads : pc'[t] = pc[t] \/ (pc'[t] \in {"report", "mark"} /\ pc[t] \in Knowing)
    BY <2>1 DEF CoinbaseHands, CoinbaseTypes, Knowing, InBook
  <2> QED
    BY <1>0, <2>1, <2>2 DEF CoinbaseHands, CoinbaseTypes, HasInHand, NoCall
<1>4. ASSUME NEW delayed \in Delays, EmitHook(delayed) PROVE CoinbaseHands'
  <2>1. /\ call' = [call EXCEPT !.stage = "ledger"] /\ call.stage = "emit"
        /\ UNCHANGED <<rec, resting, pc, req>>
    BY <1>4 DEF EmitHook, Then, Stage
  <2>2. call' \in Calls /\ call'.id = call.id /\ call.id \in DOMAIN rec
    BY <1>0, <2>1 DEF Calls, CoinbaseHands
  <2>3. State(call.id) \in Reports
    BY <2>2, StateReports DEF CoinbaseHands
  <2>4. timers' \subseteq Reports /\ flight' \in Seq(UserFrames)
    <3>1. CASE Stamp("hook", State(call.id)) /\ UNCHANGED timers
      BY <2>3, <3>1, StampAdds DEF CoinbaseHands, CoinbaseTypes
    <3>2. CASE timers' = timers \cup {State(call.id)} /\ UNCHANGED flight
      BY <2>3, <3>2 DEF CoinbaseHands, CoinbaseTypes
    <3> QED
      BY <1>4, <3>1, <3>2 DEF EmitHook
  <2> QED
    BY <2>1, <2>2, <2>4 DEF CoinbaseHands, CoinbaseTypes, HasInHand
<1> QED
  BY <1>1, <1>2, <1>3, <1>4

\* So do the frames on their way.
LEMMA FrameHands ==
    ASSUME CoinbaseHands,
           \/ \E t \in Threads : EmitUser(t)
           \/ \E state \in timers : TimerFires(state)
           \/ \E i \in DOMAIN flight : TrySend(i)
    PROVE  CoinbaseHands'
<1>1. UNCHANGED <<rec, resting, call>>
  BY DEF EmitUser, TimerFires, TrySend
<1>2. ASSUME NEW t \in Threads, EmitUser(t) PROVE CoinbaseHands'
  <2>1. req[t] \in Reports /\ Stamp("handler", req[t]) /\ timers' = timers
    BY <1>2 DEF EmitUser, Finish, Goto, CoinbaseHands, HasInHand
  <2>2. flight' \in Seq(UserFrames)
    BY <2>1, StampAdds DEF CoinbaseHands, CoinbaseTypes
  <2>3. pc' = [pc EXCEPT ![t] = "idle"] /\ req' = [req EXCEPT ![t] = [id |-> 0]]
    BY <1>2 DEF EmitUser, Finish, Goto
  <2>4. "idle" \notin Knowing
    BY DEF Knowing, InBook
  <2>5. /\ pc' \in [Threads -> {"idle", "record"} \cup Knowing]
        /\ DOMAIN req' = Threads
        /\ \A u \in Threads : HasInHand(u)'
    BY <1>1, <2>3, <2>4, HandMoves
  <2> QED
    BY <1>1, <2>1, <2>2, <2>5 DEF CoinbaseHands, CoinbaseTypes
<1>3. ASSUME NEW state \in timers, TimerFires(state) PROVE CoinbaseHands'
  <2>1. state \in Reports /\ Stamp("timer", state) /\ timers' \subseteq timers
        /\ UNCHANGED <<pc, req>>
    BY <1>3 DEF TimerFires, CoinbaseHands, CoinbaseTypes
  <2>2. flight' \in Seq(UserFrames)
    BY <2>1, StampAdds DEF CoinbaseHands, CoinbaseTypes
  <2> QED
    BY <1>1, <2>1, <2>2 DEF CoinbaseHands, CoinbaseTypes, HasInHand
<1>4. ASSUME NEW i \in DOMAIN flight, TrySend(i) PROVE CoinbaseHands'
  <2>1. flight' = RemoveAt(flight, i) /\ UNCHANGED <<pc, req, timers>>
    BY <1>4 DEF TrySend
  <2>2. flight' \in Seq(UserFrames)
    BY <2>1, TrySendTakes DEF CoinbaseHands, CoinbaseTypes
  <2> QED
    BY <1>1, <2>1, <2>2 DEF CoinbaseHands, CoinbaseTypes, HasInHand
<1> QED
  BY <1>2, <1>3, <1>4

\* Every step of the edge keeps what is in hand well formed.
LEMMA HandsStep == CoinbaseHands /\ [CoinbaseNext]_coinbaseVars => CoinbaseHands'
<1> SUFFICES ASSUME CoinbaseHands, [CoinbaseNext]_coinbaseVars PROVE CoinbaseHands'
  OBVIOUS
<1>1. CASE UNCHANGED coinbaseVars
  BY <1>1 DEF coinbaseVars, CoinbaseHands, CoinbaseTypes, HasInHand
<1>2. CASE CoinbaseNext
  BY <1>2, QuietHands, RecordHands, CallHands, HookHands, FrameHands DEF CoinbaseNext
<1> QED
  BY <1>1, <1>2

Held == InBook \cup {"place", "mark"}

\* A step that sends no handler to the book or back from it keeps the control,
\* if the call in the book at most goes on and no cancelled order reopens.
LEMMA ControlLeaves ==
    ASSUME CoinbaseHands, CoinbaseControl,
           \A u \in Threads : pc'[u] \in Held => pc'[u] = pc[u] /\ req'[u] = req[u],
           DOMAIN resting' \subseteq DOMAIN resting,
           \A u \in Threads : pc[u] \in {"cancelling", "mark"} /\ rec[req[u].id].status \in Marks
              => rec'[req[u].id].status \in Marks,
           \/ call' = call
           \/ call.stage = "free"
           \/ /\ call'.by = call.by /\ call'.id = call.id /\ call'.vol = call.vol
              /\ call'.stage \notin {"free", "registry"}
              /\ call.stage = "registry" /\ call.vol = 0 => rec'[call.id].status \in Marks
    PROVE  CoinbaseControl'
<1> SUFFICES ASSUME NEW t \in Threads PROVE Fresh(t)' /\ Calling(t)'
  BY DEF CoinbaseControl
<1>1. Fresh(t) /\ Calling(t)
  BY DEF CoinbaseControl
<1>2. Fresh(t)'
  BY <1>1 DEF Fresh, Held
<1>3. CASE pc'[t] \notin Held
  BY <1>2, <1>3 DEF Calling, Held, InBook
<1>4. CASE pc'[t] \in Held
  <2>1. pc'[t] = pc[t] /\ req'[t] = req[t]
    BY <1>4
  <2>2. CASE pc[t] = "mark"
    BY <1>2, <1>1, <2>1, <2>2 DEF Calling, InBook
  <2>3. CASE pc[t] = "placing"
    BY <1>2, <1>1, <2>1, <2>3 DEF Calling, InBook
  <2>4. CASE pc[t] = "cancelling"
    <3>1. /\ call.by = t /\ call.id = req[t].id /\ call.vol = 0 /\ call.stage # "free"
          /\ call.stage # "registry" => rec[req[t].id].status \in Marks
      BY <1>1, <2>4 DEF Calling, InBook
    <3>2. CASE call' = call
      BY <1>2, <2>1, <2>4, <3>1, <3>2 DEF Calling, InBook
    <3>3. CASE call' # call
      BY <1>2, <2>1, <2>4, <3>1, <3>3 DEF Calling, InBook
    <3> QED
      BY <3>2, <3>3
  <2>5. CASE pc[t] = "place"
    BY <1>2, <2>1, <2>5 DEF Calling, InBook
  <2> QED
    BY <1>2, <1>4, <2>1, <2>2, <2>3, <2>4, <2>5 DEF Held, InBook
<1> QED
  BY <1>3, <1>4

\* A new order is fresh: nobody can have its id in hand.
LEMMA RecordControl ==
    ASSUME CoinbaseHands, CoinbaseControl, NEW t \in Threads, Record(t)
    PROVE  CoinbaseControl'
<1>1. PICK n \in Nat : rec \in [1..n -> OrderRecs] /\ NextId = n + 1
  BY NewIdIsNext DEF CoinbaseHands
<1>2. /\ pc[t] = "record" /\ pc' = [pc EXCEPT ![t] = "place"]
      /\ req' = [req EXCEPT ![t] = [id |-> NextId]] /\ call' = call /\ resting' = resting
  BY DEF Record, Goto
<1>3. NextId \notin DOMAIN rec /\ DOMAIN resting \subseteq DOMAIN rec
  BY <1>1 DEF CoinbaseHands, CoinbaseTypes
<1>4. pc'[t] = "place" /\ req'[t] = [id |-> NextId] /\ req'[t].id = NextId
  BY <1>2 DEF CoinbaseHands, CoinbaseTypes
<1>5. \A u \in Threads \ {t} : pc'[u] = pc[u] /\ req'[u] = req[u]
  BY <1>2 DEF CoinbaseHands, CoinbaseTypes
<1>6. \A u \in Threads : pc[u] \in Held => req[u].id \in DOMAIN rec
  BY DEF CoinbaseHands, HasInHand, Held, Knowing
<1>7. \A id \in DOMAIN rec : rec'[id] = rec[id]
  BY <1>1 DEF Record, Extend
<1>8. Fresh(t)'
  BY <1>2, <1>3, <1>4, <1>5, <1>6 DEF Fresh, Held
<1>9. Calling(t)'
  BY <1>4 DEF Calling, InBook
<1>10. ASSUME NEW u \in Threads, u # t PROVE Fresh(u)' /\ Calling(u)'
  <2>1. Fresh(u) /\ Calling(u) /\ pc'[u] = pc[u] /\ req'[u] = req[u]
    BY <1>5, <1>10 DEF CoinbaseControl
  <2>2. pc[u] = "place" => req[u].id # NextId
    BY <1>3, <1>6 DEF Held
  <2>3. Fresh(u)'
    <3>1. ASSUME pc[u] = "place", NEW v \in Threads \ {u},
                 pc'[v] \in InBook \cup {"place", "mark"}
          PROVE  req'[v].id # req[u].id
      <4>1. CASE v = t
        BY <1>4, <2>2, <3>1, <4>1
      <4>2. CASE v # t
        BY <1>5, <2>1, <3>1, <4>2 DEF Fresh
      <4> QED
        BY <4>1, <4>2
    <3> QED
      BY <1>2, <2>1, <3>1 DEF Fresh
  <2>4. Calling(u)'
    BY <1>2, <1>6, <1>7, <2>1 DEF Calling, Held, InBook
  <2> QED
    BY <2>3, <2>4
<1> QED
  BY <1>8, <1>9, <1>10 DEF CoinbaseControl

\* The book takes one call at a time: a handler enters when nobody is in it.
LEMMA EnterControl ==
    ASSUME CoinbaseHands, CoinbaseControl, NEW t \in Threads,
           CancelInBook(t) \/ \E vol \in 0..MostTraded, price \in 0..MostTraded : PlaceOrder(t, vol, price)
    PROVE  CoinbaseControl'
<1>1. call.stage = "free" /\ UNCHANGED <<rec, req>>
  BY DEF CancelInBook, PlaceOrder, NoCall
<1>2. \A u \in Threads : pc[u] \notin InBook
  BY <1>1 DEF CoinbaseControl, Calling
<1>3. /\ pc[t] \in {"cancel", "place"}
      /\ pc[t] = "cancel" => /\ pc' = [pc EXCEPT ![t] = "cancelling"]
                             /\ req[t].id \in DOMAIN resting
                             /\ DOMAIN resting' \subseteq DOMAIN resting
      /\ pc[t] = "place" => /\ pc' = [pc EXCEPT ![t] = "placing"]
                            /\ DOMAIN resting' \subseteq DOMAIN resting \cup {req[t].id}
  BY DEF CancelInBook, PlaceOrder, Goto, Drop, Extend
<1>4. /\ call'.by = t /\ call'.stage # "free" /\ call'.id = req[t].id
      /\ pc[t] = "cancel" => call'.vol = 0 /\ call'.stage = "registry"
  <2>1. CASE CancelInBook(t)
    BY <2>1 DEF CancelInBook
  <2>2. ASSUME NEW vol \in 0..MostTraded, NEW price \in 0..MostTraded, PlaceOrder(t, vol, price)
        PROVE  /\ call'.by = t /\ call'.stage # "free" /\ call'.id = req[t].id
               /\ pc[t] = "place"
    BY <2>2 DEF PlaceOrder, Goto
  <2> QED
    BY <2>1, <2>2
<1>5. pc'[t] \in InBook /\ (pc'[t] = "cancelling" <=> pc[t] = "cancel")
      /\ \A u \in Threads \ {t} : pc'[u] = pc[u]
  BY <1>3 DEF CoinbaseHands, CoinbaseTypes, InBook
<1>6. Fresh(t)' /\ Calling(t)'
  BY <1>1, <1>4, <1>5 DEF Fresh, Calling, InBook
<1>7. ASSUME NEW u \in Threads, u # t PROVE Fresh(u)' /\ Calling(u)'
  <2>1. Fresh(u) /\ Calling(u) /\ Fresh(t) /\ pc'[u] = pc[u]
    BY <1>5, <1>7 DEF CoinbaseControl
  <2>2. Calling(u)'
    BY <1>1, <1>2, <2>1 DEF Calling, InBook
  <2>3. pc[u] = "place" => req[u].id # req[t].id
    BY <1>3, <1>7, <2>1 DEF Fresh
  <2>4. pc[u] = "place" => req[u].id \notin DOMAIN resting'
    BY <1>3, <2>1, <2>3 DEF Fresh
  <2>5. Fresh(u)'
    <3>1. ASSUME pc[u] = "place", NEW v \in Threads \ {u},
                 pc'[v] \in InBook \cup {"place", "mark"}
          PROVE  req[v].id # req[u].id
      BY <1>5, <2>1, <2>3, <3>1 DEF Fresh
    <3> QED
      BY <1>1, <2>1, <2>4, <3>1 DEF Fresh
  <2> QED
    BY <2>2, <2>5
<1> QED
  BY <1>6, <1>7 DEF CoinbaseControl

\* It leaves the book when its hooks have run.
LEMMA ReturnControl ==
    ASSUME CoinbaseHands, CoinbaseControl, ReturnFromBook
    PROVE  CoinbaseControl'
<1>1. /\ call.stage = "return" /\ call' = NoCall /\ UNCHANGED <<rec, resting, req>>
      /\ call.by \notin Threads => pc' = pc
      /\ call.by \in Threads =>
            \/ pc[call.by] = "placing" /\ pc' = [pc EXCEPT ![call.by] = "report"]
            \/ pc[call.by] = "cancelling" /\ pc' = [pc EXCEPT ![call.by] = "mark"]
  BY DEF ReturnFromBook, Goto, Stage
<1>2. \A u \in Threads : pc[u] \in InBook => u = call.by
  BY DEF CoinbaseControl, Calling
<1>3. \A u \in Threads :
         \/ pc'[u] = pc[u] /\ pc[u] \notin InBook
         \/ pc[u] = "placing" /\ pc'[u] = "report"
         \/ pc[u] = "cancelling" /\ pc'[u] = "mark"
  BY <1>1, <1>2 DEF CoinbaseHands, CoinbaseTypes, InBook
<1>4. ASSUME NEW u \in Threads PROVE Fresh(u)' /\ Calling(u)'
  <2>1. Fresh(u) /\ Calling(u)
    BY DEF CoinbaseControl
  <2>2. Calling(u)'
    BY <1>1, <1>3, <2>1 DEF Calling, InBook
  <2>3. Fresh(u)'
    BY <1>1, <1>3, <2>1 DEF Fresh, InBook
  <2> QED
    BY <2>2, <2>3
<1> QED
  BY <1>4 DEF CoinbaseControl

\* What each of the other steps leaves alone.
LEMMA ControlStep ==
    ASSUME CoinbaseHands, CoinbaseControl, [CoinbaseNext]_coinbaseVars
    PROVE  CoinbaseControl'
<1>0. pc \in [Threads -> {"idle", "record"} \cup Knowing] /\ DOMAIN req = Threads
      /\ call \in Calls
  BY DEF CoinbaseHands, CoinbaseTypes
<1>1. ASSUME NEW t \in Threads,
             \/ \E o \in ClientOrders : CreateOrder(t, o)
             \/ GiveBack(t) \/ \E id \in Ids : CancelOne(t, id)
             \/ CancelMisses(t) \/ ReadRecord(t) \/ EmitUser(t)
      PROVE  CoinbaseControl'
  <2>1. UNCHANGED <<rec, resting, call>>
    BY <1>1 DEF CreateOrder, GiveBack, CancelOne, CancelMisses, ReadRecord, EmitUser
  <2>2. /\ \E to \in {"idle", "record", "cancel", "stamp"} : pc' = [pc EXCEPT ![t] = to]
        /\ \E h : req' = [req EXCEPT ![t] = h]
    BY <1>1 DEF CreateOrder, GiveBack, CancelOne, CancelMisses, ReadRecord, EmitUser, Finish, Goto
  <2>3. \A u \in Threads : pc'[u] \in Held => pc'[u] = pc[u] /\ req'[u] = req[u]
    BY <1>0, <2>2 DEF Held, InBook
  <2> QED
    BY <2>1, <2>3, ControlLeaves
<1>2. ASSUME NEW t \in Threads, RemoveRecord(t) PROVE CoinbaseControl'
  <2>1. /\ pc[t] = "place" /\ pc' = [pc EXCEPT ![t] = "undo"]
        /\ UNCHANGED <<req, resting, call>>
        /\ rec' = [rec EXCEPT ![req[t].id].status = "REMOVED"]
    BY <1>2 DEF RemoveRecord, Goto
  <2>2. \A u \in Threads : pc'[u] \in Held => pc'[u] = pc[u] /\ req'[u] = req[u]
    BY <1>0, <2>1 DEF Held, InBook
  <2>3. ASSUME NEW u \in Threads, pc[u] \in {"cancelling", "mark"}
        PROVE  rec'[req[u].id] = rec[req[u].id]
    <3>1. u # t /\ Fresh(t)
      BY <2>1, <2>3 DEF CoinbaseControl
    <3>2. req[u].id # req[t].id
      BY <2>1, <2>3, <3>1 DEF Fresh, InBook
    <3>3. req[u].id \in DOMAIN rec
      BY <2>3 DEF CoinbaseHands, HasInHand, Knowing, InBook
    <3> QED
      BY <2>1, <3>2, <3>3
  <2> QED
    BY <2>1, <2>2, <2>3, ControlLeaves
<1>3. ASSUME NEW t \in Threads, MarkCancelled(t) PROVE CoinbaseControl'
  <2>1. /\ pc[t] = "mark" /\ pc' = [pc EXCEPT ![t] = "idle"]
        /\ req' = [req EXCEPT ![t] = [id |-> 0]]
        /\ UNCHANGED <<resting, call>> /\ Calling(t)
    BY <1>3 DEF MarkCancelled, Finish, Goto, CoinbaseControl
  <2>2. \A u \in Threads : pc'[u] \in Held => pc'[u] = pc[u] /\ req'[u] = req[u]
    BY <1>0, <2>1 DEF Held, InBook
  <2>3. \A id \in DOMAIN rec : rec[id].status \in Marks => rec'[id].status \in Marks
    <3>1. \A id \in DOMAIN rec : rec[id] \in OrderRecs
      BY DEF CoinbaseHands, CoinbaseTypes
    <3>2. PICK s \in Marks : rec' = [rec EXCEPT ![req[t].id].status = s]
      <4>1. rec' = [rec EXCEPT ![req[t].id].status = "CANCELLED"]
            \/ rec' = [rec EXCEPT ![req[t].id].status = "FILLED"]
        BY <1>3 DEF MarkCancelled
      <4> QED
        BY <4>1 DEF Marks
    <3> QED
      BY <3>1, <3>2 DEF OrderRecs
  <2>4. \A u \in Threads : pc[u] \in {"cancelling", "mark"} => req[u].id \in DOMAIN rec
    BY DEF CoinbaseHands, HasInHand, Knowing, InBook
  <2> QED
    BY <2>1, <2>2, <2>3, <2>4, ControlLeaves
<1>4. CASE \E id \in Ids, vol \in 1..MostTraded : TakerHits(id, vol)
  <2>1. call.stage = "free" /\ DOMAIN resting' \subseteq DOMAIN resting
        /\ UNCHANGED <<rec, pc, req>>
    BY <1>4 DEF TakerHits, NoCall, Drop
  <2> QED
    BY <2>1, ControlLeaves
<1>5. CASE RegistryHook
  <2>1. UNCHANGED <<pc, req, resting>>
    BY <1>5 DEF RegistryHook
  <2>2. /\ call'.by = call.by /\ call'.id = call.id /\ call'.vol = call.vol
        /\ call'.stage \notin {"free", "registry"}
        /\ call.vol = 0 => rec'[call.id].status \in Marks
        /\ \A id \in DOMAIN rec : rec[id].status \in Marks => rec'[id].status \in Marks
    BY <1>5, RegistryRecord
  <2>3. \A u \in Threads : pc[u] \in {"cancelling", "mark"} => req[u].id \in DOMAIN rec
    BY DEF CoinbaseHands, HasInHand, Knowing, InBook
  <2> QED
    BY <2>1, <2>2, <2>3, ControlLeaves
<1>6. CASE LedgerHook \/ \E delayed \in Delays : EmitHook(delayed)
  <2>1. /\ UNCHANGED <<rec, pc, req, resting>> /\ call.stage \in {"ledger", "emit"}
        /\ \E stage \in {"return", "ledger"} : call' = [call EXCEPT !.stage = stage]
    BY <1>6 DEF LedgerHook, EmitHook, Then, Stage
  <2>2. /\ call'.by = call.by /\ call'.id = call.id /\ call'.vol = call.vol
        /\ call'.stage \notin {"free", "registry"}
    BY <1>0, <2>1 DEF Calls
  <2> QED
    BY <2>1, <2>2, ControlLeaves
<1>7. CASE \/ \E state \in timers : TimerFires(state)
           \/ \E i \in DOMAIN flight : TrySend(i)
           \/ UNCHANGED coinbaseVars
  <2>1. UNCHANGED <<rec, pc, req, resting, call>>
    BY <1>7 DEF TimerFires, TrySend, coinbaseVars
  <2> QED
    BY <2>1, ControlLeaves
<1> QED
  BY <1>1, <1>2, <1>3, <1>4, <1>5, <1>6, <1>7, RecordControl, EnterControl, ReturnControl
     DEF CoinbaseNext

-----------------------------------------------------------------------------
\* A report that nobody but the connection has yet to handle.
Sent(s) == s \in timers \/ \E i \in DOMAIN flight : flight[i].state = s

\* A step that touches no record keeps what is on its way, if whoever has it in
\* hand keeps it or sends it.
LEMMA SendsKept ==
    ASSUME CoinbaseHands, CoinbaseSends, UNCHANGED <<rec, untold>>,
           \A s : Sent(s) => Sent(s)',
           \/ call.stage \notin {"registry", "emit"} \/ call' = call
           \/ \A s : s = State(call.id) => Sent(s)',
           \A t \in Threads : pc[t] \in {"place", "placing", "report"} =>
               \/ pc'[t] \in {"place", "placing", "report"} /\ req'[t].id = req[t].id
               \/ pc'[t] = "stamp" /\ req'[t] = State(req[t].id),
           \A t \in Threads : pc[t] = "stamp" =>
               \/ pc'[t] = "stamp" /\ req'[t] = req[t]
               \/ \A s : s = req[t] => Sent(s)'
    PROVE  CoinbaseSends'
<1> SUFFICES ASSUME NEW id \in DOMAIN rec, id \in untold, rec[id].status # "REMOVED"
             PROVE  OnItsWay(id)'
  BY DEF CoinbaseSends
<1>1. OnItsWay(id) /\ State(id)' = State(id)
  BY DEF CoinbaseSends, State
<1>2. ASSUME NEW s, s = State(id), Sent(s)' PROVE OnItsWay(id)'
  BY <1>1, <1>2 DEF OnItsWay, Sent
<1>3. CASE \E i \in DOMAIN flight : flight[i].state = State(id)
  BY <1>2, <1>3 DEF Sent
<1>4. CASE State(id) \in timers
  BY <1>2, <1>4 DEF Sent
<1>5. CASE call.id = id /\ call.stage \in {"registry", "emit"}
  <2>1. CASE call' = call
    BY <1>5, <2>1 DEF OnItsWay
  <2>2. CASE call' # call
    BY <1>2, <1>5, <2>2
  <2> QED
    BY <2>1, <2>2
<1>6. ASSUME NEW t \in Threads, pc[t] \in {"place", "placing", "report"}, req[t].id = id
      PROVE  OnItsWay(id)'
  BY <1>1, <1>6 DEF OnItsWay
<1>7. ASSUME NEW t \in Threads, pc[t] = "stamp", req[t] = State(id) PROVE OnItsWay(id)'
  <2>1. CASE pc'[t] = "stamp" /\ req'[t] = req[t]
    BY <1>1, <1>7, <2>1 DEF OnItsWay
  <2>2. CASE \A s : s = req[t] => Sent(s)'
    BY <1>2, <1>7, <2>2
  <2> QED
    BY <1>7, <2>1, <2>2
<1> QED
  BY <1>1, <1>3, <1>4, <1>5, <1>6, <1>7 DEF OnItsWay

\* A report that is stamped joins those that were sent.
LEMMA StampSends ==
    ASSUME CoinbaseHands, NEW owner \in {"hook", "handler", "timer"}, NEW state \in Reports,
           Stamp(owner, state)
    PROVE  /\ Sent(state)'
           /\ \A s : Sent(s) /\ s \notin timers => Sent(s)'
<1>1. /\ \E i \in DOMAIN flight' : flight'[i].state = state
      /\ \A i \in DOMAIN flight : i \in DOMAIN flight' /\ flight'[i] = flight[i]
  BY StampAdds DEF CoinbaseHands, CoinbaseTypes
<1> QED
  BY <1>1 DEF Sent

\* The steps of a handler between its requests and the book.
Prepares(t) ==
    \/ \E o \in ClientOrders : CreateOrder(t, o)
    \/ GiveBack(t) \/ CancelMisses(t)
    \/ \E id \in Ids : CancelOne(t, id)
EntersBook(t) ==
    CancelInBook(t) \/ \E vol \in 0..MostTraded, price \in 0..MostTraded : PlaceOrder(t, vol, price)
TakerComes == \E id \in Ids, vol \in 1..MostTraded : TakerHits(id, vol)

\* The steps that touch no record keep what is on its way.
LEMMA QuietSends ==
    ASSUME CoinbaseHands, CoinbaseControl, CoinbaseSends,
           \/ \E t \in Threads : Prepares(t) \/ ReadRecord(t) \/ EmitUser(t) \/ EntersBook(t)
           \/ TakerComes
           \/ LedgerHook \/ ReturnFromBook
           \/ \E delayed \in Delays : EmitHook(delayed)
           \/ \E state \in timers : TimerFires(state)
           \/ UNCHANGED coinbaseVars
    PROVE  CoinbaseSends'
<1>0. pc \in [Threads -> {"idle", "record"} \cup Knowing] /\ DOMAIN req = Threads
  BY DEF CoinbaseHands, CoinbaseTypes
<1>1. ASSUME NEW t \in Threads, Prepares(t) PROVE CoinbaseSends'
  <2>1. UNCHANGED <<rec, untold, call, timers, flight>>
    BY <1>1 DEF Prepares, CreateOrder, GiveBack, CancelOne, CancelMisses
  <2>2. /\ pc[t] \notin {"place", "placing", "report", "stamp"}
        /\ \E to : pc' = [pc EXCEPT ![t] = to]
        /\ \E h : req' = [req EXCEPT ![t] = h]
    BY <1>1 DEF Prepares, CreateOrder, GiveBack, CancelOne, CancelMisses, Finish, Goto
  <2>3. \A u \in Threads : u # t => pc'[u] = pc[u] /\ req'[u] = req[u]
    BY <1>0, <2>2
  <2>4. \A s : Sent(s) => Sent(s)'
    BY <2>1 DEF Sent
  <2> QED
    BY <2>1, <2>2, <2>3, <2>4, SendsKept
<1>2. ASSUME NEW t \in Threads, ReadRecord(t) PROVE CoinbaseSends'
  <2>1. /\ UNCHANGED <<rec, untold, call, timers, flight>>
        /\ pc[t] = "report" /\ pc' = [pc EXCEPT ![t] = "stamp"]
        /\ req' = [req EXCEPT ![t] = State(req[t].id)]
    BY <1>2 DEF ReadRecord, Goto
  <2>2. /\ pc'[t] = "stamp" /\ req'[t] = State(req[t].id)
        /\ \A u \in Threads : u # t => pc'[u] = pc[u] /\ req'[u] = req[u]
    BY <1>0, <2>1
  <2>3. \A s : Sent(s) => Sent(s)'
    BY <2>1 DEF Sent
  <2> QED
    BY <2>1, <2>2, <2>3, SendsKept
<1>3. ASSUME NEW t \in Threads, EmitUser(t) PROVE CoinbaseSends'
  <2>1. /\ UNCHANGED <<rec, untold, call, timers>> /\ Stamp("handler", req[t])
        /\ pc[t] = "stamp" /\ pc' = [pc EXCEPT ![t] = "idle"]
        /\ req' = [req EXCEPT ![t] = [id |-> 0]]
    BY <1>3 DEF EmitUser, Finish, Goto
  <2>2. \A u \in Threads : u # t => pc'[u] = pc[u] /\ req'[u] = req[u]
    BY <1>0, <2>1
  <2>3. req[t] \in Reports
    BY <2>1 DEF CoinbaseHands, HasInHand
  <2>4. PICK r \in Reports : r = req[t] /\ Stamp("handler", r)
    BY <2>1, <2>3
  <2>5. Sent(r)' /\ \A s : Sent(s) /\ s \notin timers => Sent(s)'
    BY <2>4, StampSends
  <2>6. \A s : Sent(s) => Sent(s)'
    BY <2>1, <2>5 DEF Sent
  <2> QED
    BY <2>1, <2>2, <2>4, <2>5, <2>6, SendsKept
<1>4. CASE (\E t \in Threads : EntersBook(t)) \/ TakerComes
  <2>1. UNCHANGED <<rec, untold, req, timers, flight>> /\ call = NoCall
    BY <1>4 DEF EntersBook, TakerComes, CancelInBook, PlaceOrder, TakerHits
  <2>4. call.stage = "free"
    BY <2>1 DEF NoCall
  <2>2. \A u \in Threads :
           \/ pc'[u] = pc[u]
           \/ pc[u] = "cancel" /\ pc'[u] = "cancelling"
           \/ pc[u] = "place" /\ pc'[u] = "placing"
    BY <1>0, <1>4 DEF EntersBook, TakerComes, CancelInBook, PlaceOrder, TakerHits, Goto
  <2>3. \A s : Sent(s) => Sent(s)'
    BY <2>1 DEF Sent
  <2> QED
    BY <2>1, <2>2, <2>3, <2>4, SendsKept
<1>5. CASE LedgerHook
  <2>1. UNCHANGED <<rec, untold, pc, req, timers, flight>> /\ call.stage = "ledger"
    BY <1>5 DEF LedgerHook, Stage
  <2>3. \A s : Sent(s) => Sent(s)'
    BY <2>1 DEF Sent
  <2> QED
    BY <2>1, <2>3, SendsKept
<1>6. CASE ReturnFromBook
  <2>1. UNCHANGED <<rec, untold, req, timers, flight>> /\ call.stage = "return"
    BY <1>6 DEF ReturnFromBook, Stage
  <2>2. \A u \in Threads :
           \/ pc'[u] = pc[u]
           \/ pc[u] = "cancelling" /\ pc'[u] = "mark"
           \/ pc[u] = "placing" /\ pc'[u] = "report"
    BY <1>0, <1>6 DEF ReturnFromBook, Goto
  <2>3. \A s : Sent(s) => Sent(s)'
    BY <2>1 DEF Sent
  <2> QED
    BY <2>1, <2>2, <2>3, SendsKept
<1>7. ASSUME NEW delayed \in Delays, EmitHook(delayed) PROVE CoinbaseSends'
  <2>1. UNCHANGED <<rec, untold, pc, req>> /\ call.stage = "emit"
    BY <1>7 DEF EmitHook, Stage
  <2>2. call.id \in DOMAIN rec /\ State(call.id) \in Reports
    BY <2>1, StateReports DEF CoinbaseHands
  <2>3. PICK r \in Reports : r = State(call.id)
    BY <2>2
  <2>4. Sent(r)' /\ \A s : Sent(s) => Sent(s)'
    <3>1. CASE Stamp("hook", State(call.id)) /\ UNCHANGED timers
      <4>1. Stamp("hook", r)
        BY <2>3, <3>1
      <4>2. Sent(r)' /\ \A s : Sent(s) /\ s \notin timers => Sent(s)'
        BY <4>1, StampSends
      <4> QED
        BY <3>1, <4>2 DEF Sent
    <3>2. CASE timers' = timers \cup {State(call.id)} /\ UNCHANGED flight
      BY <2>3, <3>2 DEF Sent
    <3> QED
      BY <1>7, <3>1, <3>2 DEF EmitHook
  <2> QED
    BY <2>1, <2>3, <2>4, SendsKept
<1>8. ASSUME NEW state \in timers, TimerFires(state) PROVE CoinbaseSends'
  <2>1. /\ UNCHANGED <<rec, untold, pc, req, call>>
        /\ timers' = timers \ {state} /\ Stamp("timer", state)
    BY <1>8 DEF TimerFires
  <2>2. state \in Reports
    BY DEF CoinbaseHands, CoinbaseTypes
  <2>3. Sent(state)' /\ \A s : Sent(s) /\ s \notin timers => Sent(s)'
    BY <2>1, <2>2, StampSends
  <2>4. \A s : Sent(s) => Sent(s)'
    BY <2>1, <2>3 DEF Sent
  <2> QED
    BY <2>1, <2>4, SendsKept
<1>9. CASE UNCHANGED coinbaseVars
  <2>1. UNCHANGED <<rec, untold, pc, req, call, timers, flight>>
    BY <1>9 DEF coinbaseVars
  <2>2. \A s : Sent(s) => Sent(s)'
    BY <2>1 DEF Sent
  <2> QED
    BY <2>1, <2>2, SendsKept
<1> QED
  BY <1>1, <1>2, <1>3, <1>4, <1>5, <1>6, <1>7, <1>8, <1>9

\* A change of one record leaves what is on its way for the others.
LEMMA OthersOnTheirWay ==
    ASSUME CoinbaseHands, NEW id \in DOMAIN rec, OnItsWay(id),
           rec'[id] = rec[id], UNCHANGED <<timers, flight>>,
           call.stage \in {"registry", "emit"} =>
              call'.id = call.id /\ call'.stage \in {"registry", "emit"},
           \A t \in Threads : pc[t] \in {"place", "placing", "report", "stamp"} /\ req[t].id = id =>
               pc'[t] = pc[t] /\ req'[t] = req[t]
    PROVE  OnItsWay(id)'
<1>1. State(id)' = State(id) /\ State(id).id = id
  BY DEF State
<1>2. ASSUME NEW t \in Threads, pc[t] = "stamp", req[t] = State(id)
      PROVE  pc'[t] = pc[t] /\ req'[t] = req[t]
  BY <1>1, <1>2
<1> QED
  BY <1>1, <1>2 DEF OnItsWay

\* The steps that change a record, and the frame that leaves.
LEMMA RecordSends ==
    ASSUME CoinbaseHands, CoinbaseControl, CoinbaseSends, NEW t \in Threads,
           Record(t) \/ RemoveRecord(t)
    PROVE  CoinbaseSends'
<1>0. pc \in [Threads -> {"idle", "record"} \cup Knowing] /\ DOMAIN req = Threads
  BY DEF CoinbaseHands, CoinbaseTypes
<1>1. CASE Record(t)
  <2>1. PICK n \in Nat : rec \in [1..n -> OrderRecs] /\ NextId = n + 1
    BY NewIdIsNext DEF CoinbaseHands
  <2>2. /\ pc[t] = "record" /\ pc' = [pc EXCEPT ![t] = "place"]
        /\ req' = [req EXCEPT ![t] = [id |-> NextId]] /\ untold' = untold \cup {NextId}
        /\ UNCHANGED <<call, timers, flight>>
        /\ DOMAIN rec' = DOMAIN rec \cup {NextId}
        /\ \A id \in DOMAIN rec : rec'[id] = rec[id]
    BY <1>1, <2>1 DEF Record, Goto, Extend
  <2>3. pc'[t] = "place" /\ req'[t].id = NextId
        /\ \A u \in Threads : u # t => pc'[u] = pc[u] /\ req'[u] = req[u]
    BY <1>0, <2>2
  <2>4. ASSUME NEW id \in DOMAIN rec', id \in untold', rec'[id].status # "REMOVED"
        PROVE  OnItsWay(id)'
    <3>1. CASE id = NextId
      BY <2>3, <3>1 DEF OnItsWay
    <3>2. CASE id # NextId
      <4>1. id \in DOMAIN rec /\ OnItsWay(id) /\ rec'[id] = rec[id]
        BY <2>2, <2>4, <3>2 DEF CoinbaseSends
      <4> QED
        BY <2>2, <2>3, <4>1, OthersOnTheirWay
    <3> QED
      BY <3>1, <3>2
  <2> QED
    BY <2>4 DEF CoinbaseSends
<1>2. CASE RemoveRecord(t)
  <2>1. /\ pc[t] = "place" /\ pc' = [pc EXCEPT ![t] = "undo"]
        /\ UNCHANGED <<req, untold, call, timers, flight>>
        /\ rec' = [rec EXCEPT ![req[t].id].status = "REMOVED"]
    BY <1>2 DEF RemoveRecord, Goto
  <2>2. \A u \in Threads : u # t => pc'[u] = pc[u]
    BY <1>0, <2>1
  <2>3. req[t].id \in DOMAIN rec
    BY <2>1 DEF CoinbaseHands, HasInHand, Knowing
  <2>4. rec[req[t].id] \in OrderRecs
    BY <2>3 DEF CoinbaseHands, CoinbaseTypes
  <2>5. DOMAIN rec' = DOMAIN rec /\ rec'[req[t].id].status = "REMOVED"
        /\ \A id \in DOMAIN rec : id # req[t].id => rec'[id] = rec[id]
    BY <2>1, <2>3, <2>4 DEF OrderRecs, CoinbaseHands, CoinbaseTypes
  <2>6. ASSUME NEW id \in DOMAIN rec', id \in untold', rec'[id].status # "REMOVED"
        PROVE  OnItsWay(id)'
    <3>1. id # req[t].id /\ id \in DOMAIN rec /\ rec'[id] = rec[id]
      BY <2>5, <2>6
    <3>2. OnItsWay(id)
      BY <2>1, <2>6, <3>1 DEF CoinbaseSends
    <3> QED
      BY <2>1, <2>2, <3>1, <3>2, OthersOnTheirWay
  <2> QED
    BY <2>6 DEF CoinbaseSends
<1> QED
  BY <1>1, <1>2

\* A handler marks an order that the hook has already cancelled, or that was
\* filled before: the record stays as it is.
LEMMA MarkSends ==
    ASSUME CoinbaseHands, CoinbaseControl, CoinbaseSends, NEW t \in Threads, MarkCancelled(t)
    PROVE  CoinbaseSends'
<1>0. pc \in [Threads -> {"idle", "record"} \cup Knowing] /\ DOMAIN req = Threads
  BY DEF CoinbaseHands, CoinbaseTypes
<1>1. /\ pc[t] = "mark" /\ pc' = [pc EXCEPT ![t] = "idle"]
      /\ req' = [req EXCEPT ![t] = [id |-> 0]]
      /\ UNCHANGED <<call, timers, flight>>
      /\ rec' = [rec EXCEPT ![req[t].id].status = IF @ = "FILLED" THEN @ ELSE "CANCELLED"]
      /\ untold' = IF rec'[req[t].id] = rec[req[t].id] THEN untold ELSE untold \cup {req[t].id}
  BY DEF MarkCancelled, Finish, Goto, Changed
<1>2. req[t].id \in DOMAIN rec /\ rec[req[t].id].status \in Marks
  BY <1>1 DEF CoinbaseHands, HasInHand, Knowing, CoinbaseControl, Calling
<1>3. PICK n \in Nat : rec \in [1..n -> OrderRecs]
  BY DEF CoinbaseHands, CoinbaseTypes
<1>4. rec' = rec
  <2>1. rec[req[t].id] \in OrderRecs
    BY <1>2, <1>3
  <2>2. rec' = [rec EXCEPT ![req[t].id] = [rec[req[t].id] EXCEPT !.status = rec[req[t].id].status]]
    BY <1>1, <1>2 DEF Marks
  <2>3. [rec[req[t].id] EXCEPT !.status = rec[req[t].id].status] = rec[req[t].id]
    BY <2>1 DEF OrderRecs
  <2>4. rec' = [rec EXCEPT ![req[t].id] = rec[req[t].id]]
    BY <2>2, <2>3
  <2> QED
    BY <1>3, <2>4
<1>5. untold' = untold
  BY <1>1, <1>4
<1>6. \A s : Sent(s) => Sent(s)'
  BY <1>1 DEF Sent
<1>7. \A u \in Threads : u # t => pc'[u] = pc[u] /\ req'[u] = req[u]
  BY <1>0, <1>1
<1> QED
  BY <1>1, <1>4, <1>5, <1>6, <1>7, SendsKept

\* The registry changes a record, and the user channel's hook comes next.
LEMMA RegistrySends ==
    ASSUME CoinbaseHands, CoinbaseSends, RegistryHook
    PROVE  CoinbaseSends'
<1>1. /\ call.id \in DOMAIN rec
      /\ call'.id = call.id /\ call'.stage = "emit"
      /\ DOMAIN rec' = DOMAIN rec
      /\ \A id \in DOMAIN rec : id # call.id => rec'[id] = rec[id]
  BY RegistryRecord
<1>2. /\ UNCHANGED <<pc, req, timers, flight>>
      /\ untold' \subseteq untold \cup {call.id}
  BY DEF RegistryHook, Changed
<1>3. ASSUME NEW id \in DOMAIN rec', id \in untold', rec'[id].status # "REMOVED"
      PROVE  OnItsWay(id)'
  <2>1. CASE id = call.id
    BY <1>1, <2>1 DEF OnItsWay
  <2>2. CASE id # call.id
    <3>1. id \in DOMAIN rec /\ rec'[id] = rec[id] /\ OnItsWay(id)
      BY <1>1, <1>2, <1>3, <2>2 DEF CoinbaseSends
    <3> QED
      BY <1>1, <1>2, <3>1, OthersOnTheirWay
  <2> QED
    BY <2>1, <2>2
<1> QED
  BY <1>3 DEF CoinbaseSends

\* A frame that leaves tells its state; an order it does not tell of is still
\* on its way elsewhere.
LEMMA TrySendSends ==
    ASSUME CoinbaseHands, CoinbaseSends, NEW i \in DOMAIN flight, TrySend(i)
    PROVE  CoinbaseSends'
<1>1. /\ flight' = RemoveAt(flight, i)
      /\ untold' = untold \ {id \in untold : State(id) = flight[i].state}
      /\ UNCHANGED <<rec, pc, req, call, timers>>
  BY DEF TrySend
<1>2. \A j \in DOMAIN flight : j # i => \E k \in DOMAIN flight' : flight'[k] = flight[j]
  BY <1>1, TrySendTakes DEF CoinbaseHands, CoinbaseTypes
<1>3. ASSUME NEW id \in DOMAIN rec, id \in untold', rec[id].status # "REMOVED"
      PROVE  OnItsWay(id)'
  <2>1. OnItsWay(id) /\ State(id) # flight[i].state
    BY <1>1, <1>3 DEF CoinbaseSends
  <2>2. State(id)' = State(id)
    BY <1>1 DEF State
  <2>3. CASE \E j \in DOMAIN flight : flight[j].state = State(id)
    BY <1>2, <2>1, <2>2, <2>3 DEF OnItsWay
  <2>4. CASE ~ \E j \in DOMAIN flight : flight[j].state = State(id)
    BY <1>1, <2>1, <2>2, <2>4 DEF OnItsWay
  <2> QED
    BY <2>3, <2>4
<1> QED
  BY <1>1, <1>3 DEF CoinbaseSends

\* Every step keeps the present state of an order on its way.
LEMMA SendsStep ==
    ASSUME CoinbaseHands, CoinbaseControl, CoinbaseSends, [CoinbaseNext]_coinbaseVars
    PROVE  CoinbaseSends'
<1>1. CASE \E t \in Threads : Prepares(t) \/ ReadRecord(t) \/ EmitUser(t) \/ EntersBook(t)
  BY <1>1, QuietSends
<1>2. CASE TakerComes \/ LedgerHook \/ ReturnFromBook
           \/ (\E delayed \in Delays : EmitHook(delayed))
           \/ (\E state \in timers : TimerFires(state)) \/ UNCHANGED coinbaseVars
  BY <1>2, QuietSends
<1>3. CASE \E t \in Threads : Record(t) \/ RemoveRecord(t) \/ MarkCancelled(t)
  BY <1>3, RecordSends, MarkSends
<1>4. CASE RegistryHook \/ \E i \in DOMAIN flight : TrySend(i)
  BY <1>4, RegistrySends, TrySendSends
<1> QED
  BY <1>1, <1>2, <1>3, <1>4 DEF CoinbaseNext, Prepares, EntersBook, TakerComes

\* The three together are inductive: what is in hand, who has the book, and who
\* will still send what.
CoinbaseInv == CoinbaseHands /\ CoinbaseControl /\ CoinbaseSends

\* Every step of the edge keeps the three together.
LEMMA CoinbaseStep == CoinbaseInv /\ [CoinbaseNext]_coinbaseVars => CoinbaseInv'
  BY HandsStep, ControlStep, SendsStep DEF CoinbaseInv

\* There are no orders at the start.
LEMMA CoinbaseStarts == CoinbaseInit => CoinbaseInv
<1> SUFFICES ASSUME CoinbaseInit PROVE CoinbaseInv
  OBVIOUS
<1>1. DOMAIN rec = {} /\ DOMAIN resting = {} /\ rec \in [1..0 -> OrderRecs]
  BY DEF CoinbaseInit
<1>2. CoinbaseTypes
  <2>1. \E n \in Nat : rec \in [1..n -> OrderRecs]
    BY <1>1
  <2>2. call \in Calls
    BY DEF CoinbaseInit, NoCall, Calls
  <2> QED
    BY <1>1, <2>1, <2>2 DEF CoinbaseInit, CoinbaseTypes
<1>3. \A t \in Threads : pc[t] = "idle"
  BY DEF CoinbaseInit
<1>4. call.stage = "free"
  BY DEF CoinbaseInit, NoCall
<1>5. CoinbaseHands
  BY <1>2, <1>3, <1>4 DEF CoinbaseHands, HasInHand, Knowing, InBook
<1>6. CoinbaseControl
  BY <1>3 DEF CoinbaseControl, Fresh, Calling, InBook
<1>7. CoinbaseSends
  BY <1>1 DEF CoinbaseSends
<1> QED
  BY <1>5, <1>6, <1>7 DEF CoinbaseInv

\* With nothing on its way, only a handler can still owe the client a report.
LEMMA AllIsTold == CoinbaseInv => LatestStateTold
<1> SUFFICES ASSUME CoinbaseInv, flight = <<>>, timers = {}, call = NoCall,
                    NEW id \in DOMAIN rec, id \in untold, rec[id].status # "REMOVED"
             PROVE  \E t \in Threads :
                       pc[t] \in {"place", "report", "stamp"} /\ req[t].id = id
  BY DEF LatestStateTold
<1>1. OnItsWay(id) /\ call.stage = "free" /\ DOMAIN flight = {}
  BY DEF CoinbaseInv, CoinbaseSends, NoCall
<1>2. \A t \in Threads : pc[t] # "placing"
  BY <1>1 DEF CoinbaseInv, CoinbaseControl, Calling, InBook
<1>3. State(id).id = id
  BY DEF State
<1> QED
  BY <1>1, <1>2, <1>3 DEF OnItsWay

\* internal/api/coinbase, userfeed.go: for any number of handlers, orders and
\* delays, a subscriber is told the latest state of every order.
THEOREM CoinbaseTells == CoinbaseSpec => []LatestStateTold
  BY CoinbaseStarts, CoinbaseStep, AllIsTold, PTL DEF CoinbaseSpec

-----------------------------------------------------------------------------
(* The ledger of the Coinbase edge. *)

Ledgers == [Assets -> Holding]

\* What a quantity costs is a natural number, and what two fills cost falls
\* short of the cost of both in one by at most a unit of the last place.
LEMMA MulNat ==
    ASSUME NEW a \in Nat, NEW p \in Nat
    PROVE  Mul(a, p) \in Nat
<1>1. a * p \in Nat
  OBVIOUS
<1>2. ASSUME NEW x \in Nat PROVE x \div Scale \in Nat
  BY LedgerAssumption DEF LedgerAssumption
<1> QED
  BY <1>1, <1>2 DEF Mul

\* A fill of a part and of the rest.
LEMMA MulSplit ==
    ASSUME NEW a \in Nat, NEW b \in Nat, NEW p \in Nat
    PROVE  /\ Mul(a, p) + Mul(b, p) =< Mul(a + b, p)
           /\ Mul(a + b, p) =< Mul(a, p) + Mul(b, p) + 1
<1>1. ASSUME NEW x \in Nat, NEW y \in Nat
      PROVE  /\ (x \div Scale) + (y \div Scale) =< (x + y) \div Scale
             /\ (x + y) \div Scale =< (x \div Scale) + (y \div Scale) + 1
  BY LedgerAssumption DEF LedgerAssumption
<1>2. a * p \in Nat /\ b * p \in Nat /\ (a + b) * p = a * p + b * p
  OBVIOUS
<1> QED
  BY <1>1, <1>2 DEF Mul

\* What each method of the ledger does to the asset it is called for, and to no
\* other: a lock,
LEMMA LockMoves ==
    ASSUME NEW b \in Ledgers, NEW asset \in Assets, NEW amt \in Nat, Lockable(b, asset, amt)
    PROVE  /\ Lock(b, asset, amt) \in Ledgers
           /\ Lock(b, asset, amt)[asset].free = b[asset].free - amt
           /\ Lock(b, asset, amt)[asset].locked = b[asset].locked + amt
           /\ \A other \in Assets \ {asset} : Lock(b, asset, amt)[other] = b[other]
<1>1. /\ b[asset].free \in Nat /\ b[asset].locked \in Nat /\ b[asset] \in Holding
      /\ DOMAIN b = Assets /\ b = [x \in Assets |-> b[x]]
      /\ b[asset] = [free |-> b[asset].free, locked |-> b[asset].locked]
  BY DEF Ledgers, Holding
<1>2. CASE amt =< 0
  BY <1>1, <1>2 DEF Lock, Holding
<1>3. CASE ~(amt =< 0)
  <2>1. amt =< b[asset].free
    BY <1>3 DEF Lockable
  <2>2. [free |-> b[asset].free - amt, locked |-> b[asset].locked + amt] \in Holding
    BY <1>1, <2>1 DEF Holding
  <2>3. Lock(b, asset, amt)[asset]
         = [free |-> b[asset].free - amt, locked |-> b[asset].locked + amt]
    BY <1>1, <1>3 DEF Lock, Holding
  <2>4. Lock(b, asset, amt) = [b EXCEPT ![asset] =
           [free |-> b[asset].free - amt, locked |-> b[asset].locked + amt]]
    BY <1>1, <1>3, <2>3 DEF Lock
  <2> QED
    BY <2>2, <2>3, <2>4 DEF Ledgers
<1> QED
  BY <1>2, <1>3

\* an unlock,
LEMMA UnlockMoves ==
    ASSUME NEW b \in Ledgers, NEW asset \in Assets, NEW amt \in Nat, amt =< b[asset].locked
    PROVE  /\ Unlock(b, asset, amt) \in Ledgers
           /\ Unlock(b, asset, amt)[asset].free = b[asset].free + amt
           /\ Unlock(b, asset, amt)[asset].locked = b[asset].locked - amt
           /\ \A other \in Assets \ {asset} : Unlock(b, asset, amt)[other] = b[other]
<1>1. /\ b[asset].free \in Nat /\ b[asset].locked \in Nat /\ b[asset] \in Holding
      /\ DOMAIN b = Assets /\ b = [x \in Assets |-> b[x]]
      /\ b[asset] = [free |-> b[asset].free, locked |-> b[asset].locked]
  BY DEF Ledgers, Holding
<1>2. CASE amt =< 0
  BY <1>1, <1>2 DEF Unlock, Holding
<1>3. CASE ~(amt =< 0)
  <2>1. AtMost(amt, b[asset].locked) = amt
    BY <1>1 DEF AtMost
  <2>2. [free |-> b[asset].free + amt, locked |-> b[asset].locked - amt] \in Holding
    BY <1>1 DEF Holding
  <2>3. Unlock(b, asset, amt)[asset]
         = [free |-> b[asset].free + amt, locked |-> b[asset].locked - amt]
    BY <1>1, <1>3, <2>1 DEF Unlock, Holding
  <2>4. Unlock(b, asset, amt) = [b EXCEPT ![asset] =
           [free |-> b[asset].free + amt, locked |-> b[asset].locked - amt]]
    BY <1>1, <1>3, <2>1, <2>3 DEF Unlock
  <2> QED
    BY <2>2, <2>3, <2>4 DEF Ledgers
<1> QED
  BY <1>2, <1>3

\* a credit,
LEMMA CreditAdds ==
    ASSUME NEW b \in Ledgers, NEW asset \in Assets, NEW amt \in Nat
    PROVE  /\ Credit(b, asset, amt) \in Ledgers
           /\ Credit(b, asset, amt)[asset].free = b[asset].free + amt
           /\ Credit(b, asset, amt)[asset].locked = b[asset].locked
           /\ \A other \in Assets \ {asset} : Credit(b, asset, amt)[other] = b[other]
<1>1. /\ b[asset].free \in Nat /\ b[asset].locked \in Nat /\ b[asset] \in Holding
      /\ DOMAIN b = Assets /\ b = [x \in Assets |-> b[x]]
      /\ b[asset] = [free |-> b[asset].free, locked |-> b[asset].locked]
  BY DEF Ledgers, Holding
<1>2. CASE amt =< 0
  BY <1>1, <1>2 DEF Credit, Holding
<1>3. CASE ~(amt =< 0)
  <2>1. [free |-> b[asset].free + amt, locked |-> b[asset].locked] \in Holding
    BY <1>1 DEF Holding
  <2>2. Credit(b, asset, amt)[asset] = [free |-> b[asset].free + amt, locked |-> b[asset].locked]
    BY <1>1, <1>3 DEF Credit, Holding
  <2>3. Credit(b, asset, amt) = [b EXCEPT ![asset] =
           [free |-> b[asset].free + amt, locked |-> b[asset].locked]]
    BY <1>1, <1>3, <2>2 DEF Credit
  <2> QED
    BY <2>1, <2>2, <2>3 DEF Ledgers
<1> QED
  BY <1>2, <1>3

\* and a burn of what is free.
LEMMA BurnTakes ==
    ASSUME NEW b \in Ledgers, NEW asset \in Assets, NEW amt \in Nat
    PROVE  /\ Burn(b, asset, amt) \in Ledgers
           /\ Burn(b, asset, amt)[asset].free = b[asset].free - AtMost(amt, b[asset].free)
           /\ Burn(b, asset, amt)[asset].locked = b[asset].locked
           /\ \A other \in Assets \ {asset} : Burn(b, asset, amt)[other] = b[other]
<1>1. /\ b[asset].free \in Nat /\ b[asset].locked \in Nat /\ b[asset] \in Holding
      /\ DOMAIN b = Assets /\ b = [x \in Assets |-> b[x]]
      /\ b[asset] = [free |-> b[asset].free, locked |-> b[asset].locked]
  BY DEF Ledgers, Holding
<1>2. CASE amt =< 0
  <2>1. AtMost(amt, b[asset].free) = 0
    BY <1>1, <1>2 DEF AtMost
  <2> QED
    BY <1>1, <1>2, <2>1 DEF Burn, Holding
<1>3. CASE ~(amt =< 0)
  <2>1. b[asset].free - AtMost(amt, b[asset].free) \in Nat
    BY <1>1 DEF AtMost
  <2>2. [free |-> b[asset].free - AtMost(amt, b[asset].free), locked |-> b[asset].locked] \in Holding
    BY <1>1, <2>1 DEF Holding
  <2>3. Burn(b, asset, amt)[asset]
         = [free |-> b[asset].free - AtMost(amt, b[asset].free), locked |-> b[asset].locked]
    BY <1>1, <1>3 DEF Burn, Holding
  <2>4. Burn(b, asset, amt) = [b EXCEPT ![asset] =
           [free |-> b[asset].free - AtMost(amt, b[asset].free), locked |-> b[asset].locked]]
    BY <1>1, <1>3, <2>3 DEF Burn
  <2> QED
    BY <2>2, <2>3, <2>4 DEF Ledgers
<1> QED
  BY <1>2, <1>3

\* A market order's fill is paid from what is free.
LEMMA MarketSettles ==
    ASSUME NEW b \in Ledgers, NEW vol \in Nat, NEW price \in Nat, NEW isBuy \in BOOLEAN
    PROVE  /\ SettleMarket(b, isBuy, "base", "quote", vol, price) \in Ledgers
           /\ \A asset \in Assets :
                 SettleMarket(b, isBuy, "base", "quote", vol, price)[asset].locked = b[asset].locked
<1>1. "base" \in Assets /\ "quote" \in Assets /\ \A x \in Assets : x = "base" \/ x = "quote"
  BY DEF Assets
<1>2. /\ b["base"].free \in Nat /\ b["quote"].free \in Nat
  BY <1>1 DEF Ledgers, Holding
<1>3. PICK cost : cost = Mul(vol, price)
  OBVIOUS
<1>4. PICK pay : pay = AtMost(cost, b["quote"].free)
  OBVIOUS
<1>5. PICK sold : sold = AtMost(vol, b["base"].free)
  OBVIOUS
<1>6. cost \in Nat /\ pay \in Nat /\ sold \in Nat /\ Mul(vol, pay) \in Nat /\ Mul(sold, price) \in Nat
  <2>1. cost \in Nat
    BY <1>3, MulNat
  <2>2. pay \in Nat /\ sold \in Nat
    BY <1>2, <1>4, <1>5, <2>1 DEF AtMost
  <2> QED
    BY <2>1, <2>2, MulNat
<1>7. CASE isBuy
  <2>1. PICK got : got = IF pay < cost /\ cost > 0 THEN Div(Mul(vol, pay), cost) ELSE vol
    OBVIOUS
  <2>2. got \in Nat
    <3>1. ASSUME NEW m \in Nat, cost > 0 PROVE Div(m, cost) \in Nat
      <4>1. m * Scale \in Nat
        BY LedgerAssumption DEF LedgerAssumption
      <4>2. ASSUME NEW n \in Nat PROVE n \div cost \in Nat
        BY <1>6, <3>1
      <4> QED
        BY <4>1, <4>2 DEF Div
    <3> QED
      BY <1>6, <2>1, <3>1
  <2>3. PICK c : c = Burn(b, "quote", pay)
    OBVIOUS
  <2>4. /\ c \in Ledgers /\ c["quote"].locked = b["quote"].locked
        /\ \A x \in Assets \ {"quote"} : c[x] = b[x]
    BY <1>1, <1>6, <2>3, BurnTakes
  <2>5. /\ Credit(c, "base", got) \in Ledgers
        /\ Credit(c, "base", got)["base"].locked = c["base"].locked
        /\ \A x \in Assets \ {"base"} : Credit(c, "base", got)[x] = c[x]
    BY <1>1, <2>2, <2>4, CreditAdds
  <2>6. SettleMarket(b, isBuy, "base", "quote", vol, price) = Credit(c, "base", got)
    BY <1>3, <1>4, <1>7, <2>1, <2>3 DEF SettleMarket
  <2> QED
    BY <1>1, <2>4, <2>5, <2>6
<1>8. CASE ~isBuy
  <2>1. PICK c : c = Burn(b, "base", sold)
    OBVIOUS
  <2>2. /\ c \in Ledgers /\ c["base"].locked = b["base"].locked
        /\ \A x \in Assets \ {"base"} : c[x] = b[x]
    BY <1>1, <1>6, <2>1, BurnTakes
  <2>3. /\ Credit(c, "quote", Mul(sold, price)) \in Ledgers
        /\ Credit(c, "quote", Mul(sold, price))["quote"].locked = c["quote"].locked
        /\ \A x \in Assets \ {"quote"} : Credit(c, "quote", Mul(sold, price))[x] = c[x]
    BY <1>1, <1>6, <2>2, CreditAdds
  <2>4. SettleMarket(b, isBuy, "base", "quote", vol, price) = Credit(c, "quote", Mul(sold, price))
    BY <1>5, <1>8, <2>1 DEF SettleMarket
  <2> QED
    BY <1>1, <2>2, <2>3, <2>4
<1> QED
  BY <1>7, <1>8

\* A limit order's fill takes from the reservation what was reserved for it,
\* whatever it costs.
LEMMA LimitSettles ==
    ASSUME NEW b \in Ledgers, NEW vol \in Nat, NEW price \in Nat, NEW limit \in Nat,
           NEW isBuy \in BOOLEAN,
           NEW asset \in Assets, asset = (IF isBuy THEN "quote" ELSE "base"),
           NEW kept \in Nat, kept = (IF isBuy THEN Mul(vol, limit) ELSE vol),
           kept =< b[asset].locked,
           NEW new, new = SettleLimit(b, isBuy, "base", "quote", vol, price, limit)
    PROVE  /\ new \in Ledgers
           /\ new[asset].locked = b[asset].locked - kept
           /\ \A x \in Assets \ {asset} : new[x].locked = b[x].locked
<1>0. asset \in Assets
  OBVIOUS
<1>1. "base" \in Assets /\ "quote" \in Assets
  BY DEF Assets
<1>2. PICK cost : cost = Mul(vol, price)
  OBVIOUS
<1>3. cost \in Nat
  BY <1>2, MulNat
<1>4. PICK c : c = Unlock(b, asset, kept)
  OBVIOUS
<1>5. /\ c \in Ledgers /\ c[asset].locked = b[asset].locked - kept
      /\ \A x \in Assets \ {asset} : c[x] = b[x]
  BY <1>4, UnlockMoves
<1>6. PICK paid : paid = (IF isBuy THEN cost ELSE vol)
  OBVIOUS
<1>7. PICK d : d = Burn(c, asset, paid)
  OBVIOUS
<1>8. /\ d \in Ledgers /\ d[asset].locked = c[asset].locked
      /\ \A x \in Assets \ {asset} : d[x] = c[x]
  <2>1. paid \in Nat
    BY <1>3, <1>6
  <2>2. c \in Ledgers
    BY <1>5
  <2>3. /\ d \in Ledgers /\ d[asset].locked = c[asset].locked
        /\ \A other \in Assets \ {asset} : d[other] = c[other]
    BY ONLY <1>0, <1>7, <2>1, <2>2, BurnTakes
  <2> QED
    BY <2>3
<1>9. PICK other \in Assets : other = (IF isBuy THEN "base" ELSE "quote")
  BY <1>1
<1>10. PICK got : got = (IF isBuy THEN vol ELSE cost)
  OBVIOUS
<1>11. PICK e : e = Credit(d, other, got)
  OBVIOUS
<1>12. /\ e \in Ledgers /\ e[other].locked = d[other].locked
       /\ \A x \in Assets \ {other} : e[x] = d[x]
  <2>1. got \in Nat
    BY <1>3, <1>10
  <2>2. d \in Ledgers
    BY <1>8
  <2> QED
    BY ONLY <1>9, <1>11, <2>1, <2>2, CreditAdds
<1>13. new = e
  <2>1. CASE isBuy
    BY <1>2, <1>4, <1>6, <1>7, <1>9, <1>10, <1>11, <2>1 DEF SettleLimit
  <2>2. CASE ~isBuy
    BY <1>2, <1>4, <1>6, <1>7, <1>9, <1>10, <1>11, <2>2 DEF SettleLimit
  <2> QED
    BY <2>1, <2>2
<1>14. \A x \in Assets : e[x].locked = d[x].locked
  BY <1>12
<1>15. \A x \in Assets \ {asset} : d[x].locked = b[x].locked
  BY <1>5, <1>8
<1> QED
  BY <1>5, <1>8, <1>12, <1>13, <1>14, <1>15

-----------------------------------------------------------------------------
(* What the Coinbase edge's orders reserve. *)

\* What the call in the book has traded and the registry has not applied.
Due(id) == IF call.id = id /\ call.stage = "registry" THEN call.vol ELSE 0

\* An order's fills never exceed it, and what rests is what they leave.
FillsGood(id) ==
    /\ rec[id].kind = "limit" <=> rec[id].price > 0
    /\ rec[id].filled + Due(id) =< rec[id].size
    /\ id \in DOMAIN resting =>
          /\ resting[id] \in Nat /\ resting[id] > 0
          /\ rec[id].kind = "limit" /\ rec[id].status = "OPEN"
          /\ rec[id].filled + Due(id) + resting[id] = rec[id].size

Entrants == {"place", "undo"}

\* The call in the book is about an order that no placement has in hand: one
\* that trades while it is open, or one that is cancelled.
CallGood ==
    call.stage # "free" =>
        /\ \A t \in Threads : pc[t] \in Entrants => req[t].id # call.id
        /\ call.stage = "registry" =>
              /\ rec[call.id].status = "OPEN"
              /\ call.vol = 0 => call.id \notin DOMAIN resting
        /\ call.stage \in {"emit", "ledger"} =>
              /\ call.vol =< rec[call.id].filled
              /\ rec[call.id].status \in (IF call.vol = 0 THEN {"CANCELLED"} ELSE {"OPEN", "FILLED"})

\* A placement has an order of its own in hand, of which nothing was traded.
PlacementGood(t) ==
    pc[t] \in Entrants =>
        /\ rec[req[t].id].filled = 0 /\ req[t].id \notin DOMAIN resting
        /\ rec[req[t].id].status = (IF pc[t] = "place" THEN "OPEN" ELSE "REMOVED")
        /\ \A u \in Threads \ {t} : pc[u] \in Entrants => req[u].id # req[t].id

OrdersGood ==
    /\ \A id \in DOMAIN rec : FillsGood(id)
    /\ CallGood
    /\ \A t \in Threads : PlacementGood(t)

\* A recorded order and the call in the book have the values of their kinds.
LEMMA RecordedOrder ==
    ASSUME CoinbaseHands
    PROVE  /\ call \in Calls /\ call.vol \in Nat
           /\ \A id \in DOMAIN rec :
                 /\ rec[id] \in OrderRecs /\ id \in Nat
                 /\ rec[id].price \in Nat /\ rec[id].filled \in Nat
                 /\ rec[id].size \in Nat /\ rec[id].size # 0
<1>1. PICK n \in Nat : rec \in [1..n -> OrderRecs]
  BY DEF CoinbaseHands, CoinbaseTypes
<1>2. call \in Calls
  BY DEF CoinbaseHands, CoinbaseTypes
<1> QED
  BY <1>1, <1>2 DEF OrderRecs, Calls

\* A step that neither trades nor records, and at most takes an order out of a
\* placement's hands or the call on from the registry.
LEMMA OrdersKept ==
    ASSUME CoinbaseHands, OrdersGood, UNCHANGED <<rec, resting>>,
           \A u \in Threads : pc'[u] \in Entrants => pc'[u] = pc[u] /\ req'[u] = req[u],
           call'.stage # "free" =>
              call.stage # "free" /\ call'.id = call.id /\ call'.vol = call.vol,
           call'.stage = "registry" <=> call.stage = "registry",
           call'.stage \in {"emit", "ledger"} => call.stage \in {"emit", "ledger"}
    PROVE  OrdersGood'
<1>1. ASSUME NEW id \in DOMAIN rec PROVE FillsGood(id)'
  <2>1. Due(id)' = Due(id)
    BY DEF Due
  <2>2. FillsGood(id)
    BY DEF OrdersGood
  <2> QED
    BY <2>1, <2>2 DEF FillsGood
<1>2. CallGood'
  BY DEF OrdersGood, CallGood
<1>3. ASSUME NEW t \in Threads PROVE PlacementGood(t)'
  <2>1. PlacementGood(t)
    BY DEF OrdersGood
  <2> QED
    BY <2>1 DEF PlacementGood
<1> QED
  BY <1>1, <1>2, <1>3 DEF OrdersGood

\* The recorded order is new to everybody else.
LEMMA RecordGood ==
    ASSUME CoinbaseHands, OrdersGood, NEW t \in Threads, Record(t)
    PROVE  /\ NextId \notin DOMAIN rec /\ DOMAIN rec' = DOMAIN rec \cup {NextId}
           /\ \A id \in DOMAIN rec : rec'[id] = rec[id]
           /\ req[t] \in ClientOrders /\ pc[t] = "record"
           /\ pc' = [pc EXCEPT ![t] = "place"]
           /\ req' = [req EXCEPT ![t] = [id |-> NextId]]
           /\ rec'[NextId] = [side |-> req[t].side, kind |-> req[t].kind,
                              price |-> req[t].price, size |-> req[t].size,
                              filled |-> 0, status |-> "OPEN"]
           /\ OrdersGood'
<1> DEFINE r == [side |-> req[t].side, kind |-> req[t].kind,
                 price |-> req[t].price, size |-> req[t].size,
                 filled |-> 0, status |-> "OPEN"]
<1>1. PICK n \in Nat : rec \in [1..n -> OrderRecs] /\ NextId = n + 1
  BY NewIdIsNext DEF CoinbaseHands
<1>2. PICK new : new = NextId
  OBVIOUS
<1>3. /\ rec' = Extend(rec, new, r) /\ UNCHANGED <<resting, call>>
      /\ pc[t] = "record" /\ pc' = [pc EXCEPT ![t] = "place"]
      /\ req' = [req EXCEPT ![t] = [id |-> new]]
  BY <1>2 DEF Record, Goto
<1>4. req[t] \in ClientOrders
  BY <1>3 DEF CoinbaseHands, HasInHand
<1>5. r.filled = 0 /\ r.status = "OPEN" /\ r.size \in Nat /\ (r.kind = "limit" <=> r.price > 0)
  BY <1>4, CoinbaseAssumption
<1>6. r = [side |-> req[t].side, kind |-> req[t].kind, price |-> req[t].price,
           size |-> req[t].size, filled |-> 0, status |-> "OPEN"]
  OBVIOUS
<1> HIDE DEF r
<1>7. /\ new \notin DOMAIN rec /\ DOMAIN rec' = DOMAIN rec \cup {new} /\ rec'[new] = r
      /\ \A id \in DOMAIN rec : rec'[id] = rec[id]
  BY <1>1, <1>2, <1>3 DEF Extend
<1>8. /\ pc'[t] = "place" /\ req'[t] = [id |-> new] /\ req'[t].id = new
      /\ \A u \in Threads \ {t} : pc'[u] = pc[u] /\ req'[u] = req[u]
  BY <1>3 DEF CoinbaseHands, CoinbaseTypes
<1>9. /\ new \notin DOMAIN resting
      /\ call.stage # "free" => call.id # new
      /\ \A u \in Threads \ {t} : pc[u] \in Entrants => req[u].id \in DOMAIN rec /\ req[u].id # new
  BY <1>7 DEF CoinbaseHands, CoinbaseTypes, HasInHand, Entrants, Knowing
<1>10. ASSUME NEW id \in DOMAIN rec' PROVE FillsGood(id)'
  <2>1. Due(id)' = Due(id)
    BY <1>3 DEF Due
  <2>2. CASE id = new
    <3>1. Due(id) = 0
      BY <1>9, <2>2 DEF Due
    <3> QED
      BY <1>3, <1>5, <1>7, <1>9, <2>1, <2>2, <3>1 DEF FillsGood
  <2>3. CASE id \in DOMAIN rec
    <3>1. FillsGood(id)
      BY <2>3 DEF OrdersGood
    <3> QED
      BY <1>3, <1>7, <2>1, <2>3, <3>1 DEF FillsGood
  <2> QED
    BY <1>7, <2>2, <2>3
<1>11. CallGood'
  <2> SUFFICES ASSUME call.stage # "free" PROVE CallGood'
    BY <1>3 DEF CallGood
  <2>1. call.id # new /\ call.id \in DOMAIN rec /\ rec'[call.id] = rec[call.id]
    BY <1>7, <1>9 DEF CoinbaseHands
  <2>2. ASSUME NEW u \in Threads, pc'[u] \in Entrants PROVE req'[u].id # call.id
    BY <1>8, <2>1, <2>2 DEF OrdersGood, CallGood
  <2> QED
    BY <1>3, <2>1, <2>2 DEF OrdersGood, CallGood
<1>12. ASSUME NEW u \in Threads PROVE PlacementGood(u)'
  <2>1. CASE u = t
    BY <1>3, <1>5, <1>7, <1>8, <1>9, <2>1 DEF PlacementGood
  <2>2. CASE u # t
    <3>1. PlacementGood(u)
      BY DEF OrdersGood
    <3> QED
      BY <1>3, <1>7, <1>8, <1>9, <2>2, <3>1 DEF PlacementGood
  <2> QED
    BY <2>1, <2>2
<1> QED
  BY <1>2, <1>3, <1>4, <1>6, <1>7, <1>10, <1>11, <1>12 DEF OrdersGood

\* A removed record stays what its placement has in hand.
LEMMA RemoveGood ==
    ASSUME CoinbaseHands, OrdersGood, NEW t \in Threads, RemoveRecord(t)
    PROVE  /\ req[t].id \in DOMAIN rec /\ DOMAIN rec' = DOMAIN rec
           /\ \A id \in DOMAIN rec : id # req[t].id => rec'[id] = rec[id]
           /\ rec[req[t].id].status = "OPEN"
           /\ rec'[req[t].id] = [rec[req[t].id] EXCEPT !.status = "REMOVED"]
           /\ pc[t] = "place" /\ pc'[t] = "undo" /\ req' = req
           /\ \A u \in Threads \ {t} : pc'[u] = pc[u]
           /\ OrdersGood'
<1>1. PICK it : it = req[t].id
  OBVIOUS
<1>2. /\ pc[t] = "place" /\ pc'[t] = "undo" /\ \A u \in Threads \ {t} : pc'[u] = pc[u]
      /\ rec' = [rec EXCEPT ![it].status = "REMOVED"] /\ UNCHANGED <<resting, req, call>>
  BY <1>1 DEF RemoveRecord, Goto, CoinbaseHands, CoinbaseTypes
<1>3. it \in DOMAIN rec /\ rec[it] \in OrderRecs
  BY <1>1, <1>2, RecordedOrder DEF CoinbaseHands, HasInHand, Knowing
<1>4. /\ DOMAIN rec' = DOMAIN rec /\ rec'[it] = [rec[it] EXCEPT !.status = "REMOVED"]
      /\ \A id \in DOMAIN rec : id # it => rec'[id] = rec[id]
  BY <1>2, <1>3
<1>5. /\ rec'[it].status = "REMOVED" /\ rec'[it].kind = rec[it].kind /\ rec'[it].price = rec[it].price
      /\ rec'[it].size = rec[it].size /\ rec'[it].filled = rec[it].filled
  BY <1>3, <1>4 DEF OrderRecs
<1>6. /\ it \notin DOMAIN resting /\ rec[it].filled = 0 /\ rec[it].status = "OPEN"
      /\ \A u \in Threads \ {t} : pc[u] \in Entrants => req[u].id # it
  BY <1>1, <1>2 DEF OrdersGood, PlacementGood, Entrants
<1>7. call.stage # "free" => call.id # it /\ call.id \in DOMAIN rec
  BY <1>1, <1>2 DEF OrdersGood, CallGood, Entrants, CoinbaseHands
<1>8. ASSUME NEW id \in DOMAIN rec PROVE FillsGood(id)'
  <2>1. Due(id)' = Due(id) /\ FillsGood(id)
    BY <1>2 DEF Due, OrdersGood
  <2>2. rec'[id].kind = rec[id].kind /\ rec'[id].price = rec[id].price
        /\ rec'[id].size = rec[id].size /\ rec'[id].filled = rec[id].filled
        /\ (id # it => rec'[id].status = rec[id].status)
    BY <1>4, <1>5
  <2> QED
    BY <1>2, <1>6, <2>1, <2>2 DEF FillsGood
<1>9. CallGood'
  <2> SUFFICES ASSUME call.stage # "free" PROVE CallGood'
    BY <1>2 DEF CallGood
  <2>1. call.id # it /\ call.id \in DOMAIN rec /\ rec'[call.id] = rec[call.id]
    BY <1>4, <1>7
  <2>2. ASSUME NEW u \in Threads, pc'[u] \in Entrants PROVE req'[u].id # call.id
    BY <1>1, <1>2, <2>1, <2>2 DEF OrdersGood, CallGood
  <2> QED
    BY <1>2, <2>1, <2>2 DEF OrdersGood, CallGood
<1>10. ASSUME NEW u \in Threads PROVE PlacementGood(u)'
  <2>1. CASE u = t
    BY <1>1, <1>2, <1>5, <1>6, <2>1 DEF PlacementGood
  <2>2. CASE u # t
    <3> SUFFICES ASSUME pc[u] \in Entrants PROVE PlacementGood(u)'
      BY <1>2, <2>2 DEF PlacementGood
    <3>1. req[u].id # it /\ req[u].id \in DOMAIN rec
      BY <1>6, <2>2 DEF CoinbaseHands, HasInHand, Entrants, Knowing
    <3>2. rec'[req[u].id] = rec[req[u].id] /\ PlacementGood(u)
      BY <1>4, <3>1 DEF OrdersGood
    <3>3. \A v \in Threads \ {u} : pc'[v] \in Entrants => req[v].id # req[u].id
      BY <1>1, <1>2, <3>1, <3>2 DEF PlacementGood
    <3> QED
      BY <1>2, <2>2, <3>2, <3>3 DEF PlacementGood
  <2> QED
    BY <2>1, <2>2
<1> QED
  BY <1>1, <1>2, <1>3, <1>4, <1>6, <1>8, <1>9, <1>10 DEF OrdersGood

\* A placement hands its order to the book, which trades some and keeps the rest.
LEMMA PlaceGood ==
    ASSUME CoinbaseHands, OrdersGood, NEW t \in Threads,
           NEW vol \in 0..MostTraded, NEW price \in 0..MostTraded, PlaceOrder(t, vol, price)
    PROVE  OrdersGood'
<1>1. PICK it : it = req[t].id
  OBVIOUS
<1>2. /\ pc[t] = "place" /\ pc'[t] = "placing" /\ \A u \in Threads \ {t} : pc'[u] = pc[u]
      /\ vol =< rec[it].size /\ UNCHANGED <<rec, req>> /\ call = NoCall
  BY <1>1 DEF PlaceOrder, Goto, CoinbaseHands, CoinbaseTypes
<1>3. resting' = IF rec[it].kind = "limit" /\ vol < rec[it].size
                   THEN Extend(resting, it, rec[it].size - vol) ELSE resting
  BY <1>1 DEF PlaceOrder
<1>4. /\ call'.id = it /\ call'.vol = vol
      /\ call'.stage = (IF vol > 0 THEN "registry" ELSE "return")
  BY <1>1 DEF PlaceOrder
<1>5. /\ it \in DOMAIN rec /\ vol \in Nat /\ rec[it].size \in Nat
  BY <1>1, <1>2, RecordedOrder, CoinbaseAssumption DEF CoinbaseHands, HasInHand, Knowing
<1>6. /\ it \notin DOMAIN resting /\ rec[it].filled = 0 /\ rec[it].status = "OPEN"
      /\ \A u \in Threads \ {t} : pc[u] \in Entrants => req[u].id # it
  BY <1>1, <1>2 DEF OrdersGood, PlacementGood, Entrants
<1>7. call.stage = "free"
  BY <1>2 DEF NoCall
<1>8. Due(it)' = vol /\ \A id \in DOMAIN rec : Due(id) = 0 /\ (id # it => Due(id)' = 0)
  BY <1>4, <1>5, <1>7 DEF Due
<1>9. ASSUME NEW id \in DOMAIN rec PROVE FillsGood(id)'
  <2>1. FillsGood(id)
    BY DEF OrdersGood
  <2>2. CASE id = it
    <3>1. CASE rec[it].kind = "limit" /\ vol < rec[it].size
      <4>1. resting' = Extend(resting, it, rec[it].size - vol)
        BY <1>3, <3>1
      <4>2. resting'[it] = rec[it].size - vol
        BY <4>1 DEF Extend
      <4> QED
        BY <1>2, <1>5, <1>6, <1>8, <2>1, <2>2, <3>1, <4>2 DEF FillsGood
    <3>2. CASE ~(rec[it].kind = "limit" /\ vol < rec[it].size)
      BY <1>2, <1>3, <1>5, <1>6, <1>8, <2>1, <2>2, <3>2 DEF FillsGood
    <3> QED
      BY <3>1, <3>2
  <2>3. CASE id # it
    <3>1. /\ id \in DOMAIN resting' <=> id \in DOMAIN resting
          /\ id \in DOMAIN resting => resting'[id] = resting[id]
      BY <1>3, <2>3 DEF Extend
    <3> QED
      BY <1>2, <1>8, <2>1, <2>3, <3>1 DEF FillsGood
  <2> QED
    BY <2>2, <2>3
<1>10. CallGood'
  <2>1. ASSUME NEW u \in Threads, pc'[u] \in Entrants PROVE req'[u].id # it
    BY <1>2, <1>6, <2>1 DEF Entrants
  <2> QED
    BY <1>2, <1>4, <1>6, <2>1 DEF CallGood
<1>11. ASSUME NEW u \in Threads PROVE PlacementGood(u)'
  <2> SUFFICES ASSUME pc'[u] \in Entrants PROVE PlacementGood(u)'
    BY DEF PlacementGood
  <2>1. u # t /\ pc'[u] = pc[u]
    BY <1>2 DEF Entrants
  <2>2. PlacementGood(u) /\ req[u].id # it
    BY <1>6, <2>1 DEF OrdersGood
  <2>3. req[u].id \notin DOMAIN resting'
    BY <1>3, <2>1, <2>2 DEF Extend, PlacementGood
  <2>4. \A v \in Threads \ {u} : pc'[v] \in Entrants => pc[v] \in Entrants
    BY <1>2 DEF Entrants
  <2> QED
    BY <1>2, <2>1, <2>2, <2>3, <2>4 DEF PlacementGood
<1> QED
  BY <1>2, <1>9, <1>10, <1>11 DEF OrdersGood

\* The book takes from an order that rests, or takes it out.
LEMMA RestingGood ==
    ASSUME CoinbaseHands, OrdersGood,
           \/ \E id \in Ids, vol \in 1..MostTraded : TakerHits(id, vol)
           \/ \E t \in Threads : CancelInBook(t)
    PROVE  OrdersGood'
<1>1. PICK it, vol \in Nat :
         /\ it \in DOMAIN resting /\ call = NoCall /\ UNCHANGED <<rec, req>>
         /\ call'.id = it /\ call'.vol = vol /\ call'.stage = "registry"
         /\ \/ vol = 0 /\ resting' = Drop(resting, it)
            \/ vol > 0 /\ vol = resting[it] /\ resting' = Drop(resting, it)
            \/ vol > 0 /\ vol < resting[it] /\ resting' = [resting EXCEPT ![it] = @ - vol]
         /\ \A u \in Threads : pc'[u] \in Entrants => pc'[u] = pc[u]
  <2>1. ASSUME NEW id \in Ids, NEW vol \in 1..MostTraded, TakerHits(id, vol)
        PROVE  /\ id \in DOMAIN resting /\ call = NoCall /\ UNCHANGED <<rec, req>>
               /\ call'.id = id /\ call'.vol = vol /\ call'.stage = "registry"
               /\ \/ vol = resting[id] /\ resting' = Drop(resting, id)
                  \/ vol < resting[id] /\ resting' = [resting EXCEPT ![id] = @ - vol]
               /\ vol > 0 /\ vol \in Nat /\ pc' = pc
    <3>1. id \in DOMAIN resting /\ vol =< resting[id]
      BY <2>1 DEF TakerHits
    <3>2. FillsGood(id)
      BY <3>1 DEF OrdersGood, CoinbaseHands, CoinbaseTypes
    <3>3. resting[id] \in Nat
      BY <3>1, <3>2 DEF FillsGood
    <3> QED
      BY <2>1, <3>1, <3>3 DEF TakerHits
  <2>2. ASSUME NEW t \in Threads, CancelInBook(t)
        PROVE  /\ req[t].id \in DOMAIN resting /\ call = NoCall /\ UNCHANGED <<rec, req>>
               /\ call'.id = req[t].id /\ call'.vol = 0 /\ call'.stage = "registry"
               /\ resting' = Drop(resting, req[t].id)
               /\ \A u \in Threads : pc'[u] \in Entrants => pc'[u] = pc[u]
    <3>1. pc' = [pc EXCEPT ![t] = "cancelling"]
      BY <2>2 DEF CancelInBook, Goto
    <3>2. \A u \in Threads : pc'[u] \in Entrants => pc'[u] = pc[u]
      BY <3>1 DEF CoinbaseHands, CoinbaseTypes, Entrants
    <3> QED
      BY <2>2, <3>2 DEF CancelInBook
  <2>3. DOMAIN resting \subseteq Nat
    BY DEF CoinbaseHands, CoinbaseTypes
  <2> QED
    <3>1. CASE \E id \in Ids, vol \in 1..MostTraded : TakerHits(id, vol)
      <4>1. PICK id \in Ids, vol \in 1..MostTraded : TakerHits(id, vol)
        BY <3>1
      <4> QED
        BY <2>1, <2>3, <4>1
    <3>2. CASE \E t \in Threads : CancelInBook(t)
      <4>1. PICK t \in Threads : CancelInBook(t)
        BY <3>2
      <4>2. 0 \in Nat
        OBVIOUS
      <4> QED
        BY <2>2, <2>3, <4>1, <4>2
    <3> QED
      BY <3>1, <3>2
<1>2. it \in DOMAIN rec /\ call.stage = "free"
  BY <1>1 DEF CoinbaseHands, CoinbaseTypes, NoCall
<1>3. /\ FillsGood(it) /\ rec[it].filled \in Nat /\ rec[it].size \in Nat
  BY <1>2, RecordedOrder DEF OrdersGood
<1>4. Due(it)' = vol /\ \A id \in DOMAIN rec : Due(id) = 0 /\ (id # it => Due(id)' = 0)
  BY <1>1, <1>2 DEF Due
<1>5. /\ resting[it] \in Nat /\ resting[it] > 0 /\ rec[it].status = "OPEN"
      /\ rec[it].kind = "limit" /\ rec[it].filled + resting[it] = rec[it].size
  BY <1>1, <1>2, <1>3, <1>4 DEF FillsGood
<1>6. /\ vol = 0 => it \notin DOMAIN resting'
      /\ vol =< resting[it]
      /\ it \in DOMAIN resting' => vol < resting[it] /\ resting'[it] = resting[it] - vol
      /\ \A id : id # it => /\ id \in DOMAIN resting' <=> id \in DOMAIN resting
                            /\ id \in DOMAIN resting => resting'[id] = resting[id]
  BY <1>1, <1>5 DEF Drop
<1>7. ASSUME NEW id \in DOMAIN rec PROVE FillsGood(id)'
  <2>1. CASE id = it
    BY <1>1, <1>3, <1>4, <1>5, <1>6, <2>1 DEF FillsGood
  <2>2. CASE id # it
    <3>1. FillsGood(id)
      BY DEF OrdersGood
    <3> QED
      BY <1>1, <1>4, <1>6, <2>2, <3>1 DEF FillsGood
  <2> QED
    BY <2>1, <2>2
<1>8. CallGood'
  <2>1. ASSUME NEW u \in Threads, pc'[u] \in Entrants PROVE req'[u].id # it
    <3>1. pc[u] \in Entrants /\ req'[u] = req[u]
      BY <1>1, <2>1
    <3> QED
      BY <1>1, <3>1 DEF OrdersGood, PlacementGood
  <2> QED
    BY <1>1, <1>5, <1>6, <2>1 DEF CallGood
<1>9. ASSUME NEW u \in Threads PROVE PlacementGood(u)'
  <2> SUFFICES ASSUME pc'[u] \in Entrants PROVE PlacementGood(u)'
    BY DEF PlacementGood
  <2>1. pc'[u] = pc[u] /\ PlacementGood(u)
    BY <1>1 DEF OrdersGood
  <2>2. req[u].id \notin DOMAIN resting'
    BY <1>1, <1>6, <2>1 DEF PlacementGood
  <2>3. \A v \in Threads \ {u} : pc'[v] \in Entrants => pc[v] \in Entrants
    BY <1>1
  <2> QED
    BY <1>1, <2>1, <2>2, <2>3 DEF PlacementGood
<1> QED
  BY <1>1, <1>7, <1>8, <1>9 DEF OrdersGood

\* The registry applies the call, a trade to an open order or a cancel: the
\* order keeps what it asks for, and has been filled by what was traded.
LEMMA RegistryGood ==
    ASSUME CoinbaseHands, OrdersGood, RegistryHook
    PROVE  /\ call.id \in DOMAIN rec /\ call.stage = "registry" /\ DOMAIN rec' = DOMAIN rec
           /\ \A id \in DOMAIN rec : id # call.id => rec'[id] = rec[id]
           /\ call' = [call EXCEPT !.stage = "emit"]
           /\ call'.id = call.id /\ call'.vol = call.vol /\ call'.stage = "emit"
           /\ rec[call.id].status = "OPEN"
           /\ rec'[call.id].side = rec[call.id].side /\ rec'[call.id].kind = rec[call.id].kind
           /\ rec'[call.id].price = rec[call.id].price /\ rec'[call.id].size = rec[call.id].size
           /\ rec'[call.id].filled = rec[call.id].filled + call.vol
           /\ rec'[call.id].status \in (IF call.vol = 0 THEN {"CANCELLED"} ELSE {"OPEN", "FILLED"})
           /\ OrdersGood'
<1>1. PICK it : it = call.id
  OBVIOUS
<1>2. /\ it \in DOMAIN rec /\ call.stage = "registry" /\ DOMAIN rec' = DOMAIN rec
      /\ \A id \in DOMAIN rec : id # it => rec'[id] = rec[id]
      /\ call' = [call EXCEPT !.stage = "emit"]
      /\ call'.id = it /\ call'.vol = call.vol /\ call'.stage = "emit"
  BY <1>1, RegistryRecord
<1>3. /\ rec[it] \in OrderRecs /\ call.vol \in Nat
      /\ rec[it].filled \in Nat /\ rec[it].size \in Nat
  BY <1>2, RecordedOrder
<1>4. /\ rec[it].status = "OPEN" /\ (call.vol = 0 => it \notin DOMAIN resting)
      /\ \A t \in Threads : pc[t] \in Entrants => req[t].id # it
  BY <1>1, <1>2 DEF OrdersGood, CallGood
<1>5. PICK old : old = rec[it]
  OBVIOUS
<1>6. /\ UNCHANGED <<resting, pc, req>>
      /\ rec'[it] = IF call.vol > 0 THEN ApplyFill(old)
                    ELSE IF old.status = "FILLED" THEN old
                    ELSE [old EXCEPT !.status = "CANCELLED"]
  BY <1>1, <1>2, <1>5 DEF RegistryHook
<1>7. PICK s : /\ rec'[it] = [old EXCEPT !.filled = old.filled + call.vol, !.status = s]
               /\ call.vol = 0 => s = "CANCELLED"
               /\ call.vol > 0 => s \in {"OPEN", "FILLED"}
               /\ call.vol > 0 /\ old.filled + call.vol < old.size => s = "OPEN"
  <2>1. CASE call.vol > 0
    <3>1. CASE old.filled + call.vol >= old.size
      <4>1. rec'[it] = [old EXCEPT !.filled = old.filled + call.vol, !.status = "FILLED"]
        BY <1>4, <1>5, <1>6, <2>1, <3>1 DEF ApplyFill
      <4>2. call.vol # 0 /\ ~(old.filled + call.vol < old.size)
        BY <1>3, <1>5, <2>1, <3>1
      <4> QED
        BY <4>1, <4>2
    <3>2. CASE ~(old.filled + call.vol >= old.size)
      <4>1. rec'[it] = [old EXCEPT !.filled = old.filled + call.vol, !.status = "OPEN"]
        BY <1>4, <1>5, <1>6, <2>1, <3>2 DEF ApplyFill
      <4>2. call.vol # 0
        BY <1>3, <2>1
      <4> QED
        BY <4>1, <4>2
    <3> QED
      BY <3>1, <3>2
  <2>2. CASE ~(call.vol > 0)
    <3>1. call.vol = 0 /\ old.filled + call.vol = old.filled
      BY <1>3, <1>5, <2>2
    <3>2. rec'[it] = [old EXCEPT !.status = "CANCELLED"]
      BY <1>4, <1>5, <1>6, <2>2
    <3>3. rec'[it] = [old EXCEPT !.filled = old.filled + call.vol, !.status = "CANCELLED"]
      <4>1. old = [old EXCEPT !.filled = old.filled]
        BY <1>3, <1>5 DEF OrderRecs
      <4> QED
        BY <1>3, <1>5, <3>1, <3>2, <4>1 DEF OrderRecs
    <3> QED
      BY <2>2, <3>1, <3>3
  <2> QED
    BY <2>1, <2>2
<1>8. /\ rec'[it].side = old.side /\ rec'[it].kind = old.kind /\ rec'[it].price = old.price
      /\ rec'[it].size = old.size /\ rec'[it].filled = old.filled + call.vol
      /\ rec'[it].status = s
  BY <1>3, <1>5, <1>7 DEF OrderRecs
<1>9. Due(it) = call.vol /\ \A id \in DOMAIN rec : Due(id)' = 0 /\ (id # it => Due(id) = 0)
  BY <1>1, <1>2 DEF Due
<1>10. s \in (IF call.vol = 0 THEN {"CANCELLED"} ELSE {"OPEN", "FILLED"})
  BY <1>3, <1>7
<1>11. ASSUME NEW id \in DOMAIN rec PROVE FillsGood(id)'
  <2>1. FillsGood(id)
    BY DEF OrdersGood
  <2>2. CASE id = it
    <3>1. CASE it \in DOMAIN resting
      <4>1. call.vol > 0 /\ resting[it] \in Nat /\ resting[it] > 0 /\ rec[it].kind = "limit"
            /\ old.filled + call.vol + resting[it] = old.size
        BY <1>3, <1>4, <1>5, <1>9, <2>1, <2>2, <3>1 DEF FillsGood
      <4>2. s = "OPEN"
        BY <1>3, <1>5, <1>7, <4>1
      <4>3. old.filled + call.vol + 0 + resting[it] = old.size /\ old.filled + call.vol + 0 =< old.size
        BY <1>3, <1>5, <4>1
      <4> QED
        BY <1>5, <1>6, <1>8, <1>9, <2>1, <2>2, <3>1, <4>1, <4>2, <4>3 DEF FillsGood
    <3>2. CASE it \notin DOMAIN resting
      <4>1. old.filled + call.vol + 0 =< old.size
        BY <1>3, <1>5, <1>9, <2>1, <2>2 DEF FillsGood
      <4> QED
        BY <1>5, <1>6, <1>8, <1>9, <2>1, <2>2, <3>2, <4>1 DEF FillsGood
    <3> QED
      BY <3>1, <3>2
  <2>3. CASE id # it
    BY <1>2, <1>6, <1>9, <2>1, <2>3 DEF FillsGood
  <2> QED
    BY <2>2, <2>3
<1>12. CallGood'
  <2>1. call.vol =< rec'[it].filled
    BY <1>3, <1>5, <1>8
  <2> QED
    BY <1>2, <1>4, <1>6, <1>8, <1>10, <2>1 DEF CallGood
<1>13. ASSUME NEW u \in Threads PROVE PlacementGood(u)'
  <2> SUFFICES ASSUME pc[u] \in Entrants PROVE PlacementGood(u)'
    BY <1>6 DEF PlacementGood
  <2>1. req[u].id \in DOMAIN rec /\ req[u].id # it
    BY <1>4 DEF CoinbaseHands, HasInHand, Entrants, Knowing
  <2>2. rec'[req[u].id] = rec[req[u].id] /\ PlacementGood(u)
    BY <1>2, <2>1 DEF OrdersGood
  <2> QED
    BY <1>6, <2>2 DEF PlacementGood
<1> QED
  BY <1>1, <1>2, <1>4, <1>5, <1>8, <1>10, <1>11, <1>12, <1>13 DEF OrdersGood

\* A handler that comes back from a cancel finds its order marked already: the
\* registry's hook did that under the lock.
LEMMA MarkChangesNothing ==
    ASSUME CoinbaseHands, CoinbaseControl, NEW t \in Threads, MarkCancelled(t)
    PROVE  rec' = rec
<1>1. PICK n \in Nat : rec \in [1..n -> OrderRecs]
  BY DEF CoinbaseHands, CoinbaseTypes
<1>2. PICK it : it = req[t].id
  OBVIOUS
<1>3. pc[t] = "mark"
  BY DEF MarkCancelled, Finish, Goto
<1>4. it \in DOMAIN rec /\ rec[it] \in OrderRecs /\ rec[it].status \in Marks
  BY <1>1, <1>2, <1>3 DEF CoinbaseHands, HasInHand, Knowing, CoinbaseControl, Calling
<1>5. rec' = [rec EXCEPT ![it].status = IF @ = "FILLED" THEN @ ELSE "CANCELLED"]
  BY <1>2 DEF MarkCancelled
<1>6. [rec[it] EXCEPT !.status = rec[it].status] = rec[it]
  BY <1>4 DEF OrderRecs
<1>7. (IF rec[it].status = "FILLED" THEN rec[it].status ELSE "CANCELLED") = rec[it].status
  BY <1>4 DEF Marks
<1>8. rec' = [rec EXCEPT ![it] = rec[it]]
  BY <1>4, <1>5, <1>6, <1>7
<1> QED
  BY <1>1, <1>4, <1>8

\* The steps that leave the records, the book and the ledger as they are and
\* hand no order to a placement or to the registry.
Passes ==
    \/ \E t \in Threads :
          \/ \E id \in Ids : CancelOne(t, id)
          \/ CancelMisses(t) \/ MarkCancelled(t) \/ ReadRecord(t) \/ EmitUser(t)
    \/ ReturnFromBook
    \/ \E delayed \in Delays : EmitHook(delayed)
    \/ \E state \in timers : TimerFires(state)
    \/ \E i \in DOMAIN flight : TrySend(i)
    \/ UNCHANGED coinbaseVars

\* The same but for the ledger.
Quiet ==
    \/ Passes \/ LedgerHook
    \/ \E t \in Threads : GiveBack(t) \/ \E o \in ClientOrders : CreateOrder(t, o)

\* A quiet step takes at most one order out of a placement's hands, and the
\* call at most on.
LEMMA QuietMoves ==
    ASSUME CoinbaseHands, CoinbaseControl, Quiet
    PROVE  /\ UNCHANGED <<rec, resting>>
           /\ \A u \in Threads : pc'[u] \in Entrants => pc'[u] = pc[u] /\ req'[u] = req[u]
           /\ \A u \in Threads : pc[u] = "place" => pc'[u] = pc[u] /\ req'[u] = req[u]
           /\ \/ call' = call
              \/ call.stage = "emit" /\ call' = [call EXCEPT !.stage = "ledger"]
              \/ call.stage = "ledger" /\ call' = [call EXCEPT !.stage = "return"]
              \/ call.stage = "return" /\ call' = NoCall
<1>1. pc \in [Threads -> {"idle", "record"} \cup Knowing] /\ DOMAIN req = Threads
  BY DEF CoinbaseHands, CoinbaseTypes
<1>2. ASSUME NEW t \in Threads, NEW from \in {"idle", "undo", "cancel", "mark", "report", "stamp"},
             NEW to \in {"idle", "record", "cancel", "stamp"}, NEW h,
             pc[t] = from, pc' = [pc EXCEPT ![t] = to], req' = [req EXCEPT ![t] = h]
      PROVE  \A u \in Threads :
                /\ pc'[u] \in Entrants => pc'[u] = pc[u] /\ req'[u] = req[u]
                /\ pc[u] = "place" => pc'[u] = pc[u] /\ req'[u] = req[u]
  BY <1>1, <1>2 DEF Entrants
<1>3. ASSUME NEW t \in Threads,
             \/ GiveBack(t) \/ CancelMisses(t) \/ MarkCancelled(t)
             \/ ReadRecord(t) \/ EmitUser(t)
      PROVE  /\ \A u \in Threads :
                   /\ pc'[u] \in Entrants => pc'[u] = pc[u] /\ req'[u] = req[u]
                   /\ pc[u] = "place" => pc'[u] = pc[u] /\ req'[u] = req[u]
             /\ UNCHANGED <<rec, resting, call>>
  <2>1. rec' = rec
    BY <1>3, MarkChangesNothing DEF GiveBack, CancelMisses, ReadRecord, EmitUser
  <2>2. PICK from \in {"idle", "undo", "cancel", "mark", "report", "stamp"},
             to \in {"idle", "record", "cancel", "stamp"} :
           pc[t] = from /\ pc' = [pc EXCEPT ![t] = to] /\ \E h : req' = [req EXCEPT ![t] = h]
    BY <1>3 DEF GiveBack, CancelMisses, MarkCancelled, ReadRecord, EmitUser, Finish, Goto
  <2>3. UNCHANGED <<resting, call>>
    BY <1>3 DEF GiveBack, CancelMisses, MarkCancelled, ReadRecord, EmitUser
  <2> QED
    BY <1>2, <2>1, <2>2, <2>3
<1>4. ASSUME NEW t \in Threads, NEW o \in ClientOrders, CreateOrder(t, o)
      PROVE  /\ pc[t] = "idle" /\ pc' = [pc EXCEPT ![t] = "record"]
             /\ req' = [req EXCEPT ![t] = o]
             /\ UNCHANGED <<rec, resting, call>>
  BY <1>4 DEF CreateOrder, Goto
<1>5. ASSUME NEW t \in Threads, NEW id \in Ids, CancelOne(t, id)
      PROVE  /\ pc[t] = "idle" /\ pc' = [pc EXCEPT ![t] = "cancel"]
             /\ req' = [req EXCEPT ![t] = [id |-> id]]
             /\ UNCHANGED <<rec, resting, call>>
  BY <1>5 DEF CancelOne, Goto
<1>6. CASE \E t \in Threads :
              \/ \E o \in ClientOrders : CreateOrder(t, o)
              \/ \E id \in Ids : CancelOne(t, id)
  <2>1. PICK t \in Threads : \/ \E o \in ClientOrders : CreateOrder(t, o)
                             \/ \E id \in Ids : CancelOne(t, id)
    BY <1>6
  <2>2. PICK to \in {"idle", "record", "cancel", "stamp"} :
           /\ pc[t] = "idle" /\ pc' = [pc EXCEPT ![t] = to]
           /\ \E h : req' = [req EXCEPT ![t] = h]
           /\ UNCHANGED <<rec, resting, call>>
    BY <1>4, <1>5, <2>1
  <2> QED
    BY <1>2, <2>2
<1>7. CASE ReturnFromBook
  <2>1. /\ call.stage = "return" /\ call' = NoCall /\ UNCHANGED <<rec, resting, req>>
        /\ \/ pc' = pc
           \/ pc[call.by] = "placing" /\ pc' = [pc EXCEPT ![call.by] = "report"]
           \/ pc[call.by] = "cancelling" /\ pc' = [pc EXCEPT ![call.by] = "mark"]
    BY <1>7 DEF ReturnFromBook, Goto, Stage
  <2>2. \A u \in Threads : /\ pc'[u] \in Entrants => pc'[u] = pc[u]
                           /\ pc[u] = "place" => pc'[u] = pc[u]
    BY <1>1, <2>1 DEF Entrants
  <2> QED
    BY <2>1, <2>2
<1>8. CASE \/ LedgerHook \/ \E delayed \in Delays : EmitHook(delayed)
           \/ \E state \in timers : TimerFires(state)
           \/ \E i \in DOMAIN flight : TrySend(i)
           \/ UNCHANGED coinbaseVars
  BY <1>8 DEF LedgerHook, EmitHook, TimerFires, TrySend, coinbaseVars, Stage, Then
<1> QED
  BY <1>3, <1>6, <1>7, <1>8 DEF Quiet, Passes

\* Every step keeps the orders and the call as they should be.
LEMMA OrdersStep ==
    ASSUME CoinbaseHands, CoinbaseControl, OrdersGood, [CoinbaseNext]_coinbaseVars
    PROVE  OrdersGood'
<1>1. CASE Quiet
  <2>1. /\ UNCHANGED <<rec, resting>>
        /\ \A u \in Threads : pc'[u] \in Entrants => pc'[u] = pc[u] /\ req'[u] = req[u]
        /\ \/ call' = call
           \/ call.stage = "emit" /\ call' = [call EXCEPT !.stage = "ledger"]
           \/ call.stage = "ledger" /\ call' = [call EXCEPT !.stage = "return"]
           \/ call.stage = "return" /\ call' = NoCall
    BY <1>1, QuietMoves
  <2>2. call \in Calls /\ NoCall.stage = "free"
    BY DEF CoinbaseHands, CoinbaseTypes, NoCall
  <2>3. /\ call'.stage # "free" =>
              call.stage # "free" /\ call'.id = call.id /\ call'.vol = call.vol
        /\ call'.stage = "registry" <=> call.stage = "registry"
        /\ call'.stage \in {"emit", "ledger"} => call.stage \in {"emit", "ledger"}
    BY <2>1, <2>2 DEF Calls
  <2> QED
    BY <2>1, <2>3, OrdersKept
<1>2. CASE \E t \in Threads : Record(t) \/ RemoveRecord(t)
  BY <1>2, RecordGood, RemoveGood
<1>3. CASE \E t \in Threads, vol \in 0..MostTraded, price \in 0..MostTraded : PlaceOrder(t, vol, price)
  BY <1>3, PlaceGood
<1>4. CASE \/ \E t \in Threads : CancelInBook(t)
           \/ \E id \in Ids, vol \in 1..MostTraded : TakerHits(id, vol)
  BY <1>4, RestingGood
<1>5. CASE RegistryHook
  BY <1>5, RegistryGood
<1> QED
  BY <1>1, <1>2, <1>3, <1>4, <1>5 DEF CoinbaseNext, Quiet, Passes

\* Is an order in a placement's hands?  Has the registry applied a call about it
\* that the ledger has not?  Is it over?
Placed(id) == \E t \in Threads : pc[t] \in Entrants /\ req[t].id = id
Hooked(id) == call.id = id /\ call.stage \in {"emit", "ledger"}
Ended(id) == \/ rec[id].status = "REMOVED" /\ ~Placed(id)
             \/ rec[id].status = "CANCELLED" /\ ~Hooked(id)

\* What an order needs: nothing once it is over, what is not settled before.
LEMMA NeedIs ==
    /\ \A id : Settled(id) = rec[id].filled - (IF Hooked(id) THEN call.vol ELSE 0)
    /\ \A id, asset :
          /\ Ended(id) \/ LockAsset(rec[id]) # asset => Needed(id, asset) = 0
          /\ ~Ended(id) /\ LockAsset(rec[id]) = asset =>
                Needed(id, asset) = LockAmount(rec[id], rec[id].size - Settled(id))
BY DEF Needed, Settled, Ended, Hooked, Placed, Entrants

\* The same of the state after a step.
LEMMA NeedIsNext ==
    /\ \A id : Settled(id)' = rec'[id].filled - (IF Hooked(id)' THEN call'.vol ELSE 0)
    /\ \A id, asset :
          /\ Ended(id)' \/ LockAsset(rec'[id]) # asset => Needed(id, asset)' = 0
          /\ ~Ended(id)' /\ LockAsset(rec'[id]) = asset =>
                Needed(id, asset)' = LockAmount(rec'[id], rec'[id].size - Settled(id)')
BY DEF Needed, Settled, Ended, Hooked, Placed, Entrants

\* An amount to lock is a natural number, of one of the two assets.
LEMMA LockAmountNat ==
    ASSUME NEW o, NEW size \in Nat, o.price \in Nat
    PROVE  LockAmount(o, size) \in Nat /\ LockAsset(o) \in Assets
<1>1. Mul(o.price, size) \in Nat
  BY MulNat
<1> QED
  BY <1>1 DEF LockAmount, LockAsset, Assets

\* What is settled is part of the order, and what is needed a natural number.
LEMMA NeedsNat ==
    ASSUME CoinbaseHands, OrdersGood
    PROVE  /\ \A id \in DOMAIN rec :
                 /\ Settled(id) \in Nat /\ Settled(id) =< rec[id].size
                 /\ \A asset : Needed(id, asset) \in Nat
           /\ \A t \in Threads : \A asset : Entering(t, asset) \in Nat
           /\ IsFiniteSet(DOMAIN rec) /\ IsFiniteSet(Threads)
<1>1. ASSUME NEW id \in DOMAIN rec
      PROVE  Settled(id) \in Nat /\ Settled(id) =< rec[id].size
  <2>1. /\ rec[id].filled \in Nat /\ rec[id].size \in Nat /\ call.vol \in Nat
    BY RecordedOrder
  <2>2. rec[id].filled + Due(id) =< rec[id].size /\ Due(id) \in Nat
    BY <2>1 DEF OrdersGood, FillsGood, Due
  <2>3. Hooked(id) => call.vol =< rec[id].filled
    BY DEF Hooked, OrdersGood, CallGood
  <2> QED
    BY <2>1, <2>2, <2>3, NeedIs
<1>2. ASSUME NEW id \in DOMAIN rec, NEW asset
      PROVE  Needed(id, asset) \in Nat
  <2>1. rec[id].size - Settled(id) \in Nat /\ rec[id].price \in Nat
    BY <1>1, RecordedOrder
  <2>2. LockAmount(rec[id], rec[id].size - Settled(id)) \in Nat
    BY <2>1, LockAmountNat
  <2> QED
    BY <2>2, NeedIs
<1>3. ASSUME NEW t \in Threads, NEW asset
      PROVE  Entering(t, asset) \in Nat
  <2>1. CASE pc[t] = "record"
    <3>1. req[t].price \in Nat /\ req[t].size \in Nat
      BY <2>1, CoinbaseAssumption DEF CoinbaseHands, HasInHand
    <3>2. LockAmount(req[t], req[t].size) \in Nat
      BY <3>1, LockAmountNat
    <3> QED
      BY <3>2 DEF Entering
  <2>2. CASE pc[t] # "record"
    BY <2>2 DEF Entering
  <2> QED
    BY <2>1, <2>2
<1>4. IsFiniteSet(DOMAIN rec) /\ IsFiniteSet(Threads)
  <2>1. PICK n \in Nat : rec \in [1..n -> OrderRecs]
    BY DEF CoinbaseHands, CoinbaseTypes
  <2> QED
    BY <2>1, FS_Interval, CoinbaseAssumption
<1> QED
  BY <1>1, <1>2, <1>3, <1>4

\* The totals, and an order's part of one.
LEMMA TotalsNat ==
    ASSUME CoinbaseHands, OrdersGood
    PROVE  /\ \A asset : /\ TotalNeeded(asset) \in Nat
                         /\ \A id \in DOMAIN rec : Needed(id, asset) =< TotalNeeded(asset)
           /\ Truncated \in Nat
<1>1. ASSUME NEW asset
      PROVE  /\ TotalNeeded(asset) \in Nat
             /\ \A id \in DOMAIN rec : Needed(id, asset) =< TotalNeeded(asset)
  <2> DEFINE f == [id \in DOMAIN rec |-> Needed(id, asset)]
             g == [t \in Threads |-> Entering(t, asset)]
  <2>1. f \in [DOMAIN rec -> Nat] /\ g \in [Threads -> Nat] /\ DOMAIN f = DOMAIN rec
    BY NeedsNat
  <2>2. \A id \in DOMAIN rec : f[id] = Needed(id, asset)
    OBVIOUS
  <2>3. TotalNeeded(asset) = SumOf(f) + SumOf(g)
    BY DEF TotalNeeded
  <2> HIDE DEF f, g
  <2>4. SumOf(f) \in Nat /\ SumOf(g) \in Nat
    BY <2>1, NeedsNat, UnitsFinite
  <2>5. ASSUME NEW id \in DOMAIN rec PROVE f[id] =< SumOf(f) /\ f[id] \in Nat
    BY <2>1, NeedsNat, PartOfSum
  <2> QED
    BY <2>2, <2>3, <2>4, <2>5
<1>2. Truncated \in Nat
  <2> DEFINE f == [id \in DOMAIN rec |-> Settled(id)]
  <2>1. f \in [DOMAIN rec -> Nat]
    BY NeedsNat
  <2>2. Truncated = IF Scale = 1 THEN 0 ELSE SumOf(f)
    BY DEF Truncated
  <2> HIDE DEF f
  <2>3. SumOf(f) \in Nat
    BY <2>1, NeedsNat, UnitsFinite
  <2> QED
    BY <2>2, <2>3
<1> QED
  BY <1>1, <1>2

\* The same after a step.
LEMMA NeedsNatNext ==
    CoinbaseHands' /\ OrdersGood' =>
        (/\ \A id \in DOMAIN rec :
               /\ Settled(id) \in Nat /\ Settled(id) =< rec[id].size
               /\ \A asset : Needed(id, asset) \in Nat
         /\ \A t \in Threads : \A asset : Entering(t, asset) \in Nat
         /\ IsFiniteSet(DOMAIN rec) /\ IsFiniteSet(Threads))'
<1>1. CoinbaseHands /\ OrdersGood =>
        (/\ \A id \in DOMAIN rec :
               /\ Settled(id) \in Nat /\ Settled(id) =< rec[id].size
               /\ \A asset : Needed(id, asset) \in Nat
         /\ \A t \in Threads : \A asset : Entering(t, asset) \in Nat
         /\ IsFiniteSet(DOMAIN rec) /\ IsFiniteSet(Threads))
  BY NeedsNat
<1> QED
  BY <1>1, PTL

\* When one order's need changes, the total changes by as much.
LEMMA OneNeedChanges ==
    ASSUME CoinbaseHands, CoinbaseHands', OrdersGood, OrdersGood', DOMAIN rec' = DOMAIN rec,
           NEW it \in DOMAIN rec, NEW asset,
           \A id \in DOMAIN rec : id # it => Needed(id, asset)' = Needed(id, asset),
           \A t \in Threads : Entering(t, asset)' = Entering(t, asset)
    PROVE  /\ TotalNeeded(asset) \in Nat /\ TotalNeeded(asset)' \in Nat
           /\ TotalNeeded(asset)' + Needed(it, asset) = TotalNeeded(asset) + Needed(it, asset)'
<1> DEFINE f == [id \in DOMAIN rec |-> Needed(id, asset)]
           g == [t \in Threads |-> Entering(t, asset)]
           h == [id \in DOMAIN rec' |-> Needed(id, asset)']
<1>1. f \in [DOMAIN rec -> Nat] /\ g \in [Threads -> Nat]
  BY NeedsNat
<1>2. h \in [DOMAIN rec -> Nat]
  <2>1. \A id \in DOMAIN rec' : Needed(id, asset)' \in Nat
    BY NeedsNatNext
  <2> QED
    BY <2>1
<1>3. /\ f[it] = Needed(it, asset) /\ h[it] = Needed(it, asset)'
      /\ \A id \in DOMAIN rec \ {it} : h[id] = f[id]
  OBVIOUS
<1>4. TotalNeeded(asset) = SumOf(f) + SumOf(g)
  BY DEF TotalNeeded
<1>5. TotalNeeded(asset)' = SumOf(h) + SumOf(g)
  <2>1. [t \in Threads |-> Entering(t, asset)'] = g
    OBVIOUS
  <2> QED
    BY <2>1 DEF TotalNeeded
<1> HIDE DEF f, g, h
<1>6. SumOf(f) \in Nat /\ SumOf(h) \in Nat /\ SumOf(h) + f[it] = SumOf(f) + h[it]
  BY <1>1, <1>2, <1>3, NeedsNat, SumChanges
<1>7. SumOf(g) \in Nat
  BY <1>1, NeedsNat, UnitsFinite
<1>8. f[it] \in Nat /\ h[it] \in Nat
  BY <1>1, <1>2
<1> QED
  BY <1>3, <1>4, <1>5, <1>6, <1>7, <1>8

\* Where neither the needs nor the locked amounts change, nothing is out of step.
LEMMA HoldsSame ==
    ASSUME HoldsMatchOrders, DOMAIN rec' = DOMAIN rec,
           \A id \in DOMAIN rec :
              /\ Settled(id)' = Settled(id)
              /\ \A asset \in Assets : Needed(id, asset)' = Needed(id, asset),
           \A t \in Threads, asset \in Assets : Entering(t, asset)' = Entering(t, asset),
           \A asset \in Assets : bal'[asset].locked = bal[asset].locked
    PROVE  HoldsMatchOrders'
<1>1. ASSUME NEW asset \in Assets PROVE TotalNeeded(asset)' = TotalNeeded(asset)
  <2>1. [id \in DOMAIN rec' |-> Needed(id, asset)'] = [id \in DOMAIN rec |-> Needed(id, asset)]
    OBVIOUS
  <2>2. [t \in Threads |-> Entering(t, asset)'] = [t \in Threads |-> Entering(t, asset)]
    OBVIOUS
  <2> QED
    BY <2>1, <2>2 DEF TotalNeeded
<1>2. Truncated' = Truncated
  <2>1. [id \in DOMAIN rec' |-> Settled(id)'] = [id \in DOMAIN rec |-> Settled(id)]
    OBVIOUS
  <2> QED
    BY <2>1 DEF Truncated
<1>3. "base" \in Assets /\ "quote" \in Assets
  BY DEF Assets
<1> QED
  BY <1>1, <1>2, <1>3 DEF HoldsMatchOrders

\* What an order needs depends on its record, on whose hands it is in once it is
\* removed, and on the hook that is about it.
LEMMA NeedsUnmoved ==
    ASSUME rec' = rec,
           \A id \in DOMAIN rec :
              /\ rec[id].status = "REMOVED" => (Placed(id)' <=> Placed(id))
              /\ Hooked(id)' <=> Hooked(id),
           \A id \in DOMAIN rec : Hooked(id) => call'.vol = call.vol
    PROVE  \A id \in DOMAIN rec :
              /\ Settled(id)' = Settled(id)
              /\ \A asset \in Assets : Needed(id, asset)' = Needed(id, asset)
<1> SUFFICES ASSUME NEW id \in DOMAIN rec
             PROVE  /\ Settled(id)' = Settled(id)
                    /\ \A asset \in Assets : Needed(id, asset)' = Needed(id, asset)
  OBVIOUS
<1>1. Settled(id)' = Settled(id)
  BY NeedIs, NeedIsNext
<1>2. Ended(id)' <=> Ended(id)
  BY DEF Ended
<1> QED
  BY <1>1, <1>2, NeedIs, NeedIsNext

\* Steps that reserve nothing, settle nothing and give nothing back.
LEMMA OthersHold ==
    ASSUME CoinbaseHands, CoinbaseControl, OrdersGood, HoldsMatchOrders,
           Passes
    PROVE  HoldsMatchOrders'
<1>0. pc \in [Threads -> {"idle", "record"} \cup Knowing] /\ DOMAIN req = Threads /\ call \in Calls
  BY DEF CoinbaseHands, CoinbaseTypes
<1>1. rec' = rec
  BY QuietMoves DEF Quiet
<1>2. \A u \in Threads : /\ pc[u] \in Entrants \cup {"record"} <=> pc'[u] \in Entrants \cup {"record"}
                         /\ pc[u] \in Entrants \cup {"record"} =>
                               pc'[u] = pc[u] /\ req'[u] = req[u]
  <2>1. ASSUME NEW t \in Threads, NEW from \in {"idle", "cancel", "mark", "report", "stamp"},
               NEW to \in {"idle", "cancel", "stamp"}, NEW h,
               pc[t] = from, pc' = [pc EXCEPT ![t] = to], req' = [req EXCEPT ![t] = h]
        PROVE  \A u \in Threads :
                  /\ pc[u] \in Entrants \cup {"record"} <=> pc'[u] \in Entrants \cup {"record"}
                  /\ pc[u] \in Entrants \cup {"record"} => pc'[u] = pc[u] /\ req'[u] = req[u]
    BY <1>0, <2>1 DEF Entrants
  <2>2. ASSUME NEW t \in Threads,
               \/ \E id \in Ids : CancelOne(t, id)
               \/ CancelMisses(t) \/ MarkCancelled(t) \/ ReadRecord(t) \/ EmitUser(t)
        PROVE  \E from \in {"idle", "cancel", "mark", "report", "stamp"},
                  to \in {"idle", "cancel", "stamp"} :
                     pc[t] = from /\ pc' = [pc EXCEPT ![t] = to] /\ \E h : req' = [req EXCEPT ![t] = h]
    <3>1. ASSUME NEW id \in Ids, CancelOne(t, id)
          PROVE  pc[t] = "idle" /\ pc' = [pc EXCEPT ![t] = "cancel"]
                 /\ \E h : req' = [req EXCEPT ![t] = h]
      BY <3>1 DEF CancelOne, Goto
    <3>2. ASSUME CancelMisses(t) \/ MarkCancelled(t) \/ ReadRecord(t) \/ EmitUser(t)
          PROVE  \E from \in {"idle", "cancel", "mark", "report", "stamp"},
                    to \in {"idle", "cancel", "stamp"} :
                       pc[t] = from /\ pc' = [pc EXCEPT ![t] = to] /\ \E h : req' = [req EXCEPT ![t] = h]
      BY <3>2 DEF CancelMisses, MarkCancelled, ReadRecord, EmitUser, Finish, Goto
    <3> QED
      BY <2>2, <3>1, <3>2
  <2>3. CASE \E t \in Threads :
                \/ \E id \in Ids : CancelOne(t, id)
                \/ CancelMisses(t) \/ MarkCancelled(t) \/ ReadRecord(t) \/ EmitUser(t)
    BY <2>1, <2>2, <2>3
  <2>4. CASE ReturnFromBook
    <3>1. /\ req' = req
          /\ \/ pc' = pc
             \/ pc[call.by] = "placing" /\ pc' = [pc EXCEPT ![call.by] = "report"]
             \/ pc[call.by] = "cancelling" /\ pc' = [pc EXCEPT ![call.by] = "mark"]
      BY <2>4 DEF ReturnFromBook, Goto, Stage
    <3> QED
      BY <1>0, <3>1 DEF Entrants
  <2>5. CASE \/ \E delayed \in Delays : EmitHook(delayed)
             \/ \E state \in timers : TimerFires(state)
             \/ \E i \in DOMAIN flight : TrySend(i)
             \/ UNCHANGED coinbaseVars
    BY <2>5 DEF EmitHook, TimerFires, TrySend, coinbaseVars
  <2> QED
    BY <2>3, <2>4, <2>5 DEF Passes
<1>3. \/ call' = call
      \/ call.stage = "emit" /\ call' = [call EXCEPT !.stage = "ledger"]
      \/ call.stage = "return" /\ call' = NoCall
  <2>1. call.stage = "ledger" /\ call' = [call EXCEPT !.stage = "return"] => call' # call
    BY <1>0 DEF Calls
  <2>2. CASE \E t \in Threads :
                \/ \E id \in Ids : CancelOne(t, id)
                \/ CancelMisses(t) \/ MarkCancelled(t) \/ ReadRecord(t) \/ EmitUser(t)
    BY <2>2 DEF CancelOne, CancelMisses, MarkCancelled, ReadRecord, EmitUser
  <2>3. CASE \/ ReturnFromBook \/ \E delayed \in Delays : EmitHook(delayed)
             \/ \E state \in timers : TimerFires(state)
             \/ \E i \in DOMAIN flight : TrySend(i)
             \/ UNCHANGED coinbaseVars
    BY <2>3 DEF ReturnFromBook, EmitHook, TimerFires, TrySend, coinbaseVars, Stage, Then
  <2> QED
    BY <2>2, <2>3 DEF Passes
<1>4. \A id \in DOMAIN rec : /\ Placed(id)' <=> Placed(id)
                             /\ Hooked(id)' <=> Hooked(id)
                             /\ Hooked(id) => call'.vol = call.vol
  <2>1. \A id \in DOMAIN rec : Placed(id)' <=> Placed(id)
    BY <1>2 DEF Placed, Entrants
  <2>2. \A id \in DOMAIN rec : Hooked(id)' <=> Hooked(id)
    BY <1>0, <1>3 DEF Hooked, NoCall, Calls
  <2>3. \A id \in DOMAIN rec : Hooked(id) => call'.vol = call.vol
    BY <1>0, <1>3 DEF Hooked, Calls
  <2> QED
    BY <2>1, <2>2, <2>3
<1>5. \A id \in DOMAIN rec :
          /\ Settled(id)' = Settled(id)
          /\ \A asset \in Assets : Needed(id, asset)' = Needed(id, asset)
  BY <1>1, <1>4, NeedsUnmoved
<1>6. \A t \in Threads, asset \in Assets : Entering(t, asset)' = Entering(t, asset)
  BY <1>2 DEF Entering, Entrants
<1>7. bal' = bal
  BY DEF Passes, CancelOne, CancelMisses, MarkCancelled, ReadRecord, EmitUser, ReturnFromBook,
         EmitHook, TimerFires, TrySend, coinbaseVars
<1> QED
  BY <1>1, <1>5, <1>6, <1>7, HoldsSame

\* A call that enters the book needs no more and no less than the order did.
LEMMA BookHolds ==
    ASSUME CoinbaseHands, OrdersGood, HoldsMatchOrders,
           \/ \E id \in Ids, vol \in 1..MostTraded : TakerHits(id, vol)
           \/ \E t \in Threads :
                 \/ CancelInBook(t)
                 \/ \E vol \in 0..MostTraded, price \in 0..MostTraded : PlaceOrder(t, vol, price)
    PROVE  HoldsMatchOrders'
<1>0. pc \in [Threads -> {"idle", "record"} \cup Knowing]
  BY DEF CoinbaseHands, CoinbaseTypes
<1>1. /\ UNCHANGED <<rec, bal, req>> /\ call = NoCall
      /\ call'.stage \in {"registry", "return"}
  BY DEF TakerHits, CancelInBook, PlaceOrder
<1>2. \/ \A u \in Threads : /\ pc'[u] \in Entrants \cup {"record"} <=> pc[u] \in Entrants \cup {"record"}
                            /\ pc[u] \in Entrants \cup {"record"} => pc'[u] = pc[u]
      \/ \E t \in Threads : pc[t] = "place" /\ pc' = [pc EXCEPT ![t] = "placing"]
  BY <1>0 DEF TakerHits, CancelInBook, PlaceOrder, Goto, Entrants
<1>3. \A id \in DOMAIN rec : ~Hooked(id) /\ ~Hooked(id)'
  BY <1>1 DEF Hooked, NoCall
<1>4. ASSUME NEW id \in DOMAIN rec, rec[id].status = "REMOVED"
      PROVE  Placed(id)' <=> Placed(id)
  <2>1. CASE \A u \in Threads : /\ pc'[u] \in Entrants \cup {"record"} <=> pc[u] \in Entrants \cup {"record"}
                                /\ pc[u] \in Entrants \cup {"record"} => pc'[u] = pc[u]
    BY <1>1, <2>1 DEF Placed, Entrants
  <2>2. ASSUME NEW t \in Threads, pc[t] = "place", pc' = [pc EXCEPT ![t] = "placing"]
        PROVE  Placed(id)' <=> Placed(id)
    <3>1. req[t].id # id
      BY <1>4, <2>2 DEF OrdersGood, PlacementGood, Entrants
    <3>2. /\ pc'[t] \notin Entrants
          /\ \A u \in Threads \ {t} : pc'[u] = pc[u]
      BY <1>0, <2>2 DEF Entrants
    <3> QED
      BY <1>1, <3>1, <3>2 DEF Placed
  <2> QED
    BY <1>2, <2>1, <2>2
<1>5. \A id \in DOMAIN rec :
          /\ Settled(id)' = Settled(id)
          /\ \A asset \in Assets : Needed(id, asset)' = Needed(id, asset)
  BY <1>1, <1>3, <1>4, NeedsUnmoved
<1>6. \A t \in Threads, asset \in Assets : Entering(t, asset)' = Entering(t, asset)
  <2>1. \A u \in Threads : pc'[u] = "record" <=> pc[u] = "record"
    BY <1>0, <1>2 DEF Entrants
  <2> QED
    BY <1>1, <2>1 DEF Entering
<1> QED
  BY <1>1, <1>5, <1>6, HoldsSame

\* The registry's hook adds to what is filled what is not settled yet; and a
\* cancelled order is not over before the ledger's hook.
LEMMA RegistryHolds ==
    ASSUME CoinbaseHands, OrdersGood, HoldsMatchOrders, RegistryHook
    PROVE  HoldsMatchOrders'
<1>1. PICK it : it = call.id
  OBVIOUS
<1>2. /\ it \in DOMAIN rec /\ call.stage = "registry" /\ DOMAIN rec' = DOMAIN rec
      /\ \A id \in DOMAIN rec : id # it => rec'[id] = rec[id]
      /\ call'.id = it /\ call'.vol = call.vol /\ call'.stage = "emit"
      /\ rec[it].status = "OPEN"
      /\ rec'[it].side = rec[it].side /\ rec'[it].kind = rec[it].kind
      /\ rec'[it].price = rec[it].price /\ rec'[it].size = rec[it].size
      /\ rec'[it].filled = rec[it].filled + call.vol
      /\ rec'[it].status \in {"CANCELLED", "OPEN", "FILLED"}
  BY <1>1, RegistryGood
<1>3. UNCHANGED <<bal, pc, req>>
  BY DEF RegistryHook
<1>4. \A id \in DOMAIN rec : ~Hooked(id) /\ (Hooked(id)' <=> id = it) /\ (Placed(id)' <=> Placed(id))
  BY <1>1, <1>2, <1>3 DEF Hooked, Placed
<1>5. call.vol \in Nat /\ rec[it].filled \in Nat
  BY <1>2, RecordedOrder
<1>6. ASSUME NEW id \in DOMAIN rec
      PROVE  /\ Settled(id)' = Settled(id)
             /\ \A asset \in Assets : Needed(id, asset)' = Needed(id, asset)
  <2>1. CASE id = it
    <3>1. rec[id].filled \in Nat /\ rec'[id].filled = rec[id].filled + call.vol
          /\ call'.vol = call.vol /\ Hooked(id)' /\ ~Hooked(id)
      BY <1>2, <1>4, <1>5, <2>1
    <3>2. Settled(id)' = Settled(id)
      <4>1. Settled(id)' = rec'[id].filled - call'.vol
        BY <3>1, NeedIsNext
      <4>2. Settled(id) = rec[id].filled
        BY <3>1, NeedIs
      <4>3. rec'[id].filled - call'.vol = rec[id].filled
        BY <1>5, <3>1
      <4> QED
        BY <4>1, <4>2, <4>3
    <3>3. ~Ended(id) /\ ~Ended(id)'
      BY <1>2, <1>4, <2>1 DEF Ended
    <3>4. LockAsset(rec'[id]) = LockAsset(rec[id])
          /\ LockAmount(rec'[id], rec'[id].size - Settled(id)')
                = LockAmount(rec[id], rec[id].size - Settled(id))
      BY <1>2, <2>1, <3>2 DEF LockAsset, LockAmount
    <3> QED
      BY <3>2, <3>3, <3>4, NeedIs, NeedIsNext
  <2>2. CASE id # it
    <3>1. rec'[id] = rec[id] /\ (Ended(id)' <=> Ended(id))
      BY <1>2, <1>4, <2>2 DEF Ended
    <3>2. Settled(id)' = Settled(id)
      BY <1>4, <2>2, <3>1, NeedIs, NeedIsNext
    <3> QED
      BY <3>1, <3>2, NeedIs, NeedIsNext
  <2> QED
    BY <2>1, <2>2
<1>7. \A t \in Threads, asset \in Assets : Entering(t, asset)' = Entering(t, asset)
  BY <1>3 DEF Entering
<1> QED
  BY <1>2, <1>3, <1>6, <1>7, HoldsSame

\* A removed record needs what it did until its placement gives it back.
LEMMA RemoveHolds ==
    ASSUME CoinbaseHands, OrdersGood, HoldsMatchOrders, NEW t \in Threads, RemoveRecord(t)
    PROVE  HoldsMatchOrders'
<1>1. PICK it : it = req[t].id
  OBVIOUS
<1>2. /\ it \in DOMAIN rec /\ DOMAIN rec' = DOMAIN rec
      /\ \A id \in DOMAIN rec : id # it => rec'[id] = rec[id]
      /\ rec[it].status = "OPEN" /\ rec'[it] = [rec[it] EXCEPT !.status = "REMOVED"]
      /\ pc[t] = "place" /\ pc'[t] = "undo" /\ req' = req
      /\ \A u \in Threads \ {t} : pc'[u] = pc[u]
  BY <1>1, RemoveGood
<1>3. UNCHANGED <<bal, call>>
  BY DEF RemoveRecord
<1>4. /\ rec'[it].status = "REMOVED" /\ rec'[it].side = rec[it].side /\ rec'[it].kind = rec[it].kind
      /\ rec'[it].price = rec[it].price /\ rec'[it].size = rec[it].size
      /\ rec'[it].filled = rec[it].filled
  BY <1>2, RecordedOrder DEF OrderRecs
<1>5. \A id \in DOMAIN rec : (Hooked(id)' <=> Hooked(id)) /\ (Placed(id)' <=> Placed(id))
  <2>1. \A u \in Threads : pc'[u] \in Entrants <=> pc[u] \in Entrants
    BY <1>2 DEF Entrants
  <2> QED
    BY <1>2, <1>3, <2>1 DEF Hooked, Placed
<1>6. Placed(it)
  BY <1>1, <1>2 DEF Placed, Entrants
<1>7. ASSUME NEW id \in DOMAIN rec
      PROVE  /\ Settled(id)' = Settled(id)
             /\ \A asset \in Assets : Needed(id, asset)' = Needed(id, asset)
  <2>1. rec'[id].side = rec[id].side /\ rec'[id].kind = rec[id].kind
        /\ rec'[id].price = rec[id].price /\ rec'[id].size = rec[id].size
        /\ rec'[id].filled = rec[id].filled
    BY <1>2, <1>4
  <2>2. Settled(id)' = Settled(id)
    BY <1>3, <1>5, <2>1, NeedIs, NeedIsNext
  <2>3. Ended(id)' <=> Ended(id)
    BY <1>2, <1>4, <1>5, <1>6 DEF Ended
  <2>4. LockAsset(rec'[id]) = LockAsset(rec[id])
        /\ LockAmount(rec'[id], rec'[id].size - Settled(id)')
              = LockAmount(rec[id], rec[id].size - Settled(id))
    BY <2>1, <2>2 DEF LockAsset, LockAmount
  <2> QED
    BY <2>2, <2>3, <2>4, NeedIs, NeedIsNext
<1>8. \A u \in Threads, asset \in Assets : Entering(u, asset)' = Entering(u, asset)
  <2>1. \A u \in Threads : pc'[u] = "record" <=> pc[u] = "record"
    BY <1>2
  <2> QED
    BY <1>2, <2>1 DEF Entering
<1> QED
  BY <1>2, <1>3, <1>7, <1>8, HoldsSame

\* What is settled adds up to as much more as one order has settled more.
LEMMA OneSettles ==
    ASSUME CoinbaseHands, CoinbaseHands', OrdersGood, OrdersGood', DOMAIN rec' = DOMAIN rec,
           NEW it \in DOMAIN rec, NEW more \in Nat, Settled(it)' = Settled(it) + more,
           \A id \in DOMAIN rec : id # it => Settled(id)' = Settled(id)
    PROVE  /\ Truncated \in Nat
           /\ Truncated' = Truncated + (IF Scale = 1 THEN 0 ELSE more)
<1> DEFINE f == [id \in DOMAIN rec |-> Settled(id)]
           h == [id \in DOMAIN rec' |-> Settled(id)']
<1>1. f \in [DOMAIN rec -> Nat] /\ h \in [DOMAIN rec -> Nat]
  <2>1. \A id \in DOMAIN rec : Settled(id) \in Nat
    BY NeedsNat
  <2>2. \A id \in DOMAIN rec' : Settled(id)' \in Nat
    BY NeedsNatNext
  <2> QED
    BY <2>1, <2>2
<1>2. /\ f[it] = Settled(it) /\ h[it] = Settled(it)'
      /\ \A id \in DOMAIN rec \ {it} : h[id] = f[id]
  OBVIOUS
<1>3. /\ Truncated = IF Scale = 1 THEN 0 ELSE SumOf(f)
      /\ Truncated' = IF Scale = 1 THEN 0 ELSE SumOf(h)
  BY DEF Truncated
<1> HIDE DEF f, h
<1>4. SumOf(f) \in Nat /\ SumOf(h) \in Nat /\ SumOf(h) + f[it] = SumOf(f) + h[it]
  BY <1>1, <1>2, NeedsNat, SumChanges
<1>5. f[it] \in Nat /\ h[it] = f[it] + more
  BY <1>1, <1>2
<1>6. SumOf(h) = SumOf(f) + more
  BY <1>4, <1>5
<1> QED
  BY <1>3, <1>4, <1>6

\* One order's need and what is locked for it go down together, but for a unit
\* of quote where something was settled.
LEMMA HoldsMove ==
    ASSUME CoinbaseHands, CoinbaseHands', OrdersGood, OrdersGood', HoldsMatchOrders,
           bal \in Ledgers, bal' \in Ledgers,
           DOMAIN rec' = DOMAIN rec, NEW it \in DOMAIN rec, NEW more \in Nat,
           Settled(it)' = Settled(it) + more,
           \A id \in DOMAIN rec : id # it =>
              Settled(id)' = Settled(id) /\ \A asset \in Assets : Needed(id, asset)' = Needed(id, asset),
           \A t \in Threads, asset \in Assets : Entering(t, asset)' = Entering(t, asset),
           bal'["base"].locked + Needed(it, "base") = bal["base"].locked + Needed(it, "base")',
           NEW dust \in Nat, dust =< more, Scale = 1 => dust = 0,
           bal'["quote"].locked + Needed(it, "quote")
              = bal["quote"].locked + Needed(it, "quote")' + dust
    PROVE  HoldsMatchOrders'
<1>1. "base" \in Assets /\ "quote" \in Assets
  BY DEF Assets
<1>2. ASSUME NEW asset \in Assets
      PROVE  /\ TotalNeeded(asset) \in Nat /\ TotalNeeded(asset)' \in Nat
             /\ TotalNeeded(asset)' + Needed(it, asset) = TotalNeeded(asset) + Needed(it, asset)'
  BY OneNeedChanges
<1>3. ASSUME NEW asset \in Assets
      PROVE  /\ Needed(it, asset) \in Nat /\ Needed(it, asset)' \in Nat
             /\ bal[asset].locked \in Nat /\ bal'[asset].locked \in Nat
  <2>1. Needed(it, asset) \in Nat
    BY NeedsNat
  <2>2. Needed(it, asset)' \in Nat
    BY NeedsNatNext
  <2> QED
    BY <2>1, <2>2 DEF Ledgers, Holding
<1>4. Truncated \in Nat /\ Truncated' = Truncated + (IF Scale = 1 THEN 0 ELSE more)
  BY OneSettles
<1>7. bal'["base"].locked = TotalNeeded("base")'
  <2>1. PICK n : n = Needed(it, "base")
    OBVIOUS
  <2>2. PICK m : m = Needed(it, "base")'
    OBVIOUS
  <2>3. PICK t : t = TotalNeeded("base")
    OBVIOUS
  <2>4. PICK u : u = TotalNeeded("base")'
    OBVIOUS
  <2>5. n \in Nat /\ m \in Nat /\ t \in Nat /\ u \in Nat /\ u + n = t + m
    BY <1>1, <1>2, <1>3, <2>1, <2>2, <2>3, <2>4
  <2>6. PICK k : k = bal'["base"].locked
    OBVIOUS
  <2>7. k \in Nat /\ k + n = t + m
    <3>1. bal["base"].locked = t
      BY <2>3 DEF HoldsMatchOrders
    <3> QED
      BY <1>1, <1>3, <2>1, <2>2, <2>6, <3>1
  <2>8. k = u
    BY <2>5, <2>7
  <2> QED
    BY <2>4, <2>6, <2>8
<1>8. bal["quote"].locked >= TotalNeeded("quote")
      /\ bal["quote"].locked =< TotalNeeded("quote") + Truncated
  BY DEF HoldsMatchOrders
<1>9. Truncated + dust =< Truncated' /\ Truncated' \in Nat
  <2>1. CASE Scale = 1
    BY <1>4, <2>1
  <2>2. CASE Scale # 1
    BY <1>4, <2>2
  <2> QED
    BY <2>1, <2>2
<1>10. bal'["quote"].locked >= TotalNeeded("quote")'
       /\ bal'["quote"].locked =< TotalNeeded("quote")' + Truncated'
  <2>1. PICK n : n = Needed(it, "quote")
    OBVIOUS
  <2>2. PICK m : m = Needed(it, "quote")'
    OBVIOUS
  <2>3. PICK t : t = TotalNeeded("quote")
    OBVIOUS
  <2>4. PICK u : u = TotalNeeded("quote")'
    OBVIOUS
  <2>5. n \in Nat /\ m \in Nat /\ t \in Nat /\ u \in Nat /\ u + n = t + m
    BY <1>1, <1>2, <1>3, <2>1, <2>2, <2>3, <2>4
  <2>6. PICK l : l = bal["quote"].locked
    OBVIOUS
  <2>7. PICK k : k = bal'["quote"].locked
    OBVIOUS
  <2>8. l \in Nat /\ k \in Nat /\ k + n = l + m + dust /\ l >= t /\ l =< t + Truncated
    BY <1>1, <1>3, <1>8, <2>1, <2>2, <2>3, <2>6, <2>7
  <2>9. k >= u /\ k =< u + Truncated'
    BY <1>4, <1>9, <2>5, <2>8
  <2> QED
    BY <2>4, <2>7, <2>9
<1> QED
  BY <1>7, <1>10 DEF HoldsMatchOrders

\* What a single order needs is locked.
LEMMA NeedIsLocked ==
    ASSUME CoinbaseHands, OrdersGood, HoldsMatchOrders, bal \in Ledgers,
           NEW id \in DOMAIN rec, NEW asset \in Assets
    PROVE  Needed(id, asset) \in Nat /\ Needed(id, asset) =< bal[asset].locked
<1>1. /\ TotalNeeded(asset) \in Nat /\ Needed(id, asset) =< TotalNeeded(asset)
      /\ Needed(id, asset) \in Nat
  BY TotalsNat, NeedsNat
<1>2. bal[asset].locked \in Nat /\ TotalNeeded(asset) =< bal[asset].locked
  <2>1. asset = "base" \/ asset = "quote"
    BY DEF Assets
  <2>2. bal[asset].locked \in Nat
    BY DEF Ledgers, Holding
  <2>3. CASE asset = "base"
    BY <1>1, <2>2, <2>3 DEF HoldsMatchOrders
  <2>4. CASE asset = "quote"
    BY <1>1, <2>2, <2>4 DEF HoldsMatchOrders
  <2> QED
    BY <2>1, <2>2, <2>3, <2>4
<1> QED
  BY <1>1, <1>2

\* A refused placement gives back what its order needed, and the order is over.
LEMMA GiveBackHolds ==
    ASSUME CoinbaseHands, CoinbaseHands', OrdersGood, OrdersGood', HoldsMatchOrders,
           bal \in Ledgers, NEW t \in Threads, GiveBack(t)
    PROVE  bal' \in Ledgers /\ HoldsMatchOrders'
<1>1. PICK it : it = req[t].id
  OBVIOUS
<1>2. PICK o : o = rec[it]
  OBVIOUS
<1>3. PICK asset : asset = LockAsset(o)
  OBVIOUS
<1>4. PICK amt : amt = LockAmount(o, o.size)
  OBVIOUS
<1>5. /\ pc[t] = "undo" /\ pc'[t] = "idle" /\ UNCHANGED <<rec, call>>
      /\ \A u \in Threads \ {t} : pc'[u] = pc[u] /\ req'[u] = req[u]
      /\ bal' = Unlock(bal, asset, amt)
  BY <1>1, <1>2, <1>3, <1>4 DEF GiveBack, Finish, Goto, CoinbaseHands, CoinbaseTypes
<1>6. /\ it \in DOMAIN rec /\ o.size \in Nat /\ o.price \in Nat
  BY <1>1, <1>2, <1>5, RecordedOrder DEF CoinbaseHands, HasInHand, Knowing
<1>7. /\ o.filled = 0 /\ o.status = "REMOVED"
      /\ \A u \in Threads \ {t} : pc[u] \in Entrants => req[u].id # it
      /\ call.stage # "free" => call.id # it
  BY <1>1, <1>2, <1>5 DEF OrdersGood, PlacementGood, CallGood, Entrants
<1>8. Placed(it) /\ ~Placed(it)' /\ ~Hooked(it)
      /\ \A id \in DOMAIN rec : /\ Hooked(id)' <=> Hooked(id)
                                /\ id # it => (Placed(id)' <=> Placed(id))
  BY <1>1, <1>5, <1>7 DEF Placed, Hooked, Entrants
<1>9. \A id \in DOMAIN rec : Settled(id)' = Settled(id)
  BY <1>5, <1>8, NeedIs, NeedIsNext
<1>10. \A id \in DOMAIN rec : id # it =>
          \A x \in Assets : Needed(id, x)' = Needed(id, x)
  <2> SUFFICES ASSUME NEW id \in DOMAIN rec, id # it, NEW x \in Assets
               PROVE  Needed(id, x)' = Needed(id, x)
    OBVIOUS
  <2>1. Ended(id)' <=> Ended(id)
    BY <1>5, <1>8 DEF Ended
  <2> QED
    BY <1>5, <1>9, <2>1, NeedIs, NeedIsNext
<1>11. Settled(it) = 0 /\ o.size - Settled(it) = o.size
  BY <1>2, <1>6, <1>7, <1>8, NeedIs
<1>12. /\ amt \in Nat /\ asset \in Assets /\ Needed(it, asset) = amt
       /\ \A x \in Assets \ {asset} : Needed(it, x) = 0
       /\ \A x \in Assets : Needed(it, x)' = 0
  <2>1. ~Ended(it) /\ Ended(it)'
    BY <1>2, <1>5, <1>7, <1>8 DEF Ended
  <2>2. LockAmount(o, o.size - Settled(it)) = amt
    BY <1>4, <1>11
  <2>3. amt \in Nat /\ asset \in Assets
    BY <1>3, <1>4, <1>6, LockAmountNat
  <2>4. Needed(it, asset) = amt
    BY <1>2, <1>3, <2>1, <2>2, NeedIs
  <2> QED
    BY <1>2, <1>3, <2>1, <2>3, <2>4, NeedIs, NeedIsNext
<1>13. /\ bal' \in Ledgers /\ bal'[asset].locked = bal[asset].locked - amt
       /\ \A x \in Assets \ {asset} : bal'[x] = bal[x]
  <2>1. amt =< bal[asset].locked
    BY <1>6, <1>12, NeedIsLocked
  <2> QED
    BY <1>5, <1>12, <2>1, UnlockMoves
<1>14. \A x \in Assets : bal'[x].locked + Needed(it, x) = bal[x].locked + Needed(it, x)'
  <2>1. \A x \in Assets : bal[x].locked \in Nat
    BY DEF Ledgers, Holding
  <2> QED
    BY <1>12, <1>13, <2>1
<1>15. \A u \in Threads, x \in Assets : Entering(u, x)' = Entering(u, x)
  BY <1>5 DEF Entering
<1>16. HoldsMatchOrders'
  <2>1. "base" \in Assets /\ "quote" \in Assets
    BY DEF Assets
  <2>2. Settled(it)' = Settled(it) + 0
    BY <1>6, <1>9, <1>11
  <2>3. bal'["quote"].locked + Needed(it, "quote") = bal["quote"].locked + Needed(it, "quote")' + 0
    <3>1. bal["quote"].locked \in Nat /\ Needed(it, "quote")' = 0
      BY <1>12, <2>1 DEF Ledgers, Holding
    <3> QED
      BY <1>14, <2>1, <3>1
  <2>4. 0 \in Nat /\ 0 =< 0 /\ (Scale = 1 => 0 = 0)
    OBVIOUS
  <2>5. bal'["base"].locked + Needed(it, "base") = bal["base"].locked + Needed(it, "base")'
    BY <1>14, <2>1
  <2>6. DOMAIN rec' = DOMAIN rec
    BY <1>5
  <2> QED
    BY <1>6, <1>9, <1>10, <1>13, <1>15, <2>2, <2>3, <2>4, <2>5, <2>6, HoldsMove
<1> QED
  BY <1>13, <1>16

\* What a part of an order and its rest reserve, against what both reserve: the
\* same but for a unit of the last place, and that only where products truncate.
LEMMA LockAmountSplit ==
    ASSUME NEW o, o.price \in Nat, o.side \in {"buy", "sell"}, o.kind = "limit",
           NEW part \in Nat, NEW rest \in Nat,
           NEW kept, kept = (IF o.side = "buy" THEN Mul(part, o.price) ELSE part)
    PROVE  /\ kept \in Nat /\ LockAmount(o, rest) \in Nat
           /\ \E dust \in {0, 1} : /\ LockAmount(o, rest + part) = LockAmount(o, rest) + kept + dust
                                   /\ Scale = 1 \/ o.side # "buy" => dust = 0
<1>1. LockAmount(o, rest) \in Nat /\ kept \in Nat
  <2>1. Mul(part, o.price) \in Nat
    BY MulNat
  <2> QED
    BY <2>1, LockAmountNat
<1>2. CASE o.side = "sell"
  <2>1. LockAmount(o, rest + part) = rest + part /\ LockAmount(o, rest) = rest /\ kept = part
    BY <1>2 DEF LockAmount
  <2>2. rest + part = rest + part + 0
    OBVIOUS
  <2> QED
    BY <1>1, <1>2, <2>1, <2>2
<1>3. CASE o.side = "buy"
  <2>1. PICK p \in Nat : p = o.price
    OBVIOUS
  <2>2. \A x \in Nat : Mul(p, x) = Mul(x, p) /\ Mul(x, p) \in Nat
    <3>1. \A x \in Nat : p * x = x * p
      OBVIOUS
    <3> QED
      BY <3>1, MulNat DEF Mul
  <2>3. /\ LockAmount(o, rest + part) = Mul(rest + part, p)
        /\ LockAmount(o, rest) = Mul(rest, p) /\ kept = Mul(part, p)
    <3>1. LockAmount(o, rest + part) = Mul(p, rest + part) /\ LockAmount(o, rest) = Mul(p, rest)
      BY <1>3, <2>1 DEF LockAmount
    <3>2. rest + part \in Nat
      OBVIOUS
    <3> QED
      BY <1>3, <2>1, <2>2, <3>1, <3>2
  <2>4. PICK a \in Nat : a = Mul(rest, p)
    BY <2>2
  <2>5. PICK b \in Nat : b = Mul(part, p)
    BY <2>2
  <2>6. PICK c \in Nat : c = Mul(rest + part, p)
    <3>1. rest + part \in Nat
      OBVIOUS
    <3> QED
      BY <2>2, <3>1
  <2>7. a + b =< c /\ c =< a + b + 1
    BY <2>4, <2>5, <2>6, MulSplit
  <2>8. Scale = 1 => c = a + b
    <3> SUFFICES ASSUME Scale = 1 PROVE c = a + b
      OBVIOUS
    <3>1. \A x \in Nat : x \div Scale = x
      OBVIOUS
    <3>2. rest * p \in Nat /\ part * p \in Nat /\ (rest + part) * p \in Nat
          /\ (rest + part) * p = rest * p + part * p
      OBVIOUS
    <3>3. a = rest * p /\ b = part * p /\ c = (rest + part) * p
      BY <2>4, <2>5, <2>6, <3>1, <3>2 DEF Mul
    <3> QED
      BY <3>2, <3>3
  <2>9. PICK d : d = c - (a + b)
    OBVIOUS
  <2>10. d \in {0, 1} /\ c = a + b + d /\ (Scale = 1 => d = 0)
    BY <2>7, <2>8, <2>9
  <2> QED
    BY <1>1, <1>3, <2>3, <2>4, <2>5, <2>6, <2>10
<1> QED
  BY <1>1, <1>2, <1>3

\* Once the ledger has followed the registry, what the order needs no more is
\* no longer locked.
LEMMA LedgerHookHolds ==
    ASSUME CoinbaseHands, CoinbaseHands', OrdersGood, OrdersGood', HoldsMatchOrders,
           bal \in Ledgers, LedgerHook
    PROVE  bal' \in Ledgers /\ HoldsMatchOrders'
<1>1. PICK it : it = call.id
  OBVIOUS
<1>2. PICK o : o = rec[it]
  OBVIOUS
<1>3. PICK vol : vol = call.vol
  OBVIOUS
<1>4. PICK asset : asset = LockAsset(o)
  OBVIOUS
<1>5. /\ call.stage = "ledger" /\ call' = [call EXCEPT !.stage = "return"]
      /\ UNCHANGED <<rec, pc, req>>
      /\ bal' = IF vol = 0 THEN UnlockRemainder(o)
                ELSE SettleFill(bal, o.side = "buy", "base", "quote", vol, call.price, o.price)
  BY <1>1, <1>2, <1>3 DEF LedgerHook, Stage, Then
<1>6. /\ it \in DOMAIN rec /\ o \in OrderRecs /\ o.size \in Nat /\ o.price \in Nat /\ o.filled \in Nat
      /\ o.side \in {"buy", "sell"} /\ o.kind \in {"limit", "market"}
      /\ vol \in Nat /\ call.price \in Nat
  BY <1>1, <1>2, <1>3, <1>5, RecordedOrder DEF CoinbaseHands, OrderRecs, Calls
<1>7. /\ vol =< o.filled /\ o.filled =< o.size
      /\ o.status \in (IF vol = 0 THEN {"CANCELLED"} ELSE {"OPEN", "FILLED"})
      /\ o.kind = "limit" <=> o.price > 0
  <2>1. FillsGood(it) /\ Due(it) = 0
    BY <1>1, <1>5, <1>6 DEF OrdersGood, Due
  <2> QED
    BY <1>1, <1>2, <1>3, <1>5, <1>6, <2>1 DEF OrdersGood, CallGood, FillsGood
<1>8. /\ \A id \in DOMAIN rec : /\ Hooked(id) <=> id = it
                                /\ Placed(id)' <=> Placed(id)
      /\ \A id \in DOMAIN rec : ~Hooked(id)'
  <2>1. call'.stage = "return"
    BY <1>5 DEF CoinbaseHands, CoinbaseTypes, Calls
  <2> QED
    BY <1>1, <1>5, <2>1 DEF Hooked, Placed
<1>9. \A id \in DOMAIN rec : id # it =>
          Settled(id)' = Settled(id) /\ \A x \in Assets : Needed(id, x)' = Needed(id, x)
  <2> SUFFICES ASSUME NEW id \in DOMAIN rec, id # it
               PROVE  Settled(id)' = Settled(id) /\ \A x \in Assets : Needed(id, x)' = Needed(id, x)
    OBVIOUS
  <2>1. Settled(id)' = Settled(id)
    BY <1>5, <1>8, NeedIs, NeedIsNext
  <2>2. Ended(id)' <=> Ended(id)
    BY <1>5, <1>8 DEF Ended
  <2> QED
    BY <1>5, <2>1, <2>2, NeedIs, NeedIsNext
<1>10. PICK rest \in Nat : rest = o.size - o.filled
  BY <1>6, <1>7
<1>11. /\ Settled(it) = o.filled - vol /\ Settled(it)' = o.filled
       /\ Settled(it)' = Settled(it) + vol
       /\ o.size - Settled(it) = rest + vol /\ o.size - Settled(it)' = rest
  <2>1. Settled(it) = o.filled - vol
    BY <1>2, <1>3, <1>6, <1>8, NeedIs
  <2>2. Settled(it)' = o.filled
    <3>1. rec'[it] = o /\ ~Hooked(it)'
      BY <1>2, <1>5, <1>6, <1>8
    <3> QED
      BY <1>6, <3>1, NeedIsNext
  <2> QED
    BY <1>6, <1>7, <1>10, <2>1, <2>2
<1>12. /\ ~Ended(it)
       /\ vol = 0 => Ended(it)'
       /\ vol # 0 => ~Ended(it)'
  BY <1>2, <1>5, <1>6, <1>7, <1>8 DEF Ended
<1>13. /\ asset \in Assets /\ LockAmount(o, rest) \in Nat /\ LockAmount(o, rest + vol) \in Nat
       /\ Needed(it, asset) = LockAmount(o, rest + vol)
       /\ Needed(it, asset)' = IF vol = 0 THEN 0 ELSE LockAmount(o, rest)
       /\ \A x \in Assets \ {asset} : Needed(it, x) = 0 /\ Needed(it, x)' = 0
  <2>1. rest + vol \in Nat
    BY <1>6
  <2>2. asset \in Assets /\ LockAmount(o, rest) \in Nat /\ LockAmount(o, rest + vol) \in Nat
    BY <1>4, <1>6, <1>10, <2>1, LockAmountNat
  <2>3. Needed(it, asset) = LockAmount(o, rest + vol)
    BY <1>2, <1>4, <1>11, <1>12, NeedIs
  <2>4. rec'[it] = o
    BY <1>2, <1>5
  <2>5. Needed(it, asset)' = IF vol = 0 THEN 0 ELSE LockAmount(o, rest)
    <3>1. CASE vol = 0
      BY <1>12, <3>1, NeedIsNext
    <3>2. CASE vol # 0
      BY <1>4, <1>11, <1>12, <2>4, <3>2, NeedIsNext
    <3> QED
      BY <3>1, <3>2
  <2>6. \A x \in Assets \ {asset} : Needed(it, x) = 0 /\ Needed(it, x)' = 0
    BY <1>2, <1>4, <2>4, NeedIs, NeedIsNext
  <2> QED
    BY <2>2, <2>3, <2>5, <2>6
<1>14. /\ Needed(it, asset) \in Nat /\ Needed(it, asset) =< bal[asset].locked
       /\ \A x \in Assets : bal[x].locked \in Nat
  BY <1>6, <1>13, NeedIsLocked DEF Ledgers, Holding
<1>15. \E dust \in {0, 1} :
          /\ Scale = 1 \/ vol = 0 \/ asset = "base" => dust = 0
          /\ bal' \in Ledgers
          /\ bal'[asset].locked + Needed(it, asset) = bal[asset].locked + Needed(it, asset)' + dust
          /\ \A x \in Assets \ {asset} : bal'[x].locked = bal[x].locked
  <2>1. CASE vol = 0
    <3>1. bal' = Unlock(bal, asset, LockAmount(o, rest)) /\ rest + vol = rest
      BY <1>4, <1>5, <1>10, <2>1 DEF UnlockRemainder
    <3>2. PICK amt \in Nat : amt = LockAmount(o, rest)
      BY <1>13
    <3>3. Needed(it, asset) = amt /\ Needed(it, asset)' = 0
      BY <1>13, <2>1, <3>1, <3>2
    <3>4. /\ bal' \in Ledgers /\ bal'[asset].locked = bal[asset].locked - amt
          /\ \A x \in Assets \ {asset} : bal'[x] = bal[x]
      BY <1>13, <1>14, <3>1, <3>2, <3>3, UnlockMoves
    <3>5. bal'[asset].locked + Needed(it, asset) = bal[asset].locked + Needed(it, asset)' + 0
      BY <1>13, <1>14, <3>3, <3>4
    <3> QED
      BY <3>4, <3>5
  <2>2. CASE vol # 0 /\ o.kind = "market"
    <3>1. o.price = 0
      BY <1>6, <1>7, <2>2
    <3>2. bal' = SettleMarket(bal, o.side = "buy", "base", "quote", vol, call.price)
      BY <1>5, <2>2, <3>1 DEF SettleFill
    <3>3. PICK isBuy \in BOOLEAN : isBuy = (o.side = "buy")
      OBVIOUS
    <3>4. /\ bal' \in Ledgers
          /\ \A x \in Assets : bal'[x].locked = bal[x].locked
      <4>1. bal' = SettleMarket(bal, isBuy, "base", "quote", vol, call.price)
        BY <3>2, <3>3
      <4>2. bal \in Ledgers /\ vol \in Nat /\ call.price \in Nat /\ isBuy \in BOOLEAN
        BY <1>6
      <4> QED
        BY ONLY <4>1, <4>2, MarketSettles
    <3>5. Needed(it, asset) = 0 /\ Needed(it, asset)' = 0
      BY <1>13, <2>2 DEF LockAmount
    <3>6. bal'[asset].locked + Needed(it, asset) = bal[asset].locked + Needed(it, asset)' + 0
      BY <1>13, <1>14, <3>4, <3>5
    <3> QED
      BY <3>4, <3>6
  <2>3. CASE vol # 0 /\ o.kind = "limit"
    <3>1. o.price > 0
      BY <1>7, <2>3
    <3>2. bal' = SettleLimit(bal, o.side = "buy", "base", "quote", vol, call.price, o.price)
      BY <1>5, <1>6, <2>3, <3>1 DEF SettleFill
    <3>3. PICK isBuy \in BOOLEAN : isBuy = (o.side = "buy")
      OBVIOUS
    <3>4. PICK kept : kept = IF o.side = "buy" THEN Mul(vol, o.price) ELSE vol
      OBVIOUS
    <3>5. PICK dust \in {0, 1} :
             /\ kept \in Nat
             /\ LockAmount(o, rest + vol) = LockAmount(o, rest) + kept + dust
             /\ Scale = 1 \/ o.side # "buy" => dust = 0
      BY <1>6, <2>3, <3>4, LockAmountSplit
    <3>6. kept =< bal[asset].locked /\ dust \in Nat
      BY <1>13, <1>14, <3>5
    <3>7. asset = (IF isBuy THEN "quote" ELSE "base") /\ (asset = "base" => o.side # "buy")
      BY <1>4, <3>3 DEF LockAsset
    <3>8. /\ bal' \in Ledgers /\ bal'[asset].locked = bal[asset].locked - kept
          /\ \A x \in Assets \ {asset} : bal'[x].locked = bal[x].locked
      <4>1. kept = (IF isBuy THEN Mul(vol, o.price) ELSE vol)
        BY <3>3, <3>4
      <4>2. PICK new : new = bal'
        OBVIOUS
      <4>3. new = SettleLimit(bal, isBuy, "base", "quote", vol, call.price, o.price)
        BY <3>2, <3>3, <4>2
      <4>4. PICK price \in Nat : price = call.price
        BY <1>6
      <4>5. PICK limit \in Nat : limit = o.price
        BY <1>6
      <4>6. /\ bal \in Ledgers /\ vol \in Nat /\ price \in Nat /\ isBuy \in BOOLEAN
            /\ limit \in Nat /\ asset \in Assets /\ kept \in Nat
        BY <1>6, <1>13, <3>5
      <4>7. /\ kept =< bal[asset].locked /\ asset = (IF isBuy THEN "quote" ELSE "base")
            /\ kept = (IF isBuy THEN Mul(vol, limit) ELSE vol)
            /\ new = SettleLimit(bal, isBuy, "base", "quote", vol, price, limit)
        BY <3>6, <3>7, <4>1, <4>3, <4>4, <4>5
      <4>8. /\ new \in Ledgers /\ new[asset].locked = bal[asset].locked - kept
            /\ \A x \in Assets \ {asset} : new[x].locked = bal[x].locked
        BY ONLY <4>6, <4>7, LimitSettles
      <4> QED
        BY <4>2, <4>8
    <3>9. bal'[asset].locked + Needed(it, asset) = bal[asset].locked + Needed(it, asset)' + dust
      <4>1. Needed(it, asset)' = LockAmount(o, rest)
        BY <1>13, <2>3
      <4> QED
        BY <1>13, <1>14, <3>5, <3>6, <3>8, <4>1
    <3>10. Scale = 1 \/ vol = 0 \/ asset = "base" => dust = 0
      BY <2>3, <3>5, <3>7
    <3> QED
      BY <3>8, <3>9, <3>10
  <2> QED
    BY <1>6, <2>1, <2>2, <2>3
<1>16. PICK dust \in {0, 1} :
          /\ Scale = 1 \/ vol = 0 \/ asset = "base" => dust = 0
          /\ bal' \in Ledgers
          /\ bal'[asset].locked + Needed(it, asset) = bal[asset].locked + Needed(it, asset)' + dust
          /\ \A x \in Assets \ {asset} : bal'[x].locked = bal[x].locked
  BY <1>15
<1>17. \A u \in Threads, x \in Assets : Entering(u, x)' = Entering(u, x)
  BY <1>5 DEF Entering
<1>18. HoldsMatchOrders'
  <2>1. "base" \in Assets /\ "quote" \in Assets /\ (asset = "base" \/ asset = "quote")
    BY <1>13 DEF Assets
  <2>2. PICK d \in {0, 1} :
           /\ d =< vol /\ (Scale = 1 => d = 0)
           /\ bal'["base"].locked + Needed(it, "base") = bal["base"].locked + Needed(it, "base")'
           /\ bal'["quote"].locked + Needed(it, "quote")
                 = bal["quote"].locked + Needed(it, "quote")' + d
    <3>1. CASE asset = "base"
      <4>1. dust = 0 /\ bal'["quote"].locked = bal["quote"].locked
            /\ Needed(it, "quote") = 0 /\ Needed(it, "quote")' = 0
        BY <1>13, <1>16, <2>1, <3>1
      <4>2. /\ bal["base"].locked \in Nat /\ bal["quote"].locked \in Nat
            /\ Needed(it, "base")' \in Nat
        <5>1. 0 \in Nat
          OBVIOUS
        <5> QED
          BY <1>13, <1>14, <2>1, <3>1, <5>1
      <4>3. bal'["base"].locked + Needed(it, "base") = bal["base"].locked + Needed(it, "base")'
        BY <1>16, <3>1, <4>1, <4>2
      <4>4. bal'["quote"].locked + Needed(it, "quote")
               = bal["quote"].locked + Needed(it, "quote")' + 0
        BY <4>1, <4>2
      <4> QED
        BY <1>6, <4>3, <4>4
    <3>2. CASE asset = "quote"
      <4>1. bal'["base"].locked = bal["base"].locked
            /\ Needed(it, "base") = 0 /\ Needed(it, "base")' = 0
        BY <1>13, <1>16, <2>1, <3>2
      <4>2. dust =< vol
        BY <1>6, <1>16
      <4> QED
        BY <1>16, <3>2, <4>1, <4>2
    <3> QED
      BY <2>1, <3>1, <3>2
  <2>3. d \in Nat /\ DOMAIN rec' = DOMAIN rec
    BY <1>5
  <2> QED
    BY <1>6, <1>9, <1>11, <1>16, <1>17, <2>2, <2>3, HoldsMove
<1> QED
  BY <1>16, <1>18

\* A reservation is needed from the moment it is locked.
LEMMA CreateHolds ==
    ASSUME CoinbaseHands, OrdersGood, HoldsMatchOrders, bal \in Ledgers,
           NEW t \in Threads, NEW o \in ClientOrders, CreateOrder(t, o)
    PROVE  bal' \in Ledgers /\ HoldsMatchOrders'
<1>1. PICK asset : asset = LockAsset(o)
  OBVIOUS
<1>2. PICK amt : amt = LockAmount(o, o.size)
  OBVIOUS
<1>3. /\ Lockable(bal, asset, amt) /\ bal' = Lock(bal, asset, amt) /\ UNCHANGED <<rec, call>>
      /\ pc[t] = "idle" /\ pc'[t] = "record" /\ req'[t] = o
      /\ \A u \in Threads \ {t} : pc'[u] = pc[u] /\ req'[u] = req[u]
  BY <1>1, <1>2 DEF CreateOrder, Goto, CoinbaseHands, CoinbaseTypes
<1>4. asset \in Assets /\ amt \in Nat
  <2>1. o.price \in Nat /\ o.size \in Nat
    BY CoinbaseAssumption
  <2> QED
    BY <1>1, <1>2, <2>1, LockAmountNat
<1>5. /\ bal' \in Ledgers /\ bal'[asset].locked = bal[asset].locked + amt
      /\ \A x \in Assets \ {asset} : bal'[x] = bal[x]
  BY <1>3, <1>4, LockMoves
<1>6. \A id \in DOMAIN rec :
          /\ Settled(id)' = Settled(id)
          /\ \A x \in Assets : Needed(id, x)' = Needed(id, x)
  <2>1. \A id \in DOMAIN rec : (Placed(id)' <=> Placed(id)) /\ (Hooked(id)' <=> Hooked(id))
    BY <1>3 DEF Placed, Hooked, Entrants
  <2> QED
    BY <1>3, <2>1, NeedsUnmoved
<1>7. /\ \A x \in Assets : Entering(t, x) = 0 /\ Entering(t, x)' = (IF x = asset THEN amt ELSE 0)
      /\ \A u \in Threads, x \in Assets : u # t => Entering(u, x)' = Entering(u, x)
  BY <1>1, <1>2, <1>3 DEF Entering
<1>8. ASSUME NEW x \in Assets
      PROVE  /\ TotalNeeded(x) \in Nat
             /\ TotalNeeded(x)' = TotalNeeded(x) + (IF x = asset THEN amt ELSE 0)
  <2> DEFINE f == [id \in DOMAIN rec |-> Needed(id, x)]
             g == [u \in Threads |-> Entering(u, x)]
             h == [u \in Threads |-> Entering(u, x)']
  <2>1. f \in [DOMAIN rec -> Nat] /\ g \in [Threads -> Nat]
    BY NeedsNat
  <2>2. /\ \A u \in Threads \ {t} : h[u] = g[u]
        /\ g[t] = 0 /\ h[t] = (IF x = asset THEN amt ELSE 0)
    BY <1>7
  <2>3. h \in [Threads -> Nat]
    <3>1. \A u \in Threads : Entering(u, x)' \in Nat
      BY <1>4, <1>7, NeedsNat
    <3> QED
      BY <3>1
  <2>4. TotalNeeded(x) = SumOf(f) + SumOf(g) /\ TotalNeeded(x)' = SumOf(f) + SumOf(h)
    <3>1. [id \in DOMAIN rec' |-> Needed(id, x)'] = f
      BY <1>3, <1>6
    <3> QED
      BY <3>1 DEF TotalNeeded
  <2> HIDE DEF f, g, h
  <2>5. SumOf(f) \in Nat
    BY <2>1, NeedsNat, UnitsFinite
  <2>6. SumOf(g) \in Nat /\ SumOf(h) \in Nat /\ SumOf(h) + g[t] = SumOf(g) + h[t]
    BY <2>1, <2>2, <2>3, NeedsNat, SumChanges
  <2>7. PICK more \in Nat : more = (IF x = asset THEN amt ELSE 0)
    BY <1>4
  <2>8. SumOf(h) = SumOf(g) + more
    BY <2>2, <2>6, <2>7
  <2> QED
    BY <2>4, <2>5, <2>6, <2>7, <2>8
<1>9. Truncated' = Truncated /\ Truncated \in Nat
  <2>1. [id \in DOMAIN rec' |-> Settled(id)'] = [id \in DOMAIN rec |-> Settled(id)]
    BY <1>3, <1>6
  <2> QED
    BY <2>1, TotalsNat DEF Truncated
<1>10. \A x \in Assets : bal'[x].locked = bal[x].locked + (IF x = asset THEN amt ELSE 0)
                         /\ bal[x].locked \in Nat
  <2>1. \A x \in Assets : bal[x].locked \in Nat
    BY DEF Ledgers, Holding
  <2> QED
    BY <1>4, <1>5, <2>1
<1>11. HoldsMatchOrders'
  <2>1. "base" \in Assets /\ "quote" \in Assets
    BY DEF Assets
  <2>2. PICK m \in Nat : m = (IF "base" = asset THEN amt ELSE 0)
    BY <1>4
  <2>3. PICK n \in Nat : n = (IF "quote" = asset THEN amt ELSE 0)
    BY <1>4
  <2>4. /\ bal'["base"].locked = bal["base"].locked + m
        /\ TotalNeeded("base")' = TotalNeeded("base") + m
    BY <1>8, <1>10, <2>1, <2>2
  <2>5. /\ bal'["quote"].locked = bal["quote"].locked + n /\ bal["quote"].locked \in Nat
        /\ TotalNeeded("quote")' = TotalNeeded("quote") + n /\ TotalNeeded("quote") \in Nat
    BY <1>8, <1>10, <2>1, <2>3
  <2> QED
    BY <1>9, <2>4, <2>5 DEF HoldsMatchOrders
<1> QED
  BY <1>5, <1>11

\* Recording an order moves what it needs from the handler to the record.
LEMMA RecordHolds ==
    ASSUME CoinbaseHands, CoinbaseHands', OrdersGood, HoldsMatchOrders,
           NEW t \in Threads, Record(t)
    PROVE  HoldsMatchOrders'
<1>1. PICK new : new = NextId
  OBVIOUS
<1>2. /\ new \notin DOMAIN rec /\ DOMAIN rec' = DOMAIN rec \cup {new}
      /\ \A id \in DOMAIN rec : rec'[id] = rec[id]
      /\ req[t] \in ClientOrders /\ pc[t] = "record"
      /\ pc' = [pc EXCEPT ![t] = "place"] /\ req' = [req EXCEPT ![t] = [id |-> new]]
      /\ rec'[new] = [side |-> req[t].side, kind |-> req[t].kind,
                      price |-> req[t].price, size |-> req[t].size,
                      filled |-> 0, status |-> "OPEN"]
      /\ OrdersGood'
  BY <1>1, RecordGood
<1>3. UNCHANGED <<bal, call>>
  BY DEF Record
<1>4. /\ pc'[t] = "place" /\ req'[t].id = new
      /\ \A u \in Threads \ {t} : pc'[u] = pc[u] /\ req'[u] = req[u]
  BY <1>2 DEF CoinbaseHands, CoinbaseTypes
<1>5. ~Hooked(new)'
  BY <1>2, <1>3 DEF Hooked, CoinbaseHands
<1>6. \A id \in DOMAIN rec : /\ Hooked(id)' <=> Hooked(id)
                             /\ Placed(id)' <=> Placed(id)
  BY <1>2, <1>3, <1>4 DEF Hooked, Placed, Entrants
<1>7. \A id \in DOMAIN rec :
          /\ Settled(id)' = Settled(id)
          /\ \A x \in Assets : Needed(id, x)' = Needed(id, x)
  <2> SUFFICES ASSUME NEW id \in DOMAIN rec
               PROVE  /\ Settled(id)' = Settled(id)
                      /\ \A x \in Assets : Needed(id, x)' = Needed(id, x)
    OBVIOUS
  <2>1. Settled(id)' = Settled(id)
    BY <1>2, <1>3, <1>6, NeedIs, NeedIsNext
  <2>2. Ended(id)' <=> Ended(id)
    BY <1>2, <1>6 DEF Ended
  <2> QED
    BY <1>2, <2>1, <2>2, NeedIs, NeedIsNext
<1>8. Settled(new)' = 0 /\ \A x \in Assets : Needed(new, x)' = Entering(t, x) /\ Entering(t, x)' = 0
  <2>1. rec'[new].filled = 0 /\ rec'[new].status = "OPEN" /\ rec'[new].side = req[t].side
        /\ rec'[new].kind = req[t].kind /\ rec'[new].price = req[t].price
        /\ rec'[new].size = req[t].size /\ req[t].size \in Nat
    BY <1>2, CoinbaseAssumption
  <2>2. Settled(new)' = 0
    BY <1>5, <2>1, NeedIsNext
  <2>3. ~Ended(new)' /\ rec'[new].size - Settled(new)' = req[t].size
    BY <2>1, <2>2 DEF Ended
  <2>4. LockAsset(rec'[new]) = LockAsset(req[t])
        /\ LockAmount(rec'[new], rec'[new].size - Settled(new)') = LockAmount(req[t], req[t].size)
    BY <2>1, <2>3 DEF LockAsset, LockAmount
  <2>5. \A x \in Assets : Needed(new, x)' = Entering(t, x)
    BY <1>2, <2>3, <2>4, NeedIsNext DEF Entering
  <2>6. \A x \in Assets : Entering(t, x)' = 0
    BY <1>4 DEF Entering
  <2> QED
    BY <2>2, <2>5, <2>6
<1>9. ASSUME NEW x \in Assets PROVE TotalNeeded(x)' = TotalNeeded(x)
  <2> DEFINE f == [id \in DOMAIN rec |-> Needed(id, x)]
             g == [u \in Threads |-> Entering(u, x)]
             h == [u \in Threads |-> Entering(u, x)']
             e == [id \in DOMAIN rec' |-> Needed(id, x)']
  <2>1. f \in [DOMAIN rec -> Nat] /\ g \in [Threads -> Nat]
    BY NeedsNat
  <2>2. e \in [DOMAIN rec \cup {new} -> Nat] /\ h \in [Threads -> Nat]
    <3>1. \A id \in DOMAIN rec' : Needed(id, x)' \in Nat
      BY <1>2, NeedsNatNext
    <3>2. \A u \in Threads : Entering(u, x)' \in Nat
      BY <1>2, NeedsNatNext
    <3> QED
      BY <1>2, <3>1, <3>2
  <2>3. /\ \A id \in DOMAIN rec : e[id] = f[id]
        /\ e[new] = g[t] /\ h[t] = 0
        /\ \A u \in Threads \ {t} : h[u] = g[u]
    <3>1. \A u \in Threads \ {t} : Entering(u, x)' = Entering(u, x)
      BY <1>4 DEF Entering
    <3> QED
      BY <1>2, <1>7, <1>8, <3>1
  <2>4. TotalNeeded(x) = SumOf(f) + SumOf(g) /\ TotalNeeded(x)' = SumOf(e) + SumOf(h)
    BY DEF TotalNeeded
  <2> HIDE DEF e, f, g, h
  <2>5. SumOf(f) \in Nat /\ SumOf(e) = SumOf(f) + e[new]
    <3>1. IsFiniteSet(DOMAIN rec)
      BY NeedsNat
    <3>2. new \notin DOMAIN rec
      BY <1>2
    <3>3. PICK T : T = DOMAIN rec \cup {new}
      OBVIOUS
    <3>4. f \in [DOMAIN rec -> Nat] /\ e \in [T -> Nat] /\ \A id \in DOMAIN rec : e[id] = f[id]
      BY <2>1, <2>2, <2>3, <3>3
    <3> QED
      BY ONLY <3>1, <3>2, <3>3, <3>4, SumExtends
  <2>6. SumOf(g) \in Nat /\ SumOf(h) \in Nat /\ SumOf(h) + g[t] = SumOf(g) + h[t]
    BY <2>1, <2>2, <2>3, NeedsNat, SumChanges
  <2>7. g[t] \in Nat
    BY <2>1
  <2> QED
    BY <2>3, <2>4, <2>5, <2>6, <2>7
<1>10. Truncated' = Truncated
  <2> DEFINE f == [id \in DOMAIN rec |-> Settled(id)]
             e == [id \in DOMAIN rec' |-> Settled(id)']
  <2>1. f \in [DOMAIN rec -> Nat] /\ e \in [DOMAIN rec \cup {new} -> Nat]
    <3>1. \A id \in DOMAIN rec : Settled(id) \in Nat
      BY NeedsNat
    <3>2. \A id \in DOMAIN rec' : Settled(id)' \in Nat
      BY <1>2, NeedsNatNext
    <3> QED
      BY <1>2, <3>1, <3>2
  <2>2. e[new] = 0 /\ \A id \in DOMAIN rec : e[id] = f[id]
    BY <1>2, <1>7, <1>8
  <2>3. /\ Truncated = IF Scale = 1 THEN 0 ELSE SumOf(f)
        /\ Truncated' = IF Scale = 1 THEN 0 ELSE SumOf(e)
    BY DEF Truncated
  <2> HIDE DEF e, f
  <2>4. SumOf(f) \in Nat /\ SumOf(e) = SumOf(f) + e[new]
    <3>1. IsFiniteSet(DOMAIN rec)
      BY NeedsNat
    <3>2. new \notin DOMAIN rec
      BY <1>2
    <3>3. PICK T : T = DOMAIN rec \cup {new}
      OBVIOUS
    <3>4. f \in [DOMAIN rec -> Nat] /\ e \in [T -> Nat] /\ \A id \in DOMAIN rec : e[id] = f[id]
      BY <2>1, <2>2, <3>3
    <3> QED
      BY ONLY <3>1, <3>2, <3>3, <3>4, SumExtends
  <2> QED
    BY <2>2, <2>3, <2>4
<1>11. "base" \in Assets /\ "quote" \in Assets
  BY DEF Assets
<1> QED
  BY <1>3, <1>9, <1>10, <1>11 DEF HoldsMatchOrders

\* What makes the reservations match, step by step.
HoldsInv ==
    /\ CoinbaseInv
    /\ OrdersGood
    /\ bal \in Ledgers
    /\ HoldsMatchOrders

\* It holds at the start, with no order and nothing locked,
LEMMA HoldsStart == CoinbaseInit => HoldsInv
<1> SUFFICES ASSUME CoinbaseInit PROVE HoldsInv
  OBVIOUS
<1>1. /\ DOMAIN rec = {} /\ call = NoCall /\ \A t \in Threads : pc[t] = "idle"
      /\ bal = [a \in Assets |-> [free |-> Deposit, locked |-> 0]]
  BY DEF CoinbaseInit
<1>2. OrdersGood
  BY <1>1 DEF OrdersGood, CallGood, PlacementGood, NoCall, Entrants
<1>3. bal \in Ledgers /\ \A asset \in Assets : bal[asset].locked = 0
  BY <1>1, CoinbaseAssumption DEF Ledgers, Holding
<1>4. \A asset \in Assets : TotalNeeded(asset) = 0
  <2> SUFFICES ASSUME NEW asset \in Assets PROVE TotalNeeded(asset) = 0
    OBVIOUS
  <2> DEFINE f == [id \in DOMAIN rec |-> Needed(id, asset)]
             g == [t \in Threads |-> Entering(t, asset)]
  <2>1. f \in [{} -> Nat] /\ g \in [Threads -> Nat] /\ \A t \in Threads : g[t] = 0
    BY <1>1 DEF Entering
  <2>2. TotalNeeded(asset) = SumOf(f) + SumOf(g)
    BY DEF TotalNeeded
  <2> HIDE DEF f, g
  <2>3. SumOf(f) = 0
    BY <2>1, FS_EmptySet, SumZero
  <2>4. SumOf(g) = 0
    BY <2>1, CoinbaseAssumption, SumZero
  <2> QED
    BY <2>2, <2>3, <2>4
<1>5. CoinbaseInv
  BY CoinbaseStarts
<1>6. Truncated \in Nat
  BY <1>2, <1>5, TotalsNat DEF CoinbaseInv
<1>7. "base" \in Assets /\ "quote" \in Assets
  BY DEF Assets
<1>8. HoldsMatchOrders
  BY <1>3, <1>4, <1>6, <1>7 DEF HoldsMatchOrders
<1> QED
  BY <1>2, <1>3, <1>5, <1>8 DEF HoldsInv

\* and every step keeps it.
LEMMA HoldsStep == HoldsInv /\ [CoinbaseNext]_coinbaseVars => HoldsInv'
<1> SUFFICES ASSUME HoldsInv, [CoinbaseNext]_coinbaseVars PROVE HoldsInv'
  OBVIOUS
<1>1. /\ CoinbaseHands /\ CoinbaseControl /\ OrdersGood /\ bal \in Ledgers /\ HoldsMatchOrders
      /\ CoinbaseInv' /\ CoinbaseHands' /\ OrdersGood'
  BY CoinbaseStep, OrdersStep DEF HoldsInv, CoinbaseInv
<1>2. CASE Passes
  <2>1. bal' = bal
    BY <1>2 DEF Passes, CancelOne, CancelMisses, MarkCancelled, ReadRecord, EmitUser,
                ReturnFromBook, EmitHook, TimerFires, TrySend, coinbaseVars
  <2>2. HoldsMatchOrders'
    BY <1>1, <1>2, OthersHold
  <2> QED
    BY <1>1, <2>1, <2>2 DEF HoldsInv
<1>3. CASE \/ \E id \in Ids, vol \in 1..MostTraded : TakerHits(id, vol)
           \/ \E t \in Threads :
                 \/ CancelInBook(t)
                 \/ \E vol \in 0..MostTraded, price \in 0..MostTraded : PlaceOrder(t, vol, price)
  <2>1. bal' = bal
    BY <1>3 DEF TakerHits, CancelInBook, PlaceOrder
  <2>2. HoldsMatchOrders'
    BY <1>1, <1>3, BookHolds
  <2> QED
    BY <1>1, <2>1, <2>2 DEF HoldsInv
<1>4. CASE RegistryHook \/ \E t \in Threads : RemoveRecord(t) \/ Record(t)
  <2>1. bal' = bal
    BY <1>4 DEF RegistryHook, RemoveRecord, Record
  <2>2. HoldsMatchOrders'
    BY <1>1, <1>4, RegistryHolds, RemoveHolds, RecordHolds
  <2> QED
    BY <1>1, <2>1, <2>2 DEF HoldsInv
<1>5. CASE \/ LedgerHook
           \/ \E t \in Threads : GiveBack(t) \/ \E o \in ClientOrders : CreateOrder(t, o)
  <2>1. bal' \in Ledgers /\ HoldsMatchOrders'
    BY <1>1, <1>5, LedgerHookHolds, GiveBackHolds, CreateHolds
  <2> QED
    BY <1>1, <2>1 DEF HoldsInv
<1> QED
  BY <1>2, <1>3, <1>4, <1>5 DEF CoinbaseNext, Passes

\* internal/api/coinbase/rest.go, registry.go, server.go and internal/account/
\* ledger.go: for any number of handlers, orders and any amounts, what the
\* ledger holds is what the open orders still need, base exactly and quote but
\* for a unit of the last place for each unit filled, where products truncate.
THEOREM CoinbaseHolds == CoinbaseSpec => []HoldsMatchOrders
<1>1. HoldsInv => HoldsMatchOrders
  BY DEF HoldsInv
<1> QED
  BY <1>1, HoldsStart, HoldsStep, PTL DEF CoinbaseSpec
====
