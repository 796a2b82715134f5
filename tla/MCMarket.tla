------------------------------ MODULE MCMarket -------------------------------
(* The feed and the seeder checked side by side: the initial state chooses   *)
(* which of the two a behaviour is about, and the other one stands still.    *)
EXTENDS MarketFeed, Seeder, TLC

CONSTANTS k1, k2, asIs, shifted

MCKeys == {k1, k2}
MCShifts == {asIs, shifted}
MCPrices == 1..3

\* A book, the same book one tick higher, and a diff that crosses either.
Book(bid, ask) ==
    [snapshot |-> TRUE,
     levels |-> [l \in BookLevels |-> IF l = <<"buy", bid>> THEN 6
                                      ELSE IF l = <<"sell", ask>> THEN 5 ELSE 0]]
MCFrames == {Book(1, 2), Book(2, 3), [snapshot |-> FALSE, levels |-> <<"sell", 1>> :> 2]}
MCFlow == {[side |-> "buy", price |-> 2, vol |-> 2, rests |-> TRUE],
           [side |-> "sell", price |-> 1, vol |-> 4, rests |-> FALSE]}
MCOffsets == {1}

VARIABLE part
mcVars == <<part, feedVars, seederVars>>
InFeed(A) == part = "feed" /\ A /\ UNCHANGED <<part, seederVars>>
InMirror(A) == part = "mirror" /\ A /\ UNCHANGED <<part, feedVars>>

MCInit == part \in {"feed", "mirror"} /\ FeedInit /\ SeederInit

FeedSteps ==
    \/ InFeed(Dial) \/ InFeed(Refresh) \/ InFeed(LoseConnection)
    \/ InFeed(ReadFrame) \/ InFeed(Dispatch) \/ InFeed(Take) \/ InFeed(Apply)
    \/ \E k \in Keys, q \in Quantities, told \in BOOLEAN : InFeed(VenueMoves(k, q, told))
    \/ \E s \in Shifts : InFeed(SetPriceShift(s))

MirrorSteps ==
    \/ \E half \in Halves : InMirror(Check(half))
    \/ InMirror(Plan) \/ InMirror(PlaceLevel)
    \/ \E l \in BookLevels : InMirror(CancelLevel(l))
    \/ \E frame \in Frames : InMirror(FrameArrives(frame))
    \/ \E order \in Flow : InMirror(OthersTrade(order))
    \/ \E side \in {"buy", "sell"}, offset \in Offsets : InMirror(Sweep(side, offset))

MCNext == FeedSteps \/ MirrorSteps

\* Each part's own fairness.
MCFairness ==
    /\ WF_mcVars(InFeed(Dial)) /\ WF_mcVars(InFeed(Refresh))
    /\ WF_mcVars(InFeed(ReadFrame)) /\ WF_mcVars(InFeed(Dispatch))
    /\ WF_mcVars(InFeed(Take)) /\ WF_mcVars(InFeed(Apply))
    /\ WF_mcVars(InMirror(Converge))

MCSpec == MCInit /\ [][MCNext]_mcVars /\ MCFairness
=============================================================================
