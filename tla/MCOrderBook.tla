----------------------------- MODULE MCOrderBook -----------------------------
(* The order book, and the FIX sessions that wait for its lock and hold it,  *)
(* for TLC: the initial state chooses which of the two a behaviour is about, *)
(* and the other one stands still.                                           *)
EXTENDS OrderBook, FixSession

CONSTANTS a, b, c, s1, s2

MCIds3 == {a, b, c}
MCPrices3 == {1, 2, 3}
MCVolumes == {1, 2}

\* A trade is reported to two sessions, in one order.
MCSessions == {s1, s2}
MCTargets == {<<s1, s2>>}

VARIABLE part
mcVars == <<part, vars, sessionVars>>
InBook(A) == part = "book" /\ A /\ UNCHANGED <<part, sessionVars>>
InFix(A) == part = "fix" /\ A /\ UNCHANGED <<part, vars>>

MCInit == part \in {"book", "fix"} /\ Init /\ SessionInit

BookSteps ==
    \/ InBook(Register)
    \/ \E o \in Order(Volumes) : InBook(Submit(o))
    \/ InBook(MatchOne) \/ InBook(EnqueueLocked) \/ InBook(Discard)
    \/ InBook(Fire) \/ InBook(Return)
    \/ \E id \in Ids : InBook(CancelOrder(id))

FixSteps ==
    \/ \E s \in Sessions :
          \/ \E seq \in 1..(MaxSeq + 1) : InFix(ResetSequence(s, seq)) \/ InFix(GapFound(s, seq))
          \/ InFix(Logon(s)) \/ InFix(Administer(s)) \/ InFix(Business(s))
          \/ InFix(ReadFails(s)) \/ InFix(PeerLeaves(s)) \/ InFix(End(s))
          \/ InFix(Write(s)) \/ InFix(WriterEnds(s))
    \/ \E g \in Goroutines :
          \/ InFix(TakeBook(g)) \/ InFix(LeaveBook(g))
          \/ InFix(StampMessage(g)) \/ InFix(Enqueue(g))
    \/ InFix(OutsiderTrades)

MCNext == BookSteps \/ FixSteps

MCFairness ==
    /\ \A g \in Goroutines : SF_mcVars(InFix(Steps(g)))
    /\ \A s \in Sessions : WF_mcVars(InFix(End(s))) /\ WF_mcVars(InFix(Write(s) \/ WriterEnds(s)))
    /\ \A s \in Sessions : WF_mcVars(InFix(ReadFails(s) /\ ~peer[s]))

MCSpec == MCInit /\ [][MCNext]_mcVars /\ MCFairness
=============================================================================
