---------------------------- MODULE PriceTimeBook ----------------------------
(* What one instrument's order book promises its callers: price-time         *)
(* priority.  The open orders are a set; nothing is said of queues, sorting  *)
(* or slices.  An incoming order (taker) trades, one maker at a time, with   *)
(* the open order of the other side that no other one precedes, at that      *)
(* maker's price, and only within its own limit; what is left of a limit     *)
(* order then joins the open orders, behind every earlier one.               *)
(* OrderBook.tla is the implementation shown to satisfy this module.         *)
EXTENDS Integers

CONSTANTS Ids, Prices, Volumes, NoOrder, NoTrade

VARIABLES
    open,        \* the resting orders, each with its arrival number
    taker,       \* the incoming order being executed, or NoOrder
    arrivals,    \* how many orders have come to rest so far
    lastTrade    \* the most recent execution, or NoTrade

ptVars == <<open, taker, arrivals, lastTrade>>

PTBetter(side, p, q) == IF side = "buy" THEN p > q ELSE p < q

PTPrecedes(a, b) ==
    \/ PTBetter(a.side, a.price, b.price)
    \/ a.price = b.price /\ a.at < b.at

PTWithinLimit(o, p) ==
    o.kind # "market" => IF o.side = "buy" THEN p =< o.price ELSE p >= o.price

PTFirst(side, m) ==
    /\ m \in open
    /\ m.side = side
    /\ \A other \in open : other.side = side /\ other # m => PTPrecedes(m, other)

PTOther(side) == IF side = "buy" THEN "sell" ELSE "buy"

PTExecutable(m) ==
    /\ taker # NoOrder
    /\ taker.vol > 0
    /\ PTFirst(PTOther(taker.side), m)
    /\ PTWithinLimit(taker, m.price)

PTInit ==
    /\ open = {}
    /\ taker = NoOrder
    /\ arrivals = 0
    /\ lastTrade = NoTrade

PTSubmit ==
    /\ taker = NoOrder
    /\ \E o \in [id : Ids, side : {"buy", "sell"}, kind : {"limit", "market", "ioc"},
                 price : Prices \cup {0}, vol : Volumes] :
          /\ \A other \in open : other.id # o.id
          /\ taker' = o
    /\ UNCHANGED <<open, arrivals, lastTrade>>

PTExecute ==
    \E m \in open :
        /\ PTExecutable(m)
        /\ LET v == IF taker.vol =< m.vol THEN taker.vol ELSE m.vol
           IN  /\ open' = (open \ {m}) \cup
                          (IF v = m.vol THEN {} ELSE {[m EXCEPT !.vol = @ - v]})
               /\ taker' = [taker EXCEPT !.vol = @ - v]
               /\ lastTrade' =
                    [buy   |-> IF taker.side = "buy" THEN taker.id ELSE m.id,
                     sell  |-> IF taker.side = "buy" THEN m.id ELSE taker.id,
                     price |-> m.price, vol |-> v, takerSide |-> taker.side]
        /\ UNCHANGED arrivals

PTSettle ==
    /\ taker # NoOrder
    /\ \A m \in open : ~PTExecutable(m)
    /\ IF taker.kind = "limit" /\ taker.vol > 0
       THEN /\ open' = open \cup {[id |-> taker.id, side |-> taker.side,
                                   price |-> taker.price, vol |-> taker.vol,
                                   at |-> arrivals]}
            /\ arrivals' = arrivals + 1
       ELSE UNCHANGED <<open, arrivals>>
    /\ taker' = NoOrder
    /\ UNCHANGED lastTrade

PTCancel ==
    /\ taker = NoOrder
    /\ \E m \in open : open' = open \ {m}
    /\ UNCHANGED <<taker, arrivals, lastTrade>>

PTNext == PTSubmit \/ PTExecute \/ PTSettle \/ PTCancel

PTSpec == PTInit /\ [][PTNext]_ptVars
=============================================================================
