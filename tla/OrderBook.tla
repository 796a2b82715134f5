------------------------------ MODULE OrderBook ------------------------------
(* internal/orderbook/orderbook.go: the book of one instrument.              *)
(*                                                                           *)
(* Every call holds the instrument's lock from its first read to its last    *)
(* hook, so at most one call is in progress; phase says how far it has got.  *)
(* The matching loop and the firing of the trade hooks are one action per    *)
(* iteration, so a module that composes the book with its hooks can put the  *)
(* hooks' own steps, and other threads', between them.                       *)
(*                                                                           *)
(* A zero volume only fires the "trigger" event and a cancel that finds      *)
(* nothing only returns ErrOrderNotFound: neither changes any state.         *)
EXTENDS Integers, Sequences, FiniteSets

CONSTANTS
    Ids,         \* the ids the edges give their orders, each used once
    Prices,      \* limit prices
    Volumes,     \* order volumes
    NoOrder, NoTrade

ASSUME BookAssumption ==
    /\ Prices \subseteq Nat \ {0}
    /\ Volumes \subseteq Nat \ {0}

\* No order looks like the absence of one.
ASSUME NullAssumption == NoOrder \notin [id : Ids, side : {"buy", "sell"},
    kind : {"limit", "market", "ioc"}, price : Prices \cup {0}, vol : Nat]

VARIABLES
    listed,      \* the instrument is in the instruments map
    queue,       \* queue[side]: the resting orders, book.bids and book.asks
    phase,       \* "free" (the lock is free), "match", "fire" (in the hooks)
    taker,       \* the incoming order of the call in progress
    trades,      \* executions the call has not yet handed to the hooks
    lastTrade,
    arrivals,    \* history: how many orders have come to rest
    orig,        \* history: the volume each id was submitted with, 0 if unused
    told,        \* history: the volume the hooks were told each id executed
    dropped      \* history: the volume of each id cancelled or discarded

bookVars == <<queue, phase, taker, trades, lastTrade, arrivals, orig, told, dropped>>
vars == <<listed, bookVars>>

-----------------------------------------------------------------------------
Sides == {"buy", "sell"}
Kinds == {"limit", "market", "ioc"}
Opposite(side) == IF side = "buy" THEN "sell" ELSE "buy"

\* An order whose volume is in vols; a market order carries no price.
Order(vols) ==
    {o \in [id : Ids, side : Sides, kind : Kinds, price : Prices \cup {0}, vol : vols] :
        o.kind = "market" <=> o.price = 0}

Resting == [id : Ids, price : Prices, vol : Nat \ {0}, at : Nat]
Trade == [buy : Ids, sell : Ids, price : Prices, vol : Nat \ {0}, takerSide : Sides]

\* Mutant: both sides sorted from the highest price down.
BetterDescending(side, p, q) == p > q

\* The comparator enqueueLocked sorts a side with.
Better(side, p, q) == IF side = "buy" THEN p > q ELSE p < q

\* Mutant: equal prices do not trade.
CrossesStrictly(o, p) ==
    \/ o.kind = "market"
    \/ o.side = "buy" /\ o.price > p
    \/ o.side = "sell" /\ o.price < p

\* Does the loop of matchLocked go past its price checks at a resting price p?
Crosses(o, p) ==
    \/ o.kind = "market"
    \/ o.side = "buy" /\ o.price >= p
    \/ o.side = "sell" /\ o.price =< p

\* Mutant: the sort is forgotten.
BehindAll(q, side, p, k) == k = Len(q)
\* Append, then stable sort: on a side already in order the new order ends
\* behind the first k, where k counts the orders that are not strictly worse.
Behind(q, side, p, k) ==
    /\ \A i \in 1..k : ~Better(side, p, q[i].price)
    /\ \A i \in (k + 1)..Len(q) : Better(side, p, q[i].price)

InsertBehind(q, k, r) ==
    [i \in 1..(Len(q) + 1) |-> IF i =< k THEN q[i] ELSE IF i = k + 1 THEN r ELSE q[i - 1]]

RemoveOrder(q, k) ==
    [i \in 1..(Len(q) - 1) |-> IF i < k THEN q[i] ELSE q[i + 1]]

-----------------------------------------------------------------------------
Init ==
    /\ listed \in BOOLEAN
    /\ queue = [side \in Sides |-> <<>>]
    /\ phase = "free"
    /\ taker = NoOrder
    /\ trades = <<>>
    /\ lastTrade = NoTrade
    /\ arrivals = 0
    /\ orig = [id \in Ids |-> 0]
    /\ told = [id \in Ids |-> 0]
    /\ dropped = [id \in Ids |-> 0]

\* Register: option symbols are listed after start-up.
Register ==
    /\ ~listed
    /\ listed' = TRUE
    /\ UNCHANGED bookVars

\* AddLimitOrder, ExecuteMarketOrder and ExecuteLimitIOC take the lock.
Submit(o) ==
    /\ listed
    /\ phase = "free"
    /\ orig[o.id] = 0
    /\ phase' = "match"
    /\ taker' = o
    /\ orig' = [orig EXCEPT ![o.id] = o.vol]
    /\ UNCHANGED <<listed, queue, trades, lastTrade, arrivals, told, dropped>>

\* matchLocked goes round its loop once more.
LoopGoesOn ==
    LET makers == queue[Opposite(taker.side)]
    IN  /\ taker.vol > 0
        /\ makers # <<>>
        /\ Crosses(taker, makers[1].price)

\* Mutant: the trade carries the maker's volume, not what was executed.
TradeWithWhole(r, v) ==
    [buy       |-> IF taker.side = "buy" THEN taker.id ELSE r.id,
     sell      |-> IF taker.side = "buy" THEN r.id ELSE taker.id,
     price     |-> r.price,
     vol       |-> r.vol,
     takerSide |-> taker.side]

TradeWith(r, v) ==
    [buy       |-> IF taker.side = "buy" THEN taker.id ELSE r.id,
     sell      |-> IF taker.side = "buy" THEN r.id ELSE taker.id,
     price     |-> r.price,
     vol       |-> v,
     takerSide |-> taker.side]

MatchOne ==
    /\ phase = "match"
    /\ LoopGoesOn
    /\ LET side   == Opposite(taker.side)
           r      == queue[side][1]
           v      == IF taker.vol =< r.vol THEN taker.vol ELSE r.vol
       IN  /\ taker' = [taker EXCEPT !.vol = @ - v]
           /\ queue' = [queue EXCEPT ![side] =
                          IF v = r.vol THEN RemoveOrder(@, 1)
                                       ELSE [@ EXCEPT ![1] = [r EXCEPT !.vol = @ - v]]]
           /\ trades' = Append(trades, TradeWith(r, v))
           /\ lastTrade' = TradeWith(r, v)
    /\ UNCHANGED <<listed, phase, arrivals, orig, told, dropped>>

\* The loop is over: only what is left of a limit order is enqueued, the rest
\* of a market or immediate-or-cancel order is discarded.
EnqueueLocked ==
    /\ phase = "match"
    /\ ~LoopGoesOn
    /\ taker.vol > 0 /\ taker.kind = "limit"
    /\ \E k \in 0..Len(queue[taker.side]) :
          /\ Behind(queue[taker.side], taker.side, taker.price, k)
          /\ queue' = [queue EXCEPT ![taker.side] =
                         InsertBehind(@, k, [id |-> taker.id, price |-> taker.price,
                                             vol |-> taker.vol, at |-> arrivals])]
    /\ arrivals' = arrivals + 1
    /\ phase' = "fire"
    /\ taker' = NoOrder
    /\ UNCHANGED <<listed, trades, lastTrade, orig, told, dropped>>

Discard ==
    /\ phase = "match"
    /\ ~LoopGoesOn
    /\ ~(taker.vol > 0 /\ taker.kind = "limit")
    /\ dropped' = [dropped EXCEPT ![taker.id] = @ + taker.vol]
    /\ phase' = "fire"
    /\ taker' = NoOrder
    /\ UNCHANGED <<listed, queue, trades, lastTrade, arrivals, orig, told>>

\* fire("trade", t): every hook is called with the next trade, in order.
Fire ==
    /\ phase = "fire"
    /\ trades # <<>>
    /\ LET t == Head(trades)
       IN  told' = [id \in Ids |-> told[id] + (IF id \in {t.buy, t.sell} THEN t.vol ELSE 0)]
    /\ trades' = Tail(trades)
    /\ UNCHANGED <<listed, queue, phase, taker, lastTrade, arrivals, orig, dropped>>

\* Mutant: a path that returns without the Unlock.
ReturnLocked == phase = "fire" /\ trades = <<>> /\ UNCHANGED vars

Return ==
    /\ phase = "fire"
    /\ trades = <<>>
    /\ phase' = "free"
    /\ UNCHANGED <<listed, queue, taker, trades, lastTrade, arrivals, orig, told, dropped>>

\* CancelOrder looks the id up among the bids, then among the asks; the
\* "cancel" hooks run before the call returns.
CancelOrder(id) ==
    /\ listed
    /\ phase = "free"
    /\ \E side \in Sides : \E k \in 1..Len(queue[side]) :
          /\ queue[side][k].id = id
          /\ \A i \in 1..(k - 1) : queue[side][i].id # id
          /\ side = "sell" => \A i \in 1..Len(queue["buy"]) : queue["buy"][i].id # id
          /\ queue' = [queue EXCEPT ![side] = RemoveOrder(@, k)]
          /\ dropped' = [dropped EXCEPT ![id] = @ + queue[side][k].vol]
    /\ phase' = "fire"
    /\ UNCHANGED <<listed, taker, trades, lastTrade, arrivals, orig, told>>

Next ==
    \/ Register
    \/ \E o \in Order(Volumes) : Submit(o)
    \/ MatchOne
    \/ EnqueueLocked
    \/ Discard
    \/ Fire
    \/ Return
    \/ \E id \in Ids : CancelOrder(id)

\* The goroutine that holds the lock keeps running until it has returned.
Fairness == WF_vars(MatchOne \/ EnqueueLocked \/ Discard \/ Fire \/ Return)

Spec == Init /\ [][Next]_vars /\ Fairness

-----------------------------------------------------------------------------
TypeOK ==
    /\ listed \in BOOLEAN
    /\ queue \in [Sides -> Seq(Resting)]
    /\ phase \in {"free", "match", "fire"}
    /\ phase = "match" => taker \in Order(Nat)
    /\ phase # "match" => taker = NoOrder
    /\ trades \in Seq(Trade)
    /\ lastTrade \in Trade \cup {NoTrade}
    /\ arrivals \in Nat
    /\ orig \in [Ids -> Nat]
    /\ told \in [Ids -> Nat]
    /\ dropped \in [Ids -> Nat]

(* Each side is in strict price-time order at every moment, so the head that *)
(* matchLocked takes is the order with priority and never one that a later   *)
(* arrival at the same price overtook (sort.SliceStable in enqueueLocked).   *)
InPriority(side, q) ==
    \A i, j \in 1..Len(q) : i < j =>
        \/ Better(side, q[i].price, q[j].price)
        \/ q[i].price = q[j].price /\ q[i].at < q[j].at

QueuesOrdered == \A side \in Sides : InPriority(side, queue[side])

(* A bid never rests at or above a resting ask: Snapshot's best bid is below *)
(* its best ask whoever reads it, because matchLocked stops only when the    *)
(* head of the other side no longer crosses.                                 *)
Uncrossed ==
    \A i \in 1..Len(queue["buy"]), j \in 1..Len(queue["sell"]) :
        queue["buy"][i].price < queue["sell"][j].price

RestingVolume(q, id) ==
    LET at == {i \in 1..Len(q) : q[i].id = id}
    IN  IF at = {} THEN 0 ELSE q[CHOOSE i \in at : TRUE].vol

(* When the lock is free, a hook that only adds up the trade and cancel      *)
(* events it was given knows exactly what rests of every order: no execution *)
(* is reported twice, lost, or reported for a volume that did not trade.     *)
HooksAccountForBook ==
    phase = "free" =>
        \A id \in Ids : orig[id] = told[id] + dropped[id]
                                   + RestingVolume(queue["buy"], id)
                                   + RestingVolume(queue["sell"], id)

-----------------------------------------------------------------------------
(* The book implements price-time priority: the queues are the set of open   *)
(* orders, and the call in its matching loop is the taker.                   *)
OpenOrders ==
    UNION { { [id |-> queue[side][i].id, side |-> side, price |-> queue[side][i].price,
               vol |-> queue[side][i].vol, at |-> queue[side][i].at]
              : i \in 1..Len(queue[side]) } : side \in Sides }

PT == INSTANCE PriceTimeBook WITH open <- OpenOrders

ImplementsPriceTime == PT!PTSpec
=============================================================================
