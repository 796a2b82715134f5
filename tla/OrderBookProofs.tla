--------------------------- MODULE OrderBookProofs ---------------------------
(* Theorems about OrderBook, for every set of ids, prices and volumes.       *)
EXTENDS OrderBook, TLAPS

(* Every resting order arrived before the next one will. *)
ArrivedEarlier ==
    \A side \in Sides : \A i \in 1..Len(queue[side]) : queue[side][i].at < arrivals

BookInv == TypeOK /\ QueuesOrdered /\ Uncrossed /\ ArrivedEarlier

-----------------------------------------------------------------------------
(* What the slice operations of orderbook.go return. *)

(* removeOrder returns a sequence of resting orders: the other positions.    *)
LEMMA RemoveOrderSeq ==
    ASSUME NEW q \in Seq(Resting), NEW k \in 1..Len(q)
    PROVE  /\ RemoveOrder(q, k) \in Seq(Resting)
           /\ Len(RemoveOrder(q, k)) = Len(q) - 1
           /\ \A i \in 1..(Len(q) - 1) :
                 RemoveOrder(q, k)[i] = IF i < k THEN q[i] ELSE q[i + 1]
<1>1. Len(q) - 1 \in Nat /\ Len(q) \in Nat
  OBVIOUS
<1>2. \A i \in 1..(Len(q) - 1) : (IF i < k THEN q[i] ELSE q[i + 1]) \in Resting
  OBVIOUS
<1>3. RemoveOrder(q, k) \in [1..(Len(q) - 1) -> Resting]
  BY <1>2 DEF RemoveOrder
<1> QED
  BY <1>1, <1>3 DEF RemoveOrder

(* Enqueueing returns a sequence of resting orders, one longer.              *)
LEMMA InsertBehindSeq ==
    ASSUME NEW q \in Seq(Resting), NEW k \in 0..Len(q), NEW r \in Resting
    PROVE  /\ InsertBehind(q, k, r) \in Seq(Resting)
           /\ Len(InsertBehind(q, k, r)) = Len(q) + 1
           /\ \A i \in 1..(Len(q) + 1) :
                 InsertBehind(q, k, r)[i] =
                    IF i =< k THEN q[i] ELSE IF i = k + 1 THEN r ELSE q[i - 1]
<1>1. Len(q) + 1 \in Nat /\ Len(q) \in Nat
  OBVIOUS
<1>2. \A i \in 1..(Len(q) + 1) :
         (IF i =< k THEN q[i] ELSE IF i = k + 1 THEN r ELSE q[i - 1]) \in Resting
  OBVIOUS
<1>3. InsertBehind(q, k, r) \in [1..(Len(q) + 1) -> Resting]
  BY <1>2 DEF InsertBehind
<1> QED
  BY <1>1, <1>3 DEF InsertBehind

(* matchLocked leaves a head it has not consumed with a positive volume.     *)
LEMMA ReducedIsResting ==
    ASSUME NEW r \in Resting, NEW v \in Nat, v < r.vol
    PROVE  LET h == [r EXCEPT !.vol = @ - v]
           IN  h \in Resting /\ h.price = r.price /\ h.at = r.at
BY DEF Resting

(* Reducing the head's volume disturbs neither priority nor the prices.      *)
LEMMA HeadReduced ==
    ASSUME NEW q \in Seq(Resting), q # <<>>, NEW v \in Nat, v > 0, v < q[1].vol
    PROVE  LET p == [q EXCEPT ![1] = [q[1] EXCEPT !.vol = @ - v]]
           IN  /\ p \in Seq(Resting)
               /\ Len(p) = Len(q)
               /\ \A i \in 1..Len(q) : /\ p[i].price = q[i].price
                                       /\ p[i].at = q[i].at
<1> DEFINE h == [q[1] EXCEPT !.vol = @ - v]
           p == [q EXCEPT ![1] = h]
<1>1. 1 \in 1..Len(q) /\ q[1] \in Resting
  OBVIOUS
<1>2. h \in Resting /\ h.price = q[1].price /\ h.at = q[1].at
  <2>1. q[1] \in Resting
    BY <1>1
  <2> QED
    BY <2>1, ReducedIsResting
<1> HIDE DEF h
<1>3. p \in Seq(Resting) /\ Len(p) = Len(q)
  BY <1>1, <1>2
<1>4. \A i \in 1..Len(q) : p[i] = IF i = 1 THEN h ELSE q[i]
  BY <1>1
<1> QED
  BY <1>2, <1>3, <1>4 DEF h

(* Taking an order out leaves the others in price-time order. *)
LEMMA RemoveKeepsPriority ==
    ASSUME NEW side \in Sides, NEW q \in Seq(Resting), NEW k \in 1..Len(q),
           InPriority(side, q)
    PROVE  InPriority(side, RemoveOrder(q, k))
<1> DEFINE p == RemoveOrder(q, k)
<1>1. Len(p) = Len(q) - 1 /\ \A i \in 1..Len(p) : p[i] = IF i < k THEN q[i] ELSE q[i + 1]
  BY RemoveOrderSeq
<1> HIDE DEF p
<1> SUFFICES ASSUME NEW i \in 1..Len(p), NEW j \in 1..Len(p), i < j
             PROVE  \/ Better(side, p[i].price, p[j].price)
                    \/ p[i].price = p[j].price /\ p[i].at < p[j].at
  BY DEF InPriority, p
<1> DEFINE i1 == IF i < k THEN i ELSE i + 1
           j1 == IF j < k THEN j ELSE j + 1
<1>2. i1 \in 1..Len(q) /\ j1 \in 1..Len(q) /\ i1 < j1 /\ p[i] = q[i1] /\ p[j] = q[j1]
  BY <1>1
<1> QED
  BY <1>2 DEF InPriority

(* Enqueueing behind the orders that are not strictly worse keeps a side in  *)
(* price-time order: this is what the stable sort is for.                    *)
LEMMA InsertKeepsPriority ==
    ASSUME NEW side \in Sides, NEW q \in Seq(Resting), NEW k \in 0..Len(q),
           NEW r \in Resting, InPriority(side, q), Prices \subseteq Nat,
           Behind(q, side, r.price, k),
           \A i \in 1..Len(q) : q[i].at < r.at
    PROVE  InPriority(side, InsertBehind(q, k, r))
<1> DEFINE p == InsertBehind(q, k, r)
<1>1. /\ Len(p) = Len(q) + 1
      /\ \A i \in 1..Len(p) : p[i] = IF i =< k THEN q[i] ELSE IF i = k + 1 THEN r ELSE q[i - 1]
  <2>1. Len(p) = Len(q) + 1
    BY InsertBehindSeq
  <2>2. \A i \in 1..(Len(q) + 1) :
           p[i] = IF i =< k THEN q[i] ELSE IF i = k + 1 THEN r ELSE q[i - 1]
    BY InsertBehindSeq
  <2> HIDE DEF p
  <2> QED
    BY <2>1, <2>2
<1> HIDE DEF p
<1>t. r.price \in Nat /\ \A i \in 1..Len(q) : q[i].price \in Nat
  <2>1. \A x \in Resting : x.price \in Nat
    BY DEF Resting
  <2>2. \A i \in 1..Len(q) : q[i] \in Resting
    OBVIOUS
  <2> QED
    BY <2>1, <2>2
<1> SUFFICES ASSUME NEW i \in 1..Len(p), NEW j \in 1..Len(p), i < j
             PROVE  \/ Better(side, p[i].price, p[j].price)
                    \/ p[i].price = p[j].price /\ p[i].at < p[j].at
  BY DEF InPriority, p
<1>2. CASE i # k + 1 /\ j # k + 1
  <2> DEFINE i1 == IF i =< k THEN i ELSE i - 1
             j1 == IF j =< k THEN j ELSE j - 1
  <2>1. i1 \in 1..Len(q) /\ j1 \in 1..Len(q) /\ i1 < j1 /\ p[i] = q[i1] /\ p[j] = q[j1]
    BY <1>1, <1>2
  <2> QED
    BY <2>1 DEF InPriority
<1>3. CASE i = k + 1
  <2>1. p[i] = r /\ p[j] = q[j - 1] /\ j - 1 \in (k + 1)..Len(q)
    BY <1>1, <1>3
  <2> QED
    BY <2>1 DEF Behind
<1>4. CASE j = k + 1
  <2>1. p[j] = r /\ p[i] = q[i] /\ i \in 1..k /\ i \in 1..Len(q)
    BY <1>1, <1>4
  <2>2. ~Better(side, r.price, q[i].price)
    BY <2>1 DEF Behind
  <2> QED
    BY <1>t, <2>1, <2>2 DEF Better
<1> QED
  BY <1>2, <1>3, <1>4

-----------------------------------------------------------------------------
(* New returns a book with two empty queues, which are ordered and uncrossed. *)
LEMMA BookInit == Init => BookInv
<1> SUFFICES ASSUME Init PROVE BookInv
  OBVIOUS
<1>1. \A side \in Sides : queue[side] = <<>>
  BY DEF Init
<1>2. queue \in [Sides -> Seq(Resting)]
  BY DEF Init
<1>3. TypeOK
  BY <1>2 DEF Init, TypeOK
<1> QED
  BY <1>1, <1>3 DEF Init, BookInv, QueuesOrdered, InPriority, Uncrossed, ArrivedEarlier, Sides

(* The step of the matching loop: the head of the other side is reduced or   *)
(* removed, which keeps its order and can only widen the spread.             *)
LEMMA MatchOneKeeps ==
    ASSUME BookInv, MatchOne, BookAssumption
    PROVE  BookInv'
<1> DEFINE side == Opposite(taker.side)
           q == queue[side]
           r == q[1]
           v == IF taker.vol =< r.vol THEN taker.vol ELSE r.vol
           p == IF v = r.vol THEN RemoveOrder(q, 1) ELSE [q EXCEPT ![1] = [r EXCEPT !.vol = @ - v]]
<1>1. /\ taker \in Order(Nat) /\ taker.side \in Sides /\ taker.vol \in Nat
      /\ taker.id \in Ids /\ taker.vol > 0
  BY DEF BookInv, TypeOK, MatchOne, LoopGoesOn, Order
<1>2. side \in Sides
  BY DEF Opposite, Sides
<1>3. q \in Seq(Resting) /\ q # <<>> /\ 1 \in 1..Len(q) /\ r \in Resting
  <2>1. q \in Seq(Resting) /\ q # <<>>
    BY <1>2 DEF BookInv, TypeOK, MatchOne, LoopGoesOn
  <2> QED
    BY <2>1
<1>4. r.vol \in Nat \ {0} /\ r.price \in Prices /\ r.id \in Ids /\ r.at \in Nat
  BY <1>3 DEF Resting
<1>5. v \in Nat \ {0} /\ v =< r.vol /\ v =< taker.vol
  BY <1>1, <1>4
<1>6. /\ p \in Seq(Resting)
      /\ InPriority(side, p)
      /\ \A i \in 1..Len(p) : \E j \in 1..Len(q) : p[i].price = q[j].price /\ p[i].at = q[j].at
  <2>0. InPriority(side, q)
    BY <1>2 DEF BookInv, QueuesOrdered
  <2>1. CASE v = r.vol
    <3>1. p = RemoveOrder(q, 1)
      BY <2>1
    <3>2. InPriority(side, RemoveOrder(q, 1))
      BY <1>2, <1>3, <2>0, RemoveKeepsPriority
    <3> HIDE DEF q, p
    <3>0. /\ RemoveOrder(q, 1) \in Seq(Resting)
          /\ Len(RemoveOrder(q, 1)) = Len(q) - 1
          /\ \A i \in 1..(Len(q) - 1) :
                RemoveOrder(q, 1)[i] = IF i < 1 THEN q[i] ELSE q[i + 1]
      BY <1>3, RemoveOrderSeq
    <3>3. /\ p \in Seq(Resting) /\ Len(p) = Len(q) - 1
          /\ \A i \in 1..Len(p) : p[i] = q[i + 1]
      BY <1>3, <3>0, <3>1
    <3> QED
      BY <1>3, <3>1, <3>2, <3>3
  <2>2. CASE v # r.vol
    <3>1. p = [q EXCEPT ![1] = [r EXCEPT !.vol = @ - v]] /\ v < r.vol /\ v > 0 /\ v \in Nat
      BY <1>4, <1>5, <2>2
    <3> HIDE DEF q, p, v
    <3>2. /\ p \in Seq(Resting) /\ Len(p) = Len(q)
          /\ \A i \in 1..Len(q) : p[i].price = q[i].price /\ p[i].at = q[i].at
      BY <1>3, <3>1, HeadReduced
    <3> QED
      BY <2>0, <3>2 DEF InPriority
  <2> QED
    BY <2>1, <2>2
<1>7. queue' = [queue EXCEPT ![side] = p]
  BY DEF MatchOne
<1>8. TypeOK'
  <2>1. taker' \in Order(Nat)
    <3>1. taker' = [taker EXCEPT !.vol = @ - v] /\ taker.vol - v \in Nat
      BY <1>1, <1>5 DEF MatchOne
    <3> HIDE DEF v
    <3> QED
      BY <1>1, <3>1 DEF Order
  <2>2. TradeWith(r, v) \in Trade
    <3> HIDE DEF r, v
    <3> QED
      BY <1>1, <1>4, <1>5 DEF TradeWith, Trade
  <2>3. trades' \in Seq(Trade) /\ lastTrade' \in Trade
    BY <2>2 DEF MatchOne, BookInv, TypeOK
  <2>4. queue' \in [Sides -> Seq(Resting)]
    <3> HIDE DEF p, side
    <3> QED
      BY <1>2, <1>6, <1>7 DEF BookInv, TypeOK
  <2> QED
    BY <2>1, <2>3, <2>4 DEF MatchOne, BookInv, TypeOK
<1> HIDE DEF p, q, r, v
<1>9. QueuesOrdered'
  BY <1>2, <1>6, <1>7 DEF BookInv, TypeOK, QueuesOrdered
<1>10. Uncrossed'
  <2>1. side = "buy" \/ side = "sell"
    BY <1>2 DEF Sides
  <2> HIDE DEF side
  <2>2. CASE side = "buy"
    <3>1. queue'["buy"] = p /\ queue'["sell"] = queue["sell"] /\ q = queue["buy"]
      BY <1>7, <2>2 DEF BookInv, TypeOK, Sides, q
    <3> QED
      BY <1>6, <3>1 DEF BookInv, Uncrossed
  <2>3. CASE side = "sell"
    <3>1. queue'["sell"] = p /\ queue'["buy"] = queue["buy"] /\ q = queue["sell"]
      BY <1>7, <2>3 DEF BookInv, TypeOK, Sides, q
    <3> QED
      BY <1>6, <3>1 DEF BookInv, Uncrossed
  <2> QED
    BY <2>1, <2>2, <2>3
<1>11. ArrivedEarlier'
  <2>1. arrivals' = arrivals
    BY DEF MatchOne
  <2>2. \A s \in Sides : queue'[s] = IF s = side THEN p ELSE queue[s]
    <3> HIDE DEF side
    <3> QED
      BY <1>7 DEF BookInv, TypeOK
  <2>3. \A i \in 1..Len(q) : q[i].at < arrivals
    BY <1>2 DEF BookInv, ArrivedEarlier, q
  <2> HIDE DEF side
  <2> QED
    BY <1>6, <2>1, <2>2, <2>3 DEF BookInv, ArrivedEarlier
<1> QED
  BY <1>8, <1>9, <1>10, <1>11 DEF BookInv

(* What is left of a limit order joins its side.  The loop has stopped, so   *)
(* the head of the other side does not cross it and neither does any order   *)
(* behind that head.                                                         *)
LEMMA EnqueueKeeps ==
    ASSUME BookInv, EnqueueLocked, BookAssumption
    PROVE  BookInv'
<1> DEFINE side == taker.side
           q == queue[side]
           r == [id |-> taker.id, price |-> taker.price, vol |-> taker.vol, at |-> arrivals]
<1>1. /\ taker \in Order(Nat) /\ side \in Sides /\ r \in Resting /\ r.price \in Nat
      /\ r.price = taker.price /\ r.at = arrivals /\ arrivals \in Nat
  <2>1. taker \in Order(Nat) /\ taker.vol > 0 /\ taker.kind = "limit" /\ arrivals \in Nat
    BY DEF BookInv, TypeOK, EnqueueLocked
  <2>2. taker.price \in Prices /\ taker.vol \in Nat \ {0} /\ taker.id \in Ids /\ taker.side \in Sides
    BY <2>1 DEF Order
  <2> QED
    BY <2>1, <2>2 DEF BookAssumption, Resting
<1>2. q \in Seq(Resting)
  BY <1>1 DEF BookInv, TypeOK
<1>3. PICK k \in 0..Len(q) : /\ Behind(q, side, r.price, k)
                            /\ queue' = [queue EXCEPT ![side] = InsertBehind(q, k, r)]
  BY DEF EnqueueLocked
<1> DEFINE p == InsertBehind(q, k, r)
<1>4. /\ p \in Seq(Resting) /\ Len(p) = Len(q) + 1
      /\ \A i \in 1..Len(p) : p[i] = IF i =< k THEN q[i] ELSE IF i = k + 1 THEN r ELSE q[i - 1]
  <2> HIDE DEF q, r
  <2> QED
    BY <1>1, <1>2, <1>3, InsertBehindSeq
<1>5. InPriority(side, p)
  <2>1. InPriority(side, q) /\ \A i \in 1..Len(q) : q[i].at < r.at
    BY <1>1 DEF BookInv, QueuesOrdered, ArrivedEarlier
  <2> HIDE DEF q, r, side
  <2>2. Prices \subseteq Nat
    BY DEF BookAssumption
  <2> QED
    BY <1>1, <1>2, <1>3, <2>1, <2>2, InsertKeepsPriority
<1>6. \A s \in Sides : queue'[s] = IF s = side THEN p ELSE queue[s]
  <2> HIDE DEF p, side
  <2> QED
    BY <1>3 DEF BookInv, TypeOK, p
<1>7. \A i \in 1..Len(p) : p[i] = r \/ \E j \in 1..Len(q) : p[i] = q[j]
  <2> HIDE DEF p, q, r
  <2> SUFFICES ASSUME NEW i \in 1..Len(p), p[i] # r
               PROVE  \E j \in 1..Len(q) : p[i] = q[j]
    OBVIOUS
  <2>1. k \in 0..Len(q) /\ Len(q) \in Nat
    BY <1>2, <1>3
  <2>2. CASE i =< k
    BY <1>4, <2>1, <2>2
  <2>3. CASE i > k
    <3>1. p[i] = q[i - 1] /\ i - 1 \in 1..Len(q)
      BY <1>4, <2>1, <2>3
    <3> QED
      BY <3>1
  <2> QED
    BY <2>1, <2>2, <2>3
<1>8. TypeOK'
  <2>1. queue' \in [Sides -> Seq(Resting)]
    <3> HIDE DEF p, side
    <3> QED
      BY <1>1, <1>3, <1>4 DEF BookInv, TypeOK, p
  <2> QED
    BY <2>1 DEF EnqueueLocked, BookInv, TypeOK
<1>9. QueuesOrdered'
  <2> HIDE DEF p, side
  <2> QED
    BY <1>5, <1>6 DEF BookInv, QueuesOrdered
<1>10. Uncrossed'
  <2> DEFINE makers == queue[Opposite(side)]
  <2>0. makers \in Seq(Resting) /\ InPriority(Opposite(side), makers) /\ Opposite(side) \in Sides
    BY <1>1 DEF BookInv, TypeOK, QueuesOrdered, Opposite, Sides
  <2>t. \A i \in 1..Len(makers) : makers[i].price \in Nat
    <3>1. \A x \in Resting : x.price \in Nat
      BY DEF Resting, BookAssumption
    <3>2. \A i \in 1..Len(makers) : makers[i] \in Resting
      BY <2>0
    <3> QED
      BY <3>1, <3>2
  <2>1. makers = <<>> \/ ~Crosses(taker, makers[1].price)
    BY DEF EnqueueLocked, LoopGoesOn
  <2>2. \A i \in 1..Len(makers) :
           IF side = "buy" THEN taker.price < makers[i].price ELSE makers[i].price < taker.price
    <3> SUFFICES ASSUME NEW i \in 1..Len(makers)
                 PROVE  IF side = "buy" THEN taker.price < makers[i].price
                                        ELSE makers[i].price < taker.price
      OBVIOUS
    <3>1. 1 \in 1..Len(makers) /\ ~Crosses(taker, makers[1].price)
      BY <2>0, <2>1
    <3>2. i = 1 \/ Better(Opposite(side), makers[1].price, makers[i].price)
                \/ makers[1].price = makers[i].price
      BY <2>0, <3>1 DEF InPriority
    <3>3. side = "buy" \/ side = "sell"
      BY <1>1 DEF Sides
    <3> HIDE DEF makers
    <3> QED
      BY <1>1, <2>t, <3>1, <3>2, <3>3 DEF Crosses, Better, Opposite
  <2>3. CASE side = "buy"
    <3>1. queue'["buy"] = p /\ queue'["sell"] = makers /\ q = queue["buy"] /\ queue["sell"] = makers
      BY <1>6, <2>3 DEF Sides, Opposite
    <3> HIDE DEF p, q, r, side, makers
    <3> QED
      BY <1>1, <1>7, <2>2, <2>3, <3>1 DEF BookInv, Uncrossed
  <2>4. CASE side = "sell"
    <3>1. queue'["sell"] = p /\ queue'["buy"] = makers /\ q = queue["sell"] /\ queue["buy"] = makers
      BY <1>6, <2>4 DEF Sides, Opposite
    <3> HIDE DEF p, q, r, side, makers
    <3> QED
      BY <1>1, <1>7, <2>2, <2>4, <3>1 DEF BookInv, Uncrossed
  <2> QED
    BY <1>1, <2>3, <2>4 DEF Sides
<1>11. ArrivedEarlier'
  <2>1. arrivals' = arrivals + 1
    BY DEF EnqueueLocked
  <2>2. \A s \in Sides : \A i \in 1..Len(queue[s]) :
           queue[s][i].at < arrivals /\ queue[s][i].at \in Nat
    <3>1. \A s \in Sides : queue[s] \in Seq(Resting)
      BY DEF BookInv, TypeOK
    <3>2. \A x \in Resting : x.at \in Nat
      BY DEF Resting
    <3> QED
      BY <3>1, <3>2 DEF BookInv, ArrivedEarlier
  <2> HIDE DEF p, r, side
  <2>3. \A i \in 1..Len(p) : p[i].at < arrivals + 1
    BY <1>1, <1>7, <2>2
  <2> SUFFICES ASSUME NEW s \in Sides, NEW i \in 1..Len(queue'[s])
               PROVE  queue'[s][i].at < arrivals + 1
    BY <2>1 DEF ArrivedEarlier
  <2> QED
    BY <1>1, <1>6, <2>2, <2>3
<1> QED
  BY <1>8, <1>9, <1>10, <1>11 DEF BookInv

(* CancelOrder takes one order off one side under the lock; both sides stay  *)
(* ordered, and a narrower side cannot cross.                                *)
LEMMA CancelKeeps ==
    ASSUME BookInv, NEW id \in Ids, CancelOrder(id), BookAssumption
    PROVE  BookInv'
<1>0. PICK side \in Sides : \E k \in 1..Len(queue[side]) :
         /\ queue' = [queue EXCEPT ![side] = RemoveOrder(queue[side], k)]
         /\ dropped' = [dropped EXCEPT ![id] = @ + queue[side][k].vol]
  BY DEF CancelOrder
<1>1. PICK k \in 1..Len(queue[side]) :
         /\ queue' = [queue EXCEPT ![side] = RemoveOrder(queue[side], k)]
         /\ dropped' = [dropped EXCEPT ![id] = @ + queue[side][k].vol]
  BY <1>0
<1> DEFINE q == queue[side]
           p == RemoveOrder(q, k)
<1>2. q \in Seq(Resting) /\ k \in 1..Len(q) /\ InPriority(side, q)
  BY DEF BookInv, TypeOK, QueuesOrdered
<1>3. /\ p \in Seq(Resting) /\ Len(p) = Len(q) - 1
      /\ \A i \in 1..Len(p) : p[i] = IF i < k THEN q[i] ELSE q[i + 1]
  <2> HIDE DEF q
  <2> QED
    BY <1>2, RemoveOrderSeq
<1>4. InPriority(side, p)
  BY <1>2, RemoveKeepsPriority
<1>5. \A s \in Sides : queue'[s] = IF s = side THEN p ELSE queue[s]
  <2> HIDE DEF p
  <2> QED
    BY <1>1 DEF BookInv, TypeOK, p
<1>6. \A i \in 1..Len(p) : \E j \in 1..Len(q) : p[i] = q[j]
  <2> HIDE DEF p, q
  <2> QED
    BY <1>2, <1>3
<1>7. TypeOK'
  <2>1. queue' \in [Sides -> Seq(Resting)]
    <3> HIDE DEF p
    <3> QED
      BY <1>1, <1>3 DEF BookInv, TypeOK, p
  <2>2. dropped' \in [Ids -> Nat]
    <3>1. q[k] \in Resting
      BY <1>2
    <3>2. q[k].vol \in Nat
      BY <3>1 DEF Resting
    <3> QED
      BY <1>1, <3>2 DEF BookInv, TypeOK
  <2> QED
    BY <2>1, <2>2 DEF CancelOrder, BookInv, TypeOK
<1> HIDE DEF p, q
<1>8. QueuesOrdered'
  BY <1>4, <1>5 DEF BookInv, QueuesOrdered
<1>9. Uncrossed'
  <2>1. CASE side = "buy"
    <3>1. queue'["buy"] = p /\ queue'["sell"] = queue["sell"] /\ q = queue["buy"]
      BY <1>5, <2>1 DEF Sides, q
    <3> QED
      BY <1>6, <3>1 DEF BookInv, Uncrossed
  <2>2. CASE side = "sell"
    <3>1. queue'["sell"] = p /\ queue'["buy"] = queue["buy"] /\ q = queue["sell"]
      BY <1>5, <2>2 DEF Sides, q
    <3> QED
      BY <1>6, <3>1 DEF BookInv, Uncrossed
  <2> QED
    BY <2>1, <2>2 DEF Sides
<1>10. ArrivedEarlier'
  <2>1. arrivals' = arrivals
    BY DEF CancelOrder
  <2>2. \A i \in 1..Len(q) : q[i].at < arrivals
    BY DEF BookInv, ArrivedEarlier, q
  <2> QED
    BY <1>5, <1>6, <2>1, <2>2 DEF BookInv, ArrivedEarlier
<1> QED
  BY <1>7, <1>8, <1>9, <1>10 DEF BookInv

(* The inductive step: only three actions touch the queues.                  *)
LEMMA BookInvStep == BookInv /\ [Next]_vars => BookInv'
<1> SUFFICES ASSUME BookInv, [Next]_vars PROVE BookInv'
  OBVIOUS
<1>a. BookAssumption
  BY BookAssumption
<1>q. ASSUME UNCHANGED <<queue, arrivals>>, TypeOK' PROVE BookInv'
  BY <1>q DEF BookInv, QueuesOrdered, InPriority, Uncrossed, ArrivedEarlier
<1>1. CASE Register
  <2>1. TypeOK'
    BY <1>1 DEF Register, bookVars, BookInv, TypeOK
  <2> QED
    BY <1>1, <1>q, <2>1 DEF Register, bookVars
<1>2. ASSUME NEW o \in Order(Volumes), Submit(o) PROVE BookInv'
  <2>1. o \in Order(Nat) /\ o.vol \in Nat /\ o.id \in Ids
    BY <1>a DEF BookAssumption, Order
  <2>2. TypeOK'
    BY <1>2, <2>1 DEF Submit, BookInv, TypeOK
  <2> QED
    BY <1>2, <1>q, <2>2 DEF Submit
<1>3. CASE MatchOne
  BY <1>3, <1>a, MatchOneKeeps
<1>4. CASE EnqueueLocked
  BY <1>4, <1>a, EnqueueKeeps
<1>5. CASE Discard
  <2>1. taker.vol \in Nat /\ taker.id \in Ids
    BY <1>5 DEF Discard, BookInv, TypeOK, Order
  <2>2. dropped' \in [Ids -> Nat]
    BY <1>5, <2>1 DEF Discard, BookInv, TypeOK
  <2>3. TypeOK'
    BY <1>5, <2>2 DEF Discard, BookInv, TypeOK
  <2> QED
    BY <1>5, <1>q, <2>3 DEF Discard
<1>6. CASE Fire
  <2>1. Head(trades) \in Trade /\ Tail(trades) \in Seq(Trade)
    BY <1>6 DEF Fire, BookInv, TypeOK
  <2>2. Head(trades).vol \in Nat
    BY <2>1 DEF Trade
  <2>3. told' \in [Ids -> Nat]
    BY <1>6, <2>2 DEF Fire, BookInv, TypeOK
  <2>4. TypeOK'
    BY <1>6, <2>1, <2>3 DEF Fire, BookInv, TypeOK
  <2> QED
    BY <1>6, <1>q, <2>4 DEF Fire
<1>7. CASE Return
  <2>1. TypeOK'
    BY <1>7 DEF Return, BookInv, TypeOK
  <2> QED
    BY <1>7, <1>q, <2>1 DEF Return
<1>8. ASSUME NEW id \in Ids, CancelOrder(id) PROVE BookInv'
  BY <1>8, <1>a, CancelKeeps
<1>9. CASE UNCHANGED vars
  <2>1. TypeOK'
    BY <1>9 DEF vars, bookVars, BookInv, TypeOK
  <2> QED
    BY <1>9, <1>q, <2>1 DEF vars, bookVars
<1> QED
  BY <1>1, <1>2, <1>3, <1>4, <1>5, <1>6, <1>7, <1>8, <1>9 DEF Next

(* The invariant the results below follow from.                              *)
LEMMA BookInductive == Spec => []BookInv
BY BookInit, BookInvStep, PTL DEF Spec

(* Every variable keeps its type, whatever the ids, prices and volumes.      *)
THEOREM BookTypes == Spec => []TypeOK
<1>1. BookInv => TypeOK
  BY DEF BookInv
<1> QED
  BY <1>1, BookInductive, PTL

(* enqueueLocked, matchLocked and CancelOrder keep both sides in strict      *)
(* price-time order at every moment.                                         *)
THEOREM BookPriority == Spec => []QueuesOrdered
<1>1. BookInv => QueuesOrdered
  BY DEF BookInv
<1> QED
  BY <1>1, BookInductive, PTL

(* No bid rests at or above a resting ask, even in the middle of a call.     *)
THEOREM BookUncrossed == Spec => []Uncrossed
<1>1. BookInv => Uncrossed
  BY DEF BookInv
<1> QED
  BY <1>1, BookInductive, PTL

-----------------------------------------------------------------------------
(* Ids and volumes.  Every id that rests or is being executed was submitted, *)
(* and no id does so twice.                                                  *)
OnceIn(q) == \A i, j \in 1..Len(q) : q[i].id = q[j].id => i = j
Absent(q, id) == \A i \in 1..Len(q) : q[i].id # id

IdsOnce ==
    /\ \A side \in Sides : OnceIn(queue[side])
    /\ \A i \in 1..Len(queue["buy"]) : Absent(queue["sell"], queue["buy"][i].id)
    /\ \A side \in Sides : \A i \in 1..Len(queue[side]) : orig[queue[side][i].id] > 0
    /\ phase = "match" => /\ orig[taker.id] > 0
                          /\ \A side \in Sides : Absent(queue[side], taker.id)

\* What the call in its matching loop has not executed yet.
InHand(id) == IF phase = "match" /\ taker.id = id THEN taker.vol ELSE 0

\* What one trade executes of an order.
Executed(t, id) == IF id \in {t.buy, t.sell} THEN t.vol ELSE 0

\* due[n] is what the trades from the n-th on have still to tell of id: the sum
\* over the pending trades, written so that no induction is needed to use it.
DueFor(ts, id, due) ==
    /\ due[Len(ts) + 1] = 0
    /\ \A n \in 1..Len(ts) : due[n] = due[n + 1] + Executed(ts[n], id)

\* What rests of an order, on whichever side.
AtRest(id) == RestingVolume(queue["buy"], id) + RestingVolume(queue["sell"], id)

\* What the hooks of the trades that are still pending will tell makes up the
\* difference, at every step of every call.
AccountsAdd ==
    \A id \in Ids : \E due \in [1..(Len(trades) + 1) -> Nat] :
        /\ DueFor(trades, id, due)
        /\ orig[id] = told[id] + dropped[id] + due[1] + InHand(id) + AtRest(id)

\* A call that has returned has told its hooks everything.
ToldAll == phase = "free" => trades = <<>>

AccountInv == BookInv /\ IdsOnce /\ ToldAll /\ AccountsAdd

-----------------------------------------------------------------------------
(* What RestingVolume finds in a queue that holds no id twice: the volume of *)
(* the order with that id, and nothing where there is none.                  *)
LEMMA RestingVolumeIs ==
    ASSUME NEW q \in Seq(Resting), OnceIn(q), NEW i \in 1..Len(q)
    PROVE  RestingVolume(q, q[i].id) = q[i].vol
<1> DEFINE at == {j \in 1..Len(q) : q[j].id = q[i].id}
<1>1. at = {i}
  BY DEF OnceIn
<1>2. (CHOOSE j \in at : TRUE) = i
  BY <1>1
<1> QED
  BY <1>1, <1>2 DEF RestingVolume

(* What is not in a queue has no resting volume. *)
LEMMA RestingVolumeNone ==
    ASSUME NEW q \in Seq(Resting), NEW id, Absent(q, id)
    PROVE  RestingVolume(q, id) = 0
<1>1. {j \in 1..Len(q) : q[j].id = id} = {}
  BY DEF Absent
<1> QED
  BY <1>1 DEF RestingVolume

(* A volume at rest is a number. *)
LEMMA RestingVolumeNat ==
    ASSUME NEW q \in Seq(Resting), OnceIn(q), NEW id
    PROVE  RestingVolume(q, id) \in Nat
<1>1. CASE Absent(q, id)
  BY <1>1, RestingVolumeNone
<1>2. CASE ~Absent(q, id)
  <2>1. PICK i \in 1..Len(q) : q[i].id = id
    BY <1>2 DEF Absent
  <2>2. RestingVolume(q, id) = q[i].vol
    BY <2>1, RestingVolumeIs
  <2>3. q[i] \in Resting
    OBVIOUS
  <2> QED
    BY <2>2, <2>3 DEF Resting
<1> QED
  BY <1>1, <1>2

(* Two queues with the same orders under one id have the same of it at rest. *)
LEMMA RestingVolumeSame ==
    ASSUME NEW q \in Seq(Resting), OnceIn(q), NEW p \in Seq(Resting), OnceIn(p), NEW id,
           \A i \in 1..Len(q) : q[i].id = id =>
              \E j \in 1..Len(p) : p[j].id = id /\ p[j].vol = q[i].vol,
           \A j \in 1..Len(p) : p[j].id = id => \E i \in 1..Len(q) : q[i].id = id
    PROVE  RestingVolume(p, id) = RestingVolume(q, id)
<1>1. CASE Absent(q, id)
  <2>1. Absent(p, id)
    BY <1>1 DEF Absent
  <2> QED
    BY <1>1, <2>1, RestingVolumeNone
<1>2. CASE ~Absent(q, id)
  <2>1. PICK i \in 1..Len(q) : q[i].id = id
    BY <1>2 DEF Absent
  <2>2. PICK j \in 1..Len(p) : p[j].id = id /\ p[j].vol = q[i].vol
    BY <2>1
  <2>3. RestingVolume(q, id) = q[i].vol /\ RestingVolume(p, id) = p[j].vol
    BY <2>1, <2>2, RestingVolumeIs
  <2> QED
    BY <2>2, <2>3
<1> QED
  BY <1>1, <1>2

-----------------------------------------------------------------------------
(* What the three actions that touch a queue make of it, in terms the        *)
(* following proofs share.                                                   *)

(* One turn of the loop: the head of the other side is taken or reduced.     *)
LEMMA MatchOneQueue ==
    ASSUME BookInv, BookAssumption, MatchOne,
           NEW side, side = Opposite(taker.side),
           NEW q, q = queue[side],
           NEW v, v = IF taker.vol =< q[1].vol THEN taker.vol ELSE q[1].vol
    PROVE  /\ side \in Sides /\ q \in Seq(Resting) /\ 1 \in 1..Len(q) /\ q[1] \in Resting
           /\ taker \in Order(Nat) /\ v \in Nat \ {0} /\ v =< q[1].vol /\ v =< taker.vol
           /\ queue' \in [Sides -> Seq(Resting)]
           /\ queue'[Opposite(side)] = queue[Opposite(side)]
           /\ taker' = [taker EXCEPT !.vol = @ - v] /\ taker'.vol = taker.vol - v
           /\ taker'.id = taker.id /\ taker'.side = taker.side
           /\ \/ /\ v = q[1].vol /\ Len(queue'[side]) = Len(q) - 1
                 /\ \A i \in 1..(Len(q) - 1) : queue'[side][i] = q[i + 1]
              \/ /\ v < q[1].vol /\ Len(queue'[side]) = Len(q)
                 /\ queue'[side][1] = [q[1] EXCEPT !.vol = @ - v]
                 /\ \A i \in 2..Len(q) : queue'[side][i] = q[i]
<1>1. /\ taker \in Order(Nat) /\ taker.side \in Sides /\ taker.vol \in Nat /\ taker.vol > 0
  BY DEF BookInv, TypeOK, MatchOne, LoopGoesOn, Order
<1>2. side \in Sides /\ Opposite(side) \in Sides /\ Opposite(side) # side
  BY DEF Opposite, Sides
<1>3. q \in Seq(Resting) /\ q # <<>>
  BY <1>2 DEF BookInv, TypeOK, MatchOne, LoopGoesOn
<1>4. 1 \in 1..Len(q) /\ q[1] \in Resting
  BY <1>3
<1>5. q[1].vol \in Nat \ {0}
  BY <1>4 DEF Resting
<1>6. v \in Nat \ {0} /\ v =< q[1].vol /\ v =< taker.vol
  BY <1>1, <1>5
<1>7. queue' = [queue EXCEPT ![side] = IF v = q[1].vol THEN RemoveOrder(q, 1)
                                       ELSE [q EXCEPT ![1] = [q[1] EXCEPT !.vol = @ - v]]]
  BY DEF MatchOne
<1>8. queue' \in [Sides -> Seq(Resting)]
  <2>1. BookInv'
    BY MatchOneKeeps
  <2> QED
    BY <2>1 DEF BookInv, TypeOK
<1>9. taker' = [taker EXCEPT !.vol = @ - v]
  BY DEF MatchOne
<1>10. taker'.vol = taker.vol - v /\ taker'.id = taker.id /\ taker'.side = taker.side
  BY <1>1, <1>9 DEF Order
<1>11. /\ queue'[Opposite(side)] = queue[Opposite(side)]
       /\ queue'[side] = IF v = q[1].vol THEN RemoveOrder(q, 1)
                         ELSE [q EXCEPT ![1] = [q[1] EXCEPT !.vol = @ - v]]
  BY <1>2, <1>7 DEF BookInv, TypeOK
<1>12. CASE v = q[1].vol
  <2>1. /\ Len(RemoveOrder(q, 1)) = Len(q) - 1
        /\ \A i \in 1..(Len(q) - 1) : RemoveOrder(q, 1)[i] = IF i < 1 THEN q[i] ELSE q[i + 1]
    BY <1>3, <1>4, RemoveOrderSeq
  <2>2. \A i \in 1..(Len(q) - 1) : queue'[side][i] = q[i + 1]
    BY <1>11, <1>12, <2>1
  <2> QED
    BY <1>1, <1>2, <1>3, <1>4, <1>6, <1>8, <1>9, <1>10, <1>11, <1>12, <2>1, <2>2
<1>13. CASE v # q[1].vol
  <2>1. queue'[side] = [q EXCEPT ![1] = [q[1] EXCEPT !.vol = @ - v]] /\ v < q[1].vol
    BY <1>5, <1>6, <1>11, <1>13
  <2>2. /\ Len(queue'[side]) = Len(q) /\ queue'[side][1] = [q[1] EXCEPT !.vol = @ - v]
        /\ \A i \in 2..Len(q) : queue'[side][i] = q[i]
    BY <1>3, <1>4, <2>1
  <2> QED
    BY <1>1, <1>2, <1>3, <1>4, <1>6, <1>8, <1>9, <1>10, <1>11, <2>1, <2>2
<1> QED
  BY <1>12, <1>13

(* enqueueLocked puts one order between two parts of its side.               *)
LEMMA EnqueueQueue ==
    ASSUME BookInv, BookAssumption, EnqueueLocked,
           NEW side, side = taker.side, NEW q, q = queue[side]
    PROVE  /\ side \in Sides /\ q \in Seq(Resting)
           /\ taker \in Order(Nat) /\ taker.id \in Ids /\ taker.vol \in Nat \ {0}
           /\ queue' \in [Sides -> Seq(Resting)]
           /\ queue'[Opposite(side)] = queue[Opposite(side)]
           /\ \E k \in 0..Len(q) :
                /\ Len(queue'[side]) = Len(q) + 1
                /\ \A i \in 1..(Len(q) + 1) : queue'[side][i] =
                     IF i =< k THEN q[i]
                     ELSE IF i = k + 1 THEN [id |-> taker.id, price |-> taker.price,
                                             vol |-> taker.vol, at |-> arrivals]
                     ELSE q[i - 1]
<1> DEFINE r == [id |-> taker.id, price |-> taker.price, vol |-> taker.vol, at |-> arrivals]
<1>1. taker \in Order(Nat) /\ taker.vol > 0 /\ taker.kind = "limit" /\ arrivals \in Nat
  BY DEF BookInv, TypeOK, EnqueueLocked
<1>2. taker.price \in Prices /\ taker.vol \in Nat \ {0} /\ taker.id \in Ids /\ side \in Sides
  BY <1>1 DEF Order, Sides
<1>3. r \in Resting
  BY <1>1, <1>2 DEF Resting
<1>4. q \in Seq(Resting)
  BY <1>2 DEF BookInv, TypeOK
<1>5. PICK k \in 0..Len(q) : queue' = [queue EXCEPT ![side] = InsertBehind(q, k, r)]
  BY DEF EnqueueLocked
<1>6. /\ InsertBehind(q, k, r) \in Seq(Resting) /\ Len(InsertBehind(q, k, r)) = Len(q) + 1
      /\ \A i \in 1..(Len(q) + 1) : InsertBehind(q, k, r)[i] =
            IF i =< k THEN q[i] ELSE IF i = k + 1 THEN r ELSE q[i - 1]
  <2>1. k \in 0..Len(q)
    BY <1>5
  <2> HIDE DEF r
  <2> QED
    BY ONLY <1>3, <1>4, <2>1, InsertBehindSeq
<1>7. Opposite(side) # side /\ Opposite(side) \in Sides
  BY DEF Opposite, Sides
<1> HIDE DEF r
<1>8. queue' \in [Sides -> Seq(Resting)] /\ queue'[Opposite(side)] = queue[Opposite(side)]
      /\ queue'[side] = InsertBehind(q, k, r)
  BY <1>2, <1>5, <1>6, <1>7 DEF BookInv, TypeOK
<1>9. \E n \in 0..Len(q) :
         /\ Len(queue'[side]) = Len(q) + 1
         /\ \A i \in 1..(Len(q) + 1) : queue'[side][i] =
              IF i =< n THEN q[i] ELSE IF i = n + 1 THEN r ELSE q[i - 1]
  BY <1>5, <1>6, <1>8
<1> QED
  BY <1>1, <1>2, <1>4, <1>8, <1>9 DEF r

(* CancelOrder takes one order out of one side.                              *)
LEMMA CancelQueue ==
    ASSUME BookInv, BookAssumption, NEW id \in Ids, CancelOrder(id)
    PROVE  /\ queue' \in [Sides -> Seq(Resting)]
           /\ \E side \in Sides : \E k \in 1..Len(queue[side]) :
                /\ queue[side][k].id = id
                /\ dropped' = [dropped EXCEPT ![id] = @ + queue[side][k].vol]
                /\ queue'[Opposite(side)] = queue[Opposite(side)]
                /\ Len(queue'[side]) = Len(queue[side]) - 1
                /\ \A i \in 1..(Len(queue[side]) - 1) :
                      queue'[side][i] = IF i < k THEN queue[side][i] ELSE queue[side][i + 1]
<1>0. PICK side \in Sides : \E k \in 1..Len(queue[side]) :
         /\ queue[side][k].id = id
         /\ queue' = [queue EXCEPT ![side] = RemoveOrder(queue[side], k)]
         /\ dropped' = [dropped EXCEPT ![id] = @ + queue[side][k].vol]
  BY DEF CancelOrder
<1>1. PICK k \in 1..Len(queue[side]) :
         /\ queue[side][k].id = id
         /\ queue' = [queue EXCEPT ![side] = RemoveOrder(queue[side], k)]
         /\ dropped' = [dropped EXCEPT ![id] = @ + queue[side][k].vol]
  BY <1>0
<1>2. queue[side] \in Seq(Resting)
  BY DEF BookInv, TypeOK
<1>3. /\ RemoveOrder(queue[side], k) \in Seq(Resting)
      /\ Len(RemoveOrder(queue[side], k)) = Len(queue[side]) - 1
      /\ \A i \in 1..(Len(queue[side]) - 1) : RemoveOrder(queue[side], k)[i] =
            IF i < k THEN queue[side][i] ELSE queue[side][i + 1]
  BY <1>2, RemoveOrderSeq
<1>4. Opposite(side) # side /\ Opposite(side) \in Sides
  BY DEF Opposite, Sides
<1>5. queue' \in [Sides -> Seq(Resting)] /\ queue'[Opposite(side)] = queue[Opposite(side)]
      /\ queue'[side] = RemoveOrder(queue[side], k)
  BY <1>1, <1>3, <1>4 DEF BookInv, TypeOK
<1> QED
  BY <1>1, <1>3, <1>5
-----------------------------------------------------------------------------
(* What rests of each id after an order is taken out of a side, reduced or   *)
(* put in.                                                                   *)

(* Taking the k-th order out takes exactly its volume out.                   *)
LEMMA TakenOut ==
    ASSUME NEW q \in Seq(Resting), OnceIn(q), NEW k \in 1..Len(q),
           NEW p \in Seq(Resting), Len(p) = Len(q) - 1,
           \A i \in 1..(Len(q) - 1) : p[i] = IF i < k THEN q[i] ELSE q[i + 1]
    PROVE  /\ OnceIn(p)
           /\ \A i \in 1..Len(p) : \E j \in 1..Len(q) : p[i] = q[j]
           /\ \A j \in 1..Len(q) : j # k => \E i \in 1..Len(p) : p[i] = q[j]
           /\ Absent(p, q[k].id)
           /\ \A id : RestingVolume(p, id) =
                        IF id = q[k].id THEN 0 ELSE RestingVolume(q, id)
<1> DEFINE old(i) == IF i < k THEN i ELSE i + 1
<1>1. \A i \in 1..Len(p) : old(i) \in 1..Len(q) /\ old(i) # k /\ p[i] = q[old(i)]
  OBVIOUS
<1>2. \A i, j \in 1..Len(p) : old(i) = old(j) => i = j
  OBVIOUS
<1>3. \A j \in 1..Len(q) : j # k => \E i \in 1..Len(p) : old(i) = j
  <2> SUFFICES ASSUME NEW j \in 1..Len(q), j # k PROVE \E i \in 1..Len(p) : old(i) = j
    OBVIOUS
  <2>1. CASE j < k
    <3>1. j \in 1..Len(p) /\ old(j) = j
      BY <2>1
    <3> QED
      BY <3>1
  <2>2. CASE j > k
    <3>1. j - 1 \in 1..Len(p) /\ old(j - 1) = j
      BY <2>2
    <3> QED
      BY <3>1
  <2> QED
    BY <2>1, <2>2
<1> HIDE DEF old
<1>4. OnceIn(p)
  <2> SUFFICES ASSUME NEW i \in 1..Len(p), NEW j \in 1..Len(p), p[i].id = p[j].id
               PROVE  i = j
    BY DEF OnceIn
  <2>1. old(i) = old(j)
    BY <1>1 DEF OnceIn
  <2> QED
    BY <1>2, <2>1
<1>5. Absent(p, q[k].id)
  <2> SUFFICES ASSUME NEW i \in 1..Len(p) PROVE p[i].id # q[k].id
    BY DEF Absent
  <2> QED
    BY <1>1 DEF OnceIn
<1>6. ASSUME NEW id PROVE RestingVolume(p, id) = IF id = q[k].id THEN 0 ELSE RestingVolume(q, id)
  <2>1. CASE id = q[k].id
    BY <1>5, <2>1, RestingVolumeNone
  <2>2. CASE id # q[k].id
    <3>1. \A j \in 1..Len(q) : q[j].id = id =>
             \E i \in 1..Len(p) : p[i].id = id /\ p[i].vol = q[j].vol
      <4> SUFFICES ASSUME NEW j \in 1..Len(q), q[j].id = id
                   PROVE  \E i \in 1..Len(p) : p[i].id = id /\ p[i].vol = q[j].vol
        OBVIOUS
      <4>1. PICK i \in 1..Len(p) : old(i) = j
        BY <1>3, <2>2
      <4>2. p[i] = q[j]
        BY <1>1, <4>1
      <4> QED
        BY <4>2
    <3>2. \A i \in 1..Len(p) : p[i].id = id => \E j \in 1..Len(q) : q[j].id = id
      BY <1>1
    <3>3. RestingVolume(p, id) = RestingVolume(q, id)
      BY <1>4, <3>1, <3>2, RestingVolumeSame
    <3> QED
      BY <2>2, <3>3
  <2> QED
    BY <2>1, <2>2
<1>7. /\ \A i \in 1..Len(p) : \E j \in 1..Len(q) : p[i] = q[j]
      /\ \A j \in 1..Len(q) : j # k => \E i \in 1..Len(p) : p[i] = q[j]
  BY <1>1, <1>3
<1> QED
  BY <1>4, <1>5, <1>6, <1>7

(* Reducing the head takes out what was executed of it.                      *)
LEMMA HeadTaken ==
    ASSUME NEW q \in Seq(Resting), OnceIn(q), 1 \in 1..Len(q), NEW v \in Nat, v < q[1].vol,
           NEW p \in Seq(Resting), Len(p) = Len(q), p[1] = [q[1] EXCEPT !.vol = @ - v],
           \A i \in 2..Len(q) : p[i] = q[i]
    PROVE  /\ OnceIn(p)
           /\ \A i \in 1..Len(p) : p[i].id = q[i].id
           /\ \A id : RestingVolume(p, id) =
                        IF id = q[1].id THEN q[1].vol - v ELSE RestingVolume(q, id)
<1>1. q[1] \in Resting
  OBVIOUS
<1>2. p[1].id = q[1].id /\ p[1].vol = q[1].vol - v
  BY <1>1 DEF Resting
<1>3. \A i \in 1..Len(p) : p[i].id = q[i].id /\ (i # 1 => p[i] = q[i])
  <2> SUFFICES ASSUME NEW i \in 1..Len(p) PROVE p[i].id = q[i].id /\ (i # 1 => p[i] = q[i])
    OBVIOUS
  <2>1. CASE i = 1
    BY <1>2, <2>1
  <2>2. CASE i # 1
    <3>1. i \in 2..Len(q)
      BY <2>2
    <3>2. p[i] = q[i]
      BY <3>1
    <3> QED
      BY <3>2
  <2> QED
    BY <2>1, <2>2
<1>4. OnceIn(p)
  <2> SUFFICES ASSUME NEW i \in 1..Len(p), NEW j \in 1..Len(p), p[i].id = p[j].id
               PROVE  i = j
    BY DEF OnceIn
  <2>1. q[i].id = q[j].id /\ i \in 1..Len(q) /\ j \in 1..Len(q)
    BY <1>3
  <2> QED
    BY <2>1 DEF OnceIn
<1>5. ASSUME NEW id
      PROVE  RestingVolume(p, id) = IF id = q[1].id THEN q[1].vol - v ELSE RestingVolume(q, id)
  <2>1. CASE id = q[1].id
    <3>1. 1 \in 1..Len(p)
      OBVIOUS
    <3>2. RestingVolume(p, p[1].id) = p[1].vol
      BY ONLY <1>4, <3>1, p \in Seq(Resting), RestingVolumeIs
    <3> QED
      BY <1>2, <2>1, <3>2
  <2>2. CASE id # q[1].id
    <3>1. \A i \in 1..Len(q) : q[i].id = id =>
             \E j \in 1..Len(p) : p[j].id = id /\ p[j].vol = q[i].vol
      <4> SUFFICES ASSUME NEW i \in 1..Len(q), q[i].id = id
                   PROVE  \E j \in 1..Len(p) : p[j].id = id /\ p[j].vol = q[i].vol
        OBVIOUS
      <4>1. i \in 1..Len(p) /\ p[i] = q[i]
        BY <1>3, <2>2
      <4> QED
        BY <4>1
    <3>2. \A j \in 1..Len(p) : p[j].id = id => \E i \in 1..Len(q) : q[i].id = id
      BY <1>3
    <3>3. RestingVolume(p, id) = RestingVolume(q, id)
      BY <1>4, <3>1, <3>2, RestingVolumeSame
    <3> QED
      BY <2>2, <3>3
  <2> QED
    BY <2>1, <2>2
<1> QED
  BY <1>3, <1>4, <1>5

(* Putting in an order whose id is new to the side adds exactly its volume.  *)
LEMMA PutIn ==
    ASSUME NEW q \in Seq(Resting), OnceIn(q), NEW k \in 0..Len(q),
           NEW r \in Resting, Absent(q, r.id),
           NEW p \in Seq(Resting), Len(p) = Len(q) + 1,
           \A i \in 1..(Len(q) + 1) :
              p[i] = IF i =< k THEN q[i] ELSE IF i = k + 1 THEN r ELSE q[i - 1]
    PROVE  /\ OnceIn(p)
           /\ \A i \in 1..Len(p) : p[i].id = r.id \/ \E j \in 1..Len(q) : p[i] = q[j]
           /\ \A id : RestingVolume(p, id) =
                        IF id = r.id THEN r.vol ELSE RestingVolume(q, id)
<1> DEFINE old(i) == IF i =< k THEN i ELSE i - 1
<1>1. \A i \in 1..Len(p) : i # k + 1 => old(i) \in 1..Len(q) /\ p[i] = q[old(i)]
  OBVIOUS
<1>2. k + 1 \in 1..Len(p) /\ p[k + 1] = r
  OBVIOUS
<1>3. \A i, j \in 1..Len(p) : i # k + 1 /\ j # k + 1 /\ old(i) = old(j) => i = j
  OBVIOUS
<1>4. \A j \in 1..Len(q) : \E i \in 1..Len(p) : i # k + 1 /\ old(i) = j
  <2> SUFFICES ASSUME NEW j \in 1..Len(q)
               PROVE  \E i \in 1..Len(p) : i # k + 1 /\ old(i) = j
    OBVIOUS
  <2>1. CASE j =< k
    <3>1. j \in 1..Len(p) /\ j # k + 1 /\ old(j) = j
      BY <2>1
    <3> QED
      BY <3>1
  <2>2. CASE j > k
    <3>1. j + 1 \in 1..Len(p) /\ j + 1 # k + 1 /\ old(j + 1) = j
      BY <2>2
    <3> QED
      BY <3>1
  <2> QED
    BY <2>1, <2>2
<1> HIDE DEF old
<1>5. \A i \in 1..Len(p) : i # k + 1 => p[i].id # r.id
  BY <1>1 DEF Absent
<1>6. OnceIn(p)
  <2> SUFFICES ASSUME NEW i \in 1..Len(p), NEW j \in 1..Len(p), p[i].id = p[j].id
               PROVE  i = j
    BY DEF OnceIn
  <2>1. CASE i # k + 1 /\ j # k + 1
    <3>1. old(i) = old(j)
      BY <1>1, <2>1 DEF OnceIn
    <3> QED
      BY <1>3, <2>1, <3>1
  <2>2. CASE i = k + 1 \/ j = k + 1
    BY <1>2, <1>5, <2>2
  <2> QED
    BY <2>1, <2>2
<1>7. ASSUME NEW id PROVE RestingVolume(p, id) = IF id = r.id THEN r.vol ELSE RestingVolume(q, id)
  <2>1. CASE id = r.id
    <3>1. RestingVolume(p, p[k + 1].id) = p[k + 1].vol
      BY <1>2, <1>6, RestingVolumeIs
    <3> QED
      BY <1>2, <2>1, <3>1
  <2>2. CASE id # r.id
    <3>1. \A j \in 1..Len(q) : q[j].id = id =>
             \E i \in 1..Len(p) : p[i].id = id /\ p[i].vol = q[j].vol
      <4> SUFFICES ASSUME NEW j \in 1..Len(q), q[j].id = id
                   PROVE  \E i \in 1..Len(p) : p[i].id = id /\ p[i].vol = q[j].vol
        OBVIOUS
      <4>1. PICK i \in 1..Len(p) : i # k + 1 /\ old(i) = j
        BY <1>4
      <4>2. p[i] = q[j]
        BY <1>1, <4>1
      <4> QED
        BY <4>2
    <3>2. \A i \in 1..Len(p) : p[i].id = id => \E j \in 1..Len(q) : q[j].id = id
      BY <1>1, <1>2, <2>2
    <3>3. RestingVolume(p, id) = RestingVolume(q, id)
      BY <1>6, <3>1, <3>2, RestingVolumeSame
    <3> QED
      BY <2>2, <3>3
  <2> QED
    BY <2>1, <2>2
<1>8. \A i \in 1..Len(p) : p[i].id = r.id \/ \E j \in 1..Len(q) : p[i] = q[j]
  BY <1>1, <1>2
<1> QED
  BY <1>6, <1>7, <1>8
-----------------------------------------------------------------------------
(* Ids stay unique.                                                          *)

(* The other side has none of the ids of a side that only loses orders.      *)
LEMMA IdsShrink ==
    ASSUME IdsOnce, NEW side \in Sides,
           queue'[Opposite(side)] = queue[Opposite(side)],
           OnceIn(queue'[side]),
           \A i \in 1..Len(queue'[side]) : \E j \in 1..Len(queue[side]) :
              queue'[side][i].id = queue[side][j].id,
           orig' = orig,
           phase' = "match" => phase = "match" /\ taker'.id = taker.id
    PROVE  IdsOnce'
<1>1. CASE side = "buy"
  <2>1. queue'["sell"] = queue["sell"]
    BY <1>1 DEF Opposite
  <2> QED
    BY <1>1, <2>1 DEF IdsOnce, Sides, Absent
<1>2. CASE side = "sell"
  <2>1. queue'["buy"] = queue["buy"]
    BY <1>2 DEF Opposite
  <2> QED
    BY <1>2, <2>1 DEF IdsOnce, Sides, Absent
<1> QED
  BY <1>1, <1>2 DEF Sides

(* One turn of the loop moves v out of the maker and out of the taker, and   *)
(* leaves the ids in order.                                                  *)
LEMMA MatchOneMoves ==
    ASSUME BookInv, IdsOnce, BookAssumption, MatchOne
    PROVE  /\ IdsOnce'
           /\ \E t \in Trade :
                /\ trades' = Append(trades, t)
                /\ \A id : /\ InHand(id) \in Nat /\ AtRest(id) \in Nat
                           /\ InHand(id)' \in Nat /\ AtRest(id)' \in Nat
                           /\ Executed(t, id) \in Nat
                           /\ InHand(id) + AtRest(id) =
                                InHand(id)' + AtRest(id)' + Executed(t, id)
<1> DEFINE side == Opposite(taker.side)
           q == queue[side]
           v == IF taker.vol =< q[1].vol THEN taker.vol ELSE q[1].vol
           p == queue'[side]
           t == TradeWith(q[1], v)
           o == queue[Opposite(side)]
<1>1. /\ side \in Sides /\ q \in Seq(Resting) /\ 1 \in 1..Len(q) /\ q[1] \in Resting
      /\ taker \in Order(Nat) /\ v \in Nat \ {0} /\ v =< q[1].vol /\ v =< taker.vol
      /\ queue' \in [Sides -> Seq(Resting)] /\ queue'[Opposite(side)] = o
      /\ taker'.vol = taker.vol - v /\ taker'.id = taker.id
      /\ \/ /\ v = q[1].vol /\ Len(p) = Len(q) - 1
            /\ \A i \in 1..(Len(q) - 1) : p[i] = q[i + 1]
         \/ /\ v < q[1].vol /\ Len(p) = Len(q)
            /\ p[1] = [q[1] EXCEPT !.vol = @ - v]
            /\ \A i \in 2..Len(q) : p[i] = q[i]
  BY MatchOneQueue
<1>2. phase = "match" /\ phase' = phase /\ orig' = orig /\ trades' = Append(trades, t)
  BY DEF MatchOne
<1>3. OnceIn(q) /\ Absent(q, taker.id) /\ OnceIn(o) /\ Absent(o, taker.id)
      /\ o \in Seq(Resting) /\ p \in Seq(Resting) /\ Absent(o, q[1].id)
  BY <1>1, <1>2 DEF IdsOnce, Absent, Sides, Opposite, BookInv, TypeOK
<1>4. /\ taker.id \in Ids /\ taker.vol \in Nat /\ taker.id # q[1].id
      /\ q[1].id \in Ids /\ q[1].vol \in Nat /\ q[1].price \in Prices /\ taker.side \in Sides
  BY <1>1, <1>3 DEF Order, Resting, Absent
<1>5. t \in Trade
  BY <1>1, <1>4 DEF TradeWith, Trade
<1>6. \A id : Executed(t, id) = IF id = taker.id \/ id = q[1].id THEN v ELSE 0
  BY DEF Executed, TradeWith
<1>7. \A id : /\ InHand(id) = IF id = taker.id THEN taker.vol ELSE 0
              /\ InHand(id)' = IF id = taker.id THEN taker.vol - v ELSE 0
  BY <1>1, <1>2 DEF InHand
<1>8. \A id : /\ AtRest(id) = RestingVolume(q, id) + RestingVolume(o, id)
              /\ AtRest(id)' = RestingVolume(p, id) + RestingVolume(o, id)
              /\ RestingVolume(q, id) \in Nat /\ RestingVolume(o, id) \in Nat
  <2>1. \A id : RestingVolume(q, id) \in Nat /\ RestingVolume(o, id) \in Nat
    BY <1>1, <1>3, RestingVolumeNat
  <2>2. OnceIn(p)
    <3> HIDE DEF q, p, v, side, o, t
    <3>1. CASE Len(p) = Len(q) - 1 /\ \A i \in 1..(Len(q) - 1) : p[i] = q[i + 1]
      <4>1. \A i \in 1..(Len(q) - 1) : p[i] = IF i < 1 THEN q[i] ELSE q[i + 1]
        BY <3>1
      <4> QED
        BY <1>1, <1>3, <3>1, <4>1, TakenOut
    <3>2. CASE /\ v < q[1].vol /\ Len(p) = Len(q) /\ p[1] = [q[1] EXCEPT !.vol = @ - v]
               /\ \A i \in 2..Len(q) : p[i] = q[i]
      BY <1>1, <1>3, <3>2, HeadTaken
    <3> QED
      BY <1>1, <3>1, <3>2
  <2>3. \A id : RestingVolume(p, id) \in Nat
    BY <1>3, <2>2, RestingVolumeNat
  <2>4. CASE side = "buy"
    BY <1>1, <2>1, <2>3, <2>4 DEF Opposite, AtRest
  <2>5. CASE side = "sell"
    BY <1>1, <2>1, <2>3, <2>5 DEF Opposite, AtRest
  <2> QED
    BY <1>1, <2>1, <2>4, <2>5 DEF Sides
<1>9. /\ OnceIn(p)
      /\ \A i \in 1..Len(p) : \E j \in 1..Len(q) : p[i].id = q[j].id
      /\ \A id : RestingVolume(p, id) = IF id = q[1].id THEN q[1].vol - v ELSE RestingVolume(q, id)
      /\ RestingVolume(q, q[1].id) = q[1].vol /\ RestingVolume(q, taker.id) = 0
  <2> HIDE DEF q, p, v, side, o, t
  <2>1. RestingVolume(q, q[1].id) = q[1].vol /\ RestingVolume(q, taker.id) = 0
    BY <1>1, <1>3, RestingVolumeIs, RestingVolumeNone
  <2>2. CASE /\ Len(p) = Len(q) - 1 /\ v = q[1].vol
             /\ \A i \in 1..(Len(q) - 1) : p[i] = q[i + 1]
    <3>1. \A i \in 1..(Len(q) - 1) : p[i] = IF i < 1 THEN q[i] ELSE q[i + 1]
      BY <2>2
    <3>2. /\ OnceIn(p)
          /\ \A i \in 1..Len(p) : \E j \in 1..Len(q) : p[i] = q[j]
          /\ Absent(p, q[1].id)
          /\ \A id : RestingVolume(p, id) = IF id = q[1].id THEN 0 ELSE RestingVolume(q, id)
      <4>1. q \in Seq(Resting) /\ OnceIn(q) /\ p \in Seq(Resting) /\ 1 \in 1..Len(q)
        BY <1>1, <1>3
      <4>2. Len(p) = Len(q) - 1
        BY <2>2
      <4> QED
        BY ONLY <3>1, <4>1, <4>2, TakenOut, Zenon
    <3>3. q[1].vol - v = 0
      BY <1>4, <2>2
    <3> QED
      BY <2>1, <3>2, <3>3
  <2>3. CASE /\ v < q[1].vol /\ Len(p) = Len(q) /\ p[1] = [q[1] EXCEPT !.vol = @ - v]
             /\ \A i \in 2..Len(q) : p[i] = q[i]
    <3>1. /\ OnceIn(p)
          /\ \A i \in 1..Len(p) : p[i].id = q[i].id
          /\ \A id : RestingVolume(p, id) =
                        IF id = q[1].id THEN q[1].vol - v ELSE RestingVolume(q, id)
      BY <1>1, <1>3, <2>3, HeadTaken
    <3> QED
      BY <2>1, <2>3, <3>1
  <2> QED
    BY <1>1, <2>2, <2>3
<1>10. IdsOnce'
  BY <1>1, <1>2, <1>9, IdsShrink
<1>11. ASSUME NEW id
       PROVE  /\ InHand(id) \in Nat /\ AtRest(id) \in Nat
              /\ InHand(id)' \in Nat /\ AtRest(id)' \in Nat
              /\ Executed(t, id) \in Nat
              /\ InHand(id) + AtRest(id) = InHand(id)' + AtRest(id)' + Executed(t, id)
  <2> DEFINE a == RestingVolume(q, id)
             b == RestingVolume(o, id)
             c == RestingVolume(p, id)
  <2>1. a \in Nat /\ b \in Nat /\ AtRest(id) = a + b /\ AtRest(id)' = c + b
    BY <1>8
  <2>2. /\ InHand(id) = IF id = taker.id THEN taker.vol ELSE 0
        /\ InHand(id)' = IF id = taker.id THEN taker.vol - v ELSE 0
        /\ Executed(t, id) = IF id = taker.id \/ id = q[1].id THEN v ELSE 0
    BY <1>6, <1>7
  <2>3. c = (IF id = q[1].id THEN q[1].vol - v ELSE a) /\ (id = q[1].id => a = q[1].vol)
    BY <1>9
  <2> HIDE DEF a, b, c, v, q, p, o, t, side
  <2>4. v \in Nat /\ v =< q[1].vol /\ v =< taker.vol /\ taker.vol \in Nat /\ q[1].vol \in Nat
    BY <1>1, <1>4
  <2> QED
    BY <1>4, <2>1, <2>2, <2>3, <2>4
<1> QED
  BY <1>2, <1>5, <1>10, <1>11

(* What an enqueued order had in hand rests, and its id is new to the book.  *)
LEMMA EnqueueMoves ==
    ASSUME BookInv, IdsOnce, BookAssumption, EnqueueLocked
    PROVE  /\ IdsOnce'
           /\ \A id : /\ InHand(id) \in Nat /\ AtRest(id) \in Nat
                      /\ InHand(id)' = 0 /\ AtRest(id)' = InHand(id) + AtRest(id)
<1> DEFINE side == taker.side
           q == queue[side]
           p == queue'[side]
           o == queue[Opposite(side)]
           r == [id |-> taker.id, price |-> taker.price, vol |-> taker.vol, at |-> arrivals]
<1>1. /\ side \in Sides /\ q \in Seq(Resting)
      /\ taker \in Order(Nat) /\ taker.id \in Ids /\ taker.vol \in Nat \ {0}
      /\ queue' \in [Sides -> Seq(Resting)] /\ queue'[Opposite(side)] = o
      /\ \E k \in 0..Len(q) :
           /\ Len(p) = Len(q) + 1
           /\ \A i \in 1..(Len(q) + 1) :
                p[i] = IF i =< k THEN q[i] ELSE IF i = k + 1 THEN r ELSE q[i - 1]
  BY EnqueueQueue
<1>2. phase = "match" /\ phase' = "fire" /\ orig' = orig
  BY DEF EnqueueLocked
<1>3. OnceIn(q) /\ Absent(q, taker.id) /\ OnceIn(o) /\ Absent(o, taker.id)
      /\ o \in Seq(Resting) /\ p \in Seq(Resting) /\ orig[taker.id] > 0
  BY <1>1, <1>2 DEF IdsOnce, Sides, Opposite, BookInv, TypeOK
<1>4. r \in Resting /\ r.id = taker.id /\ r.vol = taker.vol
  <2>1. taker.price \in Prices /\ arrivals \in Nat
    BY <1>1 DEF EnqueueLocked, Order, BookInv, TypeOK
  <2> QED
    BY <1>1, <2>1 DEF Resting
<1>5. PICK k \in 0..Len(q) :
         /\ Len(p) = Len(q) + 1
         /\ \A i \in 1..(Len(q) + 1) :
              p[i] = IF i =< k THEN q[i] ELSE IF i = k + 1 THEN r ELSE q[i - 1]
  BY <1>1
<1>6. /\ OnceIn(p)
      /\ \A i \in 1..Len(p) : p[i].id = taker.id \/ \E j \in 1..Len(q) : p[i] = q[j]
      /\ \A id : RestingVolume(p, id) =
                   IF id = taker.id THEN taker.vol ELSE RestingVolume(q, id)
  <2> HIDE DEF side, q, p, o, r
  <2>1. Absent(q, r.id)
    BY <1>3, <1>4
  <2>2. /\ OnceIn(p)
        /\ \A i \in 1..Len(p) : p[i].id = r.id \/ \E j \in 1..Len(q) : p[i] = q[j]
        /\ \A id : RestingVolume(p, id) = IF id = r.id THEN r.vol ELSE RestingVolume(q, id)
    <3>1. k \in 0..Len(q) /\ Len(p) = Len(q) + 1
      BY <1>5
    <3>2. \A i \in 1..(Len(q) + 1) :
             p[i] = IF i =< k THEN q[i] ELSE IF i = k + 1 THEN r ELSE q[i - 1]
      BY <1>5
    <3>3. q \in Seq(Resting) /\ OnceIn(q) /\ r \in Resting /\ p \in Seq(Resting)
      BY <1>1, <1>3, <1>4
    <3> QED
      BY ONLY <2>1, <3>1, <3>2, <3>3, PutIn, Zenon
  <2> QED
    BY <1>4, <2>2
<1>7. IdsOnce'
  <2>1. \A i \in 1..Len(p) : Absent(o, p[i].id) /\ orig[p[i].id] > 0
    <3> SUFFICES ASSUME NEW i \in 1..Len(p) PROVE Absent(o, p[i].id) /\ orig[p[i].id] > 0
      OBVIOUS
    <3>1. CASE p[i].id = taker.id
      BY <1>3, <3>1
    <3>2. CASE \E j \in 1..Len(q) : p[i] = q[j]
      <4>1. PICK j \in 1..Len(q) : p[i] = q[j]
        BY <3>2
      <4>2. orig[q[j].id] > 0 /\ Absent(o, q[j].id)
        <5>1. orig[q[j].id] > 0
          BY <1>1 DEF IdsOnce
        <5>2. CASE side = "buy"
          BY <5>1, <5>2 DEF IdsOnce, Opposite
        <5>3. CASE side = "sell"
          BY <5>1, <5>3 DEF IdsOnce, Opposite, Absent
        <5> QED
          BY <1>1, <5>2, <5>3 DEF Sides
      <4> QED
        BY <4>1, <4>2
    <3> QED
      BY <1>6, <3>1, <3>2
  <2>2. CASE side = "buy"
    <3>1. queue'["buy"] = p /\ queue'["sell"] = o /\ o = queue["sell"]
      BY <1>1, <2>2 DEF Opposite
    <3> HIDE DEF p, o, q, side
    <3> QED
      BY <1>2, <1>6, <2>1, <3>1 DEF IdsOnce, Sides
  <2>3. CASE side = "sell"
    <3>1. queue'["sell"] = p /\ queue'["buy"] = o /\ o = queue["buy"]
      BY <1>1, <2>3 DEF Opposite
    <3>2. \A i \in 1..Len(o) : Absent(p, o[i].id)
      BY <2>1 DEF Absent
    <3> HIDE DEF p, o, q, side
    <3> QED
      BY <1>2, <1>6, <2>1, <3>1, <3>2 DEF IdsOnce, Sides
  <2> QED
    BY <1>1, <2>2, <2>3 DEF Sides
<1>8. ASSUME NEW id
      PROVE  /\ InHand(id) \in Nat /\ AtRest(id) \in Nat
             /\ InHand(id)' = 0 /\ AtRest(id)' = InHand(id) + AtRest(id)
  <2> DEFINE a == RestingVolume(q, id)
             b == RestingVolume(o, id)
             c == RestingVolume(p, id)
  <2>1. a \in Nat /\ b \in Nat /\ c \in Nat
    BY <1>1, <1>3, <1>6, RestingVolumeNat
  <2>2. AtRest(id) = a + b /\ AtRest(id)' = c + b
    <3>1. CASE side = "buy"
      BY <1>1, <2>1, <3>1 DEF Opposite, AtRest
    <3>2. CASE side = "sell"
      BY <1>1, <2>1, <3>2 DEF Opposite, AtRest
    <3> QED
      BY <1>1, <3>1, <3>2 DEF Sides
  <2>3. InHand(id) = (IF id = taker.id THEN taker.vol ELSE 0) /\ InHand(id)' = 0
    BY <1>2 DEF InHand
  <2>4. c = (IF id = taker.id THEN taker.vol ELSE a)
    BY <1>6
  <2>5. id = taker.id => a = 0
    BY <1>1, <1>3, RestingVolumeNone
  <2>6. taker.vol \in Nat
    BY <1>1
  <2> HIDE DEF a, b, c, q, p, o, r, side
  <2> QED
    BY <2>1, <2>2, <2>3, <2>4, <2>5, <2>6
<1> QED
  BY <1>7, <1>8

(* A cancelled order's volume no longer rests and is counted as dropped.     *)
LEMMA CancelMoves ==
    ASSUME BookInv, IdsOnce, BookAssumption, NEW x \in Ids, CancelOrder(x)
    PROVE  /\ IdsOnce'
           /\ dropped' \in [Ids -> Nat]
           /\ dropped'[x] > dropped[x] /\ AtRest(x)' = 0 /\ orig[x] > 0
           /\ \A id \in Ids \ {x} : dropped'[id] = dropped[id]
           /\ \A id \in Ids : /\ AtRest(id) \in Nat /\ AtRest(id)' \in Nat
                              /\ InHand(id) = 0 /\ InHand(id)' = 0
                              /\ dropped'[id] + AtRest(id)' = dropped[id] + AtRest(id)
<1>0. queue' \in [Sides -> Seq(Resting)]
  BY CancelQueue
<1>1. PICK side \in Sides : \E k \in 1..Len(queue[side]) :
         /\ queue[side][k].id = x
         /\ dropped' = [dropped EXCEPT ![x] = @ + queue[side][k].vol]
         /\ queue'[Opposite(side)] = queue[Opposite(side)]
         /\ Len(queue'[side]) = Len(queue[side]) - 1
         /\ \A i \in 1..(Len(queue[side]) - 1) :
               queue'[side][i] = IF i < k THEN queue[side][i] ELSE queue[side][i + 1]
  BY CancelQueue
<1> DEFINE q == queue[side]
           p == queue'[side]
           o == queue[Opposite(side)]
<1>2. PICK k \in 1..Len(q) :
         /\ q[k].id = x
         /\ dropped' = [dropped EXCEPT ![x] = @ + q[k].vol]
         /\ queue'[Opposite(side)] = o
         /\ Len(p) = Len(q) - 1
         /\ \A i \in 1..(Len(q) - 1) : p[i] = IF i < k THEN q[i] ELSE q[i + 1]
  BY <1>1
<1>3. q \in Seq(Resting) /\ OnceIn(q) /\ o \in Seq(Resting) /\ OnceIn(o) /\ p \in Seq(Resting)
  BY <1>0 DEF BookInv, TypeOK, IdsOnce, Sides, Opposite
<1>4. phase' = "fire" /\ orig' = orig /\ phase = "free"
  BY DEF CancelOrder
<1>5. dropped \in [Ids -> Nat] /\ q[k].vol \in Nat
  <2>1. q[k] \in Resting
    BY <1>2, <1>3
  <2> QED
    BY <2>1 DEF BookInv, TypeOK, Resting
<1>6. /\ OnceIn(p)
      /\ \A i \in 1..Len(p) : \E j \in 1..Len(q) : p[i] = q[j]
      /\ Absent(p, q[k].id)
      /\ \A id : RestingVolume(p, id) = IF id = q[k].id THEN 0 ELSE RestingVolume(q, id)
  <2> HIDE DEF q, p, o
  <2>1. k \in 1..Len(q) /\ Len(p) = Len(q) - 1
    BY <1>2
  <2>2. \A i \in 1..(Len(q) - 1) : p[i] = IF i < k THEN q[i] ELSE q[i + 1]
    BY <1>2
  <2> QED
    BY ONLY <1>3, <2>1, <2>2, TakenOut, Zenon
<1>7. IdsOnce'
  <2>1. \A i \in 1..Len(p) : \E j \in 1..Len(q) : p[i].id = q[j].id
    BY <1>6
  <2> QED
    BY <1>2, <1>4, <1>6, <2>1, IdsShrink
<1>8. ASSUME NEW id \in Ids
      PROVE  /\ AtRest(id) \in Nat /\ AtRest(id)' \in Nat
             /\ InHand(id) = 0 /\ InHand(id)' = 0
             /\ dropped'[id] + AtRest(id)' = dropped[id] + AtRest(id)
  <2> DEFINE a == RestingVolume(q, id)
             b == RestingVolume(o, id)
             c == RestingVolume(p, id)
  <2>1. a \in Nat /\ b \in Nat /\ c \in Nat
    BY <1>3, <1>6, RestingVolumeNat
  <2>2. AtRest(id) = a + b /\ AtRest(id)' = c + b
    <3>1. CASE side = "buy"
      BY <1>2, <2>1, <3>1 DEF Opposite, AtRest
    <3>2. CASE side = "sell"
      BY <1>2, <2>1, <3>2 DEF Opposite, AtRest
    <3> QED
      BY <3>1, <3>2 DEF Sides
  <2>3. InHand(id) = 0 /\ InHand(id)' = 0
    BY <1>4 DEF InHand
  <2>4. c = IF id = x THEN 0 ELSE a
    BY <1>2, <1>6
  <2>5. id = x => a = q[k].vol
    BY <1>2, <1>3, RestingVolumeIs
  <2>6. dropped'[id] = dropped[id] + (IF id = x THEN q[k].vol ELSE 0) /\ dropped[id] \in Nat
    BY <1>2, <1>5
  <2> HIDE DEF a, b, c, q, p, o
  <2> QED
    BY <1>5, <2>1, <2>2, <2>3, <2>4, <2>5, <2>6
<1>9. dropped' \in [Ids -> Nat] /\ \A id \in Ids \ {x} : dropped'[id] = dropped[id]
  BY <1>2, <1>5
<1>10. dropped'[x] > dropped[x] /\ orig[x] > 0
  <2>1. q[k] \in Resting
    BY <1>2, <1>3
  <2>2. q[k].vol > 0
    BY <2>1 DEF Resting
  <2>3. orig[q[k].id] > 0
    BY <1>2 DEF IdsOnce
  <2> QED
    BY <1>2, <1>5, <2>2, <2>3
<1>11. AtRest(x)' = 0
  <2>1. Absent(o, x)
    <3>1. CASE side = "buy"
      BY <1>2, <3>1 DEF IdsOnce, Opposite
    <3>2. CASE side = "sell"
      BY <1>2, <3>2 DEF IdsOnce, Opposite, Absent
    <3> QED
      BY <3>1, <3>2 DEF Sides
  <2>2. RestingVolume(o, x) = 0 /\ RestingVolume(p, x) = 0
    BY <1>2, <1>3, <1>6, <2>1, RestingVolumeNone
  <2>3. CASE side = "buy"
    BY <1>2, <2>2, <2>3 DEF Opposite, AtRest
  <2>4. CASE side = "sell"
    BY <1>2, <2>2, <2>4 DEF Opposite, AtRest
  <2> QED
    BY <2>3, <2>4 DEF Sides
<1> QED
  BY <1>7, <1>8, <1>9, <1>10, <1>11

(* An id that was never submitted is nowhere in the book. *)
LEMMA SubmitMoves ==
    ASSUME BookInv, IdsOnce, BookAssumption, NEW o \in Order(Volumes), Submit(o)
    PROVE  /\ IdsOnce'
           /\ \A side \in Sides : Absent(queue[side], o.id)
<1>1. o.id \in Ids /\ o.vol \in Nat \ {0} /\ orig[o.id] = 0 /\ orig \in [Ids -> Nat]
  BY DEF Order, BookAssumption, Submit, BookInv, TypeOK
<1>2. /\ queue' = queue /\ taker' = o /\ phase' = "match"
      /\ orig' = [orig EXCEPT ![o.id] = o.vol]
  BY DEF Submit
<1>3. \A side \in Sides : Absent(queue[side], o.id)
  BY <1>1 DEF IdsOnce, Absent
<1>4. \A side \in Sides : \A i \in 1..Len(queue[side]) : queue[side][i].id \in Ids
  <2>1. \A side \in Sides : queue[side] \in Seq(Resting)
    BY DEF BookInv, TypeOK
  <2>2. \A x \in Resting : x.id \in Ids
    BY DEF Resting
  <2> QED
    BY <2>1, <2>2
<1>5. \A side \in Sides : \A i \in 1..Len(queue[side]) : orig'[queue[side][i].id] > 0
  BY <1>1, <1>2, <1>3, <1>4 DEF IdsOnce, Absent
<1>6. orig'[o.id] > 0
  BY <1>1, <1>2
<1> QED
  BY <1>2, <1>3, <1>5, <1>6 DEF IdsOnce

(* No step brings an order's id into the book a second time. *)
LEMMA IdsStep == BookInv /\ IdsOnce /\ [Next]_vars => IdsOnce'
<1> SUFFICES ASSUME BookInv, IdsOnce, [Next]_vars PROVE IdsOnce'
  OBVIOUS
<1>a. BookAssumption
  BY BookAssumption
<1>q. ASSUME UNCHANGED <<queue, orig>>, phase' # "match" \/ (phase' = phase /\ taker' = taker)
      PROVE  IdsOnce'
  BY <1>q DEF IdsOnce
<1>1. CASE Register
  BY <1>1, <1>q DEF Register, bookVars
<1>2. ASSUME NEW o \in Order(Volumes), Submit(o) PROVE IdsOnce'
  BY <1>2, <1>a, SubmitMoves
<1>3. CASE MatchOne
  BY <1>3, <1>a, MatchOneMoves
<1>4. CASE EnqueueLocked
  BY <1>4, <1>a, EnqueueMoves
<1>5. CASE Discard
  BY <1>5, <1>q DEF Discard
<1>6. CASE Fire
  BY <1>6, <1>q DEF Fire
<1>7. CASE Return
  BY <1>7, <1>q DEF Return
<1>8. ASSUME NEW id \in Ids, CancelOrder(id) PROVE IdsOnce'
  BY <1>8, <1>a, CancelMoves
<1>9. CASE UNCHANGED vars
  BY <1>9, <1>q DEF vars, bookVars
<1> QED
  BY <1>1, <1>2, <1>3, <1>4, <1>5, <1>6, <1>7, <1>8, <1>9 DEF Next

-----------------------------------------------------------------------------
(* What the pending trades have still to tell.                               *)

(* A new trade adds what it executes. *)
LEMMA DueAppend ==
    ASSUME NEW ts \in Seq(Trade), NEW t \in Trade, NEW id,
           NEW due \in [1..(Len(ts) + 1) -> Nat], DueFor(ts, id, due)
    PROVE  \E d \in [1..(Len(Append(ts, t)) + 1) -> Nat] :
              DueFor(Append(ts, t), id, d) /\ d[1] = due[1] + Executed(t, id)
<1> DEFINE n == Len(ts)
           e == Executed(t, id)
           us == Append(ts, t)
           d == [m \in 1..(n + 2) |-> IF m = n + 2 THEN 0 ELSE due[m] + e]
<1>1. n \in Nat /\ Len(us) = n + 1 /\ us[n + 1] = t /\ \A m \in 1..n : us[m] = ts[m]
  OBVIOUS
<1>2. e \in Nat /\ \A m \in 1..n : Executed(ts[m], id) \in Nat
  <2>1. \A x \in Trade : Executed(x, id) \in Nat
    BY DEF Executed, Trade
  <2>2. \A m \in 1..n : ts[m] \in Trade
    OBVIOUS
  <2> QED
    BY <2>1, <2>2
<1>3. due \in [1..(n + 1) -> Nat]
  OBVIOUS
<1>4. due[n + 1] = 0 /\ \A m \in 1..n : due[m] = due[m + 1] + Executed(ts[m], id)
  BY DEF DueFor
<1>5. e = Executed(t, id)
  OBVIOUS
<1> HIDE DEF n, e, us
<1>6. d \in [1..(n + 2) -> Nat]
  BY <1>1, <1>2, <1>3
<1>7. d[n + 2] = 0 /\ \A m \in 1..(n + 1) : d[m] = due[m] + e
  BY <1>1
<1> HIDE DEF d
<1>8. \A m \in 1..(n + 1) : d[m] = d[m + 1] + Executed(us[m], id)
  <2> SUFFICES ASSUME NEW m \in 1..(n + 1) PROVE d[m] = d[m + 1] + Executed(us[m], id)
    OBVIOUS
  <2>1. CASE m = n + 1
    <3>1. d[m] = 0 + e /\ m + 1 = n + 2
      BY <1>1, <1>4, <1>7, <2>1
    <3> QED
      BY <1>1, <1>2, <1>5, <1>7, <2>1, <3>1
  <2>2. CASE m # n + 1
    <3>1. m \in 1..n /\ m + 1 \in 1..(n + 1) /\ us[m] = ts[m]
      BY <1>1, <2>2
    <3>2. d[m] = due[m] + e /\ d[m + 1] = due[m + 1] + e
      BY <1>7, <3>1
    <3>3. due[m] = due[m + 1] + Executed(ts[m], id) /\ due[m + 1] \in Nat
          /\ Executed(ts[m], id) \in Nat
      BY <1>2, <1>3, <1>4, <3>1
    <3> QED
      BY <1>2, <3>1, <3>2, <3>3
  <2> QED
    BY <2>1, <2>2
<1>9. DueFor(us, id, d)
  <2>1. Len(us) + 1 = n + 2
    BY <1>1
  <2> QED
    BY <1>1, <1>7, <1>8, <2>1 DEF DueFor
<1>10. d[1] = due[1] + e /\ Len(us) + 1 = n + 2
  BY <1>1, <1>7
<1> QED
  BY <1>5, <1>6, <1>9, <1>10 DEF us

(* A trade that is told is no longer due. *)
LEMMA DueTail ==
    ASSUME NEW ts \in Seq(Trade), ts # <<>>, NEW id,
           NEW due \in [1..(Len(ts) + 1) -> Nat], DueFor(ts, id, due)
    PROVE  /\ due[1] \in Nat /\ Executed(Head(ts), id) \in Nat
           /\ \E d \in [1..(Len(Tail(ts)) + 1) -> Nat] :
                 /\ DueFor(Tail(ts), id, d) /\ d[1] \in Nat
                 /\ due[1] = d[1] + Executed(Head(ts), id)
<1> DEFINE n == Len(ts)
           us == Tail(ts)
           d == [m \in 1..n |-> due[m + 1]]
<1>1. n \in Nat \ {0} /\ us \in Seq(Trade) /\ Len(us) = n - 1 /\ Head(ts) = ts[1]
      /\ \A m \in 1..(n - 1) : us[m] = ts[m + 1]
  OBVIOUS
<1>2. due \in [1..(n + 1) -> Nat]
  OBVIOUS
<1>3. due[n + 1] = 0 /\ \A m \in 1..n : due[m] = due[m + 1] + Executed(ts[m], id)
  BY DEF DueFor
<1>4. Executed(ts[1], id) \in Nat
  <2>1. ts[1] \in Trade
    BY <1>1
  <2> QED
    BY <2>1 DEF Executed, Trade
<1> HIDE DEF n, us
<1>5. d \in [1..n -> Nat] /\ \A m \in 1..n : d[m] = due[m + 1]
  BY <1>1, <1>2
<1> HIDE DEF d
<1>6. DueFor(us, id, d)
  <2>1. Len(us) + 1 = n
    BY <1>1
  <2>2. d[n] = 0
    BY <1>1, <1>3, <1>5
  <2>3. \A m \in 1..(n - 1) : d[m] = d[m + 1] + Executed(us[m], id)
    <3> SUFFICES ASSUME NEW m \in 1..(n - 1) PROVE d[m] = d[m + 1] + Executed(us[m], id)
      OBVIOUS
    <3>1. m \in 1..n /\ m + 1 \in 1..n /\ us[m] = ts[m + 1]
      BY <1>1
    <3>2. due[m + 1] = due[m + 1 + 1] + Executed(ts[m + 1], id)
      BY <1>3, <3>1
    <3> QED
      BY <1>5, <3>1, <3>2
  <2> QED
    BY <1>1, <2>1, <2>2, <2>3 DEF DueFor
<1>7. due[1] = due[2] + Executed(ts[1], id) /\ d[1] = due[2] /\ d[1] \in Nat /\ due[1] \in Nat
  <2>1. 1 \in 1..n /\ 1 + 1 = 2 /\ 1 \in 1..(n + 1)
    BY <1>1
  <2> QED
    BY <1>2, <1>3, <1>5, <2>1
<1>8. Len(us) + 1 = n
  BY <1>1
<1> QED
  BY <1>1, <1>4, <1>5, <1>6, <1>7, <1>8 DEF us

-----------------------------------------------------------------------------
(* Volumes add up.                                                           *)

(* What rests of an order and what a call has in hand of it are numbers.     *)
LEMMA AmountsNat ==
    ASSUME BookInv, IdsOnce, NEW id \in Ids
    PROVE  /\ InHand(id) \in Nat /\ AtRest(id) \in Nat
           /\ orig[id] \in Nat /\ told[id] \in Nat /\ dropped[id] \in Nat
<1>1. InHand(id) \in Nat
  BY DEF InHand, BookInv, TypeOK, Order
<1>2. RestingVolume(queue["buy"], id) \in Nat /\ RestingVolume(queue["sell"], id) \in Nat
  <2>1. /\ queue["buy"] \in Seq(Resting) /\ OnceIn(queue["buy"])
        /\ queue["sell"] \in Seq(Resting) /\ OnceIn(queue["sell"])
    BY DEF BookInv, TypeOK, IdsOnce, Sides
  <2> QED
    BY <2>1, RestingVolumeNat
<1> QED
  BY <1>1, <1>2 DEF AtRest, BookInv, TypeOK

(* A step that leaves the trades alone and moves volume only between what    *)
(* rests, what is in hand, what was dropped and what was submitted.          *)
LEMMA SameTradesAdd ==
    ASSUME AccountInv, trades' = trades, told' = told,
           \A id \in Ids : /\ orig'[id] \in Nat /\ dropped'[id] \in Nat
                           /\ InHand(id)' \in Nat /\ AtRest(id)' \in Nat
                           /\ orig'[id] + dropped[id] + InHand(id) + AtRest(id)
                                = orig[id] + dropped'[id] + InHand(id)' + AtRest(id)'
    PROVE  AccountsAdd'
<1> SUFFICES ASSUME NEW id \in Ids
             PROVE  \E d \in [1..(Len(trades') + 1) -> Nat] :
                       /\ DueFor(trades', id, d)
                       /\ orig'[id] = told'[id] + dropped'[id] + d[1] + InHand(id)' + AtRest(id)'
  BY DEF AccountsAdd
<1>1. PICK due \in [1..(Len(trades) + 1) -> Nat] :
         /\ DueFor(trades, id, due)
         /\ orig[id] = told[id] + dropped[id] + due[1] + InHand(id) + AtRest(id)
  BY DEF AccountInv, AccountsAdd
<1>2. due[1] \in Nat
  <2>1. 1 \in 1..(Len(trades) + 1)
    BY DEF AccountInv, BookInv, TypeOK
  <2> QED
    BY <1>1, <2>1
<1>3. /\ InHand(id) \in Nat /\ AtRest(id) \in Nat
      /\ orig[id] \in Nat /\ told[id] \in Nat /\ dropped[id] \in Nat
  BY AmountsNat DEF AccountInv
<1>4. orig'[id] = told[id] + dropped'[id] + due[1] + InHand(id)' + AtRest(id)'
  <2> DEFINE o  == orig[id]
             o1 == orig'[id]
             to == told[id]
             dr == dropped[id]
             d1 == dropped'[id]
             du == due[1]
             h  == InHand(id)
             h1 == InHand(id)'
             r  == AtRest(id)
             r1 == AtRest(id)'
  <2>1. /\ o \in Nat /\ o1 \in Nat /\ to \in Nat /\ dr \in Nat /\ d1 \in Nat
        /\ du \in Nat /\ h \in Nat /\ h1 \in Nat /\ r \in Nat /\ r1 \in Nat
    BY <1>2, <1>3
  <2>2. o1 + dr + h + r = o + d1 + h1 + r1
    OBVIOUS
  <2>3. o = to + dr + du + h + r
    BY <1>1
  <2> HIDE DEF o, o1, to, dr, d1, du, h, h1, r, r1
  <2>4. o1 = to + d1 + du + h1 + r1
    BY ONLY <2>1, <2>2, <2>3
  <2> QED
    BY <2>4 DEF o1, to, d1, du, h1, r1
<1>5. /\ DueFor(trades', id, due) /\ due \in [1..(Len(trades') + 1) -> Nat]
      /\ orig'[id] = told'[id] + dropped'[id] + due[1] + InHand(id)' + AtRest(id)'
  BY <1>1, <1>4
<1> QED
  BY <1>5

(* Every step moves an order's quantity between trading, resting, dropped and
   pending; none of it appears or is lost. *)
LEMMA AccountStep == AccountInv /\ [Next]_vars => AccountInv'
<1> SUFFICES ASSUME AccountInv, [Next]_vars PROVE AccountInv'
  OBVIOUS
<1>a. BookAssumption
  BY BookAssumption
<1>b. BookInv /\ IdsOnce /\ BookInv' /\ IdsOnce'
  BY BookInvStep, IdsStep DEF AccountInv
<1>c. \A id \in Ids : /\ InHand(id) \in Nat /\ AtRest(id) \in Nat
                      /\ orig[id] \in Nat /\ told[id] \in Nat /\ dropped[id] \in Nat
  BY <1>b, AmountsNat
<1>d. trades \in Seq(Trade)
  BY <1>b DEF BookInv, TypeOK
<1>1. CASE Register \/ Return \/ UNCHANGED vars
  <2>1. UNCHANGED <<queue, taker, trades, orig, told, dropped>>
        /\ (phase' = "match" <=> phase = "match")
    BY <1>1 DEF Register, Return, vars, bookVars
  <2>2. \A id \in Ids : InHand(id)' = InHand(id) /\ AtRest(id)' = AtRest(id)
    BY <2>1 DEF InHand, AtRest
  <2>3. AccountsAdd'
    BY <1>c, <2>1, <2>2, SameTradesAdd
  <2>4. ToldAll'
    BY <1>1 DEF AccountInv, ToldAll, Register, Return, vars, bookVars
  <2> QED
    BY <1>b, <2>3, <2>4 DEF AccountInv
<1>2. ASSUME NEW o \in Order(Volumes), Submit(o) PROVE AccountInv'
  <2>1. /\ \A side \in Sides : Absent(queue[side], o.id)
        /\ queue["buy"] \in Seq(Resting) /\ queue["sell"] \in Seq(Resting)
    BY <1>2, <1>a, <1>b, SubmitMoves DEF BookInv, TypeOK, Sides
  <2>2. /\ phase = "free" /\ phase' = "match" /\ taker' = o /\ orig[o.id] = 0
        /\ orig' = [orig EXCEPT ![o.id] = o.vol] /\ orig \in [Ids -> Nat]
        /\ UNCHANGED <<queue, trades, told, dropped>>
    BY <1>2, <1>b DEF Submit, BookInv, TypeOK
  <2>3. o.id \in Ids /\ o.vol \in Nat
    BY <1>a DEF Order, BookAssumption
  <2>4. \A id \in Ids : /\ AtRest(id)' = AtRest(id) /\ InHand(id) = 0
                        /\ InHand(id)' = IF id = o.id THEN o.vol ELSE 0
                        /\ orig'[id] = IF id = o.id THEN o.vol ELSE orig[id]
    BY <2>2 DEF AtRest, InHand
  <2>5. \A id \in Ids : /\ orig'[id] \in Nat /\ dropped'[id] \in Nat
                        /\ InHand(id)' \in Nat /\ AtRest(id)' \in Nat
                        /\ orig'[id] + dropped[id] + InHand(id) + AtRest(id)
                             = orig[id] + dropped'[id] + InHand(id)' + AtRest(id)'
    BY <1>c, <2>2, <2>3, <2>4
  <2>6. AccountsAdd'
    BY <2>2, <2>5, SameTradesAdd
  <2>7. ToldAll'
    BY <2>2 DEF ToldAll
  <2> QED
    BY <1>b, <2>6, <2>7 DEF AccountInv
<1>3. CASE MatchOne
  <2>1. PICK t \in Trade :
          /\ trades' = Append(trades, t)
          /\ \A id : /\ InHand(id) \in Nat /\ AtRest(id) \in Nat
                     /\ InHand(id)' \in Nat /\ AtRest(id)' \in Nat
                     /\ Executed(t, id) \in Nat
                     /\ InHand(id) + AtRest(id) = InHand(id)' + AtRest(id)' + Executed(t, id)
    BY <1>3, <1>a, <1>b, MatchOneMoves
  <2>2. UNCHANGED <<orig, told, dropped>> /\ phase' = "match"
    BY <1>3 DEF MatchOne
  <2>3. ASSUME NEW id \in Ids
        PROVE  \E d \in [1..(Len(trades') + 1) -> Nat] :
                  /\ DueFor(trades', id, d)
                  /\ orig'[id] = told'[id] + dropped'[id] + d[1] + InHand(id)' + AtRest(id)'
    <3>1. PICK due \in [1..(Len(trades) + 1) -> Nat] :
             /\ DueFor(trades, id, due)
             /\ orig[id] = told[id] + dropped[id] + due[1] + InHand(id) + AtRest(id)
      BY DEF AccountInv, AccountsAdd
    <3>2. due[1] \in Nat
      <4>1. 1 \in 1..(Len(trades) + 1)
        BY <1>d
      <4> QED
        BY <3>1, <4>1
    <3>3. PICK d \in [1..(Len(trades') + 1) -> Nat] :
             DueFor(trades', id, d) /\ d[1] = due[1] + Executed(t, id)
      BY <1>d, <2>1, <3>1, DueAppend
    <3>4. orig[id] = told[id] + dropped[id] + d[1] + InHand(id)' + AtRest(id)'
      <4> DEFINE o  == orig[id]
                 to == told[id]
                 dr == dropped[id]
                 du == due[1]
                 d1 == d[1]
                 h  == InHand(id)
                 h1 == InHand(id)'
                 r  == AtRest(id)
                 r1 == AtRest(id)'
                 e  == Executed(t, id)
      <4>1. /\ h \in Nat /\ r \in Nat /\ h1 \in Nat /\ r1 \in Nat /\ e \in Nat
            /\ h + r = h1 + r1 + e
        BY <2>1
      <4>2. o \in Nat /\ to \in Nat /\ dr \in Nat /\ du \in Nat
        BY <1>c, <3>2
      <4>3. o = to + dr + du + h + r /\ d1 = du + e
        BY <3>1, <3>3
      <4> HIDE DEF o, to, dr, du, d1, h, h1, r, r1, e
      <4>4. o = to + dr + d1 + h1 + r1
        BY ONLY <4>1, <4>2, <4>3
      <4> QED
        BY <4>4 DEF o, to, dr, d1, h1, r1
    <3> QED
      BY <2>2, <3>3, <3>4
  <2>4. AccountsAdd' /\ ToldAll'
    BY <2>2, <2>3 DEF AccountsAdd, ToldAll
  <2> QED
    BY <1>b, <2>4 DEF AccountInv
<1>4. CASE EnqueueLocked
  <2>1. \A id : /\ InHand(id) \in Nat /\ AtRest(id) \in Nat
                /\ InHand(id)' = 0 /\ AtRest(id)' = InHand(id) + AtRest(id)
    BY <1>4, <1>a, <1>b, EnqueueMoves
  <2>2. UNCHANGED <<trades, orig, told, dropped>> /\ phase' = "fire"
    BY <1>4 DEF EnqueueLocked
  <2>3. AccountsAdd'
    BY <1>c, <2>1, <2>2, SameTradesAdd
  <2>4. ToldAll'
    BY <2>2 DEF ToldAll
  <2> QED
    BY <1>b, <2>3, <2>4 DEF AccountInv
<1>5. CASE Discard
  <2>1. /\ UNCHANGED <<queue, trades, orig, told>> /\ phase = "match" /\ phase' = "fire"
        /\ dropped' = [dropped EXCEPT ![taker.id] = @ + taker.vol]
    BY <1>5 DEF Discard
  <2>2. taker.id \in Ids /\ taker.vol \in Nat /\ dropped \in [Ids -> Nat]
    BY <1>b, <2>1 DEF BookInv, TypeOK, Order
  <2>3. \A id \in Ids : /\ AtRest(id)' = AtRest(id) /\ InHand(id)' = 0
                        /\ InHand(id) = IF id = taker.id THEN taker.vol ELSE 0
                        /\ dropped'[id] = IF id = taker.id THEN dropped[id] + taker.vol ELSE dropped[id]
    BY <2>1, <2>2 DEF AtRest, InHand
  <2>4. \A id \in Ids : /\ orig'[id] \in Nat /\ dropped'[id] \in Nat
                        /\ InHand(id)' \in Nat /\ AtRest(id)' \in Nat
                        /\ orig'[id] + dropped[id] + InHand(id) + AtRest(id)
                             = orig[id] + dropped'[id] + InHand(id)' + AtRest(id)'
    BY <1>c, <2>1, <2>2, <2>3
  <2>5. AccountsAdd'
    BY <2>1, <2>4, SameTradesAdd
  <2>6. ToldAll'
    BY <2>1 DEF ToldAll
  <2> QED
    BY <1>b, <2>5, <2>6 DEF AccountInv
<1>6. CASE Fire
  <2>1. /\ UNCHANGED <<queue, phase, taker, orig, dropped>> /\ phase = "fire"
        /\ trades # <<>> /\ trades' = Tail(trades)
        /\ \A id \in Ids : told'[id] = told[id] + Executed(Head(trades), id)
    BY <1>6 DEF Fire, Executed
  <2>2. ASSUME NEW id \in Ids
        PROVE  \E d \in [1..(Len(trades') + 1) -> Nat] :
                  /\ DueFor(trades', id, d)
                  /\ orig'[id] = told'[id] + dropped'[id] + d[1] + InHand(id)' + AtRest(id)'
    <3>1. PICK due \in [1..(Len(trades) + 1) -> Nat] :
             /\ DueFor(trades, id, due)
             /\ orig[id] = told[id] + dropped[id] + due[1] + InHand(id) + AtRest(id)
      BY DEF AccountInv, AccountsAdd
    <3>2. due[1] \in Nat /\ Executed(Head(trades), id) \in Nat
      BY <1>d, <2>1, <3>1, DueTail
    <3>3. PICK d \in [1..(Len(trades') + 1) -> Nat] :
             /\ DueFor(trades', id, d) /\ d[1] \in Nat
             /\ due[1] = d[1] + Executed(Head(trades), id)
      BY <1>d, <2>1, <3>1, DueTail
    <3>4. InHand(id)' = InHand(id) /\ AtRest(id)' = AtRest(id)
      BY <2>1 DEF InHand, AtRest
    <3>5. orig[id] = (told[id] + Executed(Head(trades), id)) + dropped[id] + d[1]
                     + InHand(id) + AtRest(id)
      BY <1>c, <3>1, <3>2, <3>3
    <3> QED
      BY <2>1, <3>3, <3>4, <3>5
  <2>3. AccountsAdd' /\ ToldAll'
    BY <2>1, <2>2 DEF AccountsAdd, ToldAll
  <2> QED
    BY <1>b, <2>3 DEF AccountInv
<1>7. ASSUME NEW x \in Ids, CancelOrder(x) PROVE AccountInv'
  <2>1. \A id \in Ids : /\ AtRest(id) \in Nat /\ AtRest(id)' \in Nat /\ dropped'[id] \in Nat
                        /\ InHand(id) = 0 /\ InHand(id)' = 0
                        /\ dropped'[id] + AtRest(id)' = dropped[id] + AtRest(id)
    BY <1>7, <1>a, <1>b, CancelMoves
  <2>2. UNCHANGED <<trades, orig, told>> /\ phase' = "fire"
    BY <1>7 DEF CancelOrder
  <2>3. AccountsAdd'
    <3>1. \A id \in Ids : /\ orig'[id] \in Nat /\ dropped'[id] \in Nat
                          /\ InHand(id)' \in Nat /\ AtRest(id)' \in Nat
                          /\ orig'[id] + dropped[id] + InHand(id) + AtRest(id)
                               = orig[id] + dropped'[id] + InHand(id)' + AtRest(id)'
      BY <1>c, <2>1, <2>2
    <3> QED
      BY <2>2, <3>1, SameTradesAdd
  <2>4. ToldAll'
    BY <2>2 DEF ToldAll
  <2> QED
    BY <1>b, <2>3, <2>4 DEF AccountInv
<1> QED
  BY <1>1, <1>2, <1>3, <1>4, <1>5, <1>6, <1>7 DEF Next

(* An empty book owes nothing. *)
LEMMA AccountInit == Init => AccountInv
<1> SUFFICES ASSUME Init PROVE AccountInv
  OBVIOUS
<1>1. BookInv
  BY BookInit
<1>2. /\ queue = [side \in Sides |-> <<>>] /\ phase = "free" /\ trades = <<>>
      /\ orig = [id \in Ids |-> 0] /\ told = [id \in Ids |-> 0] /\ dropped = [id \in Ids |-> 0]
  BY DEF Init
<1>3. queue["buy"] = <<>> /\ queue["sell"] = <<>> /\ \A side \in Sides : queue[side] = <<>>
  BY <1>2 DEF Sides
<1>4. IdsOnce
  BY <1>2, <1>3 DEF IdsOnce, OnceIn, Absent
<1>5. ASSUME NEW id \in Ids
      PROVE  \E due \in [1..(Len(trades) + 1) -> Nat] :
                /\ DueFor(trades, id, due)
                /\ orig[id] = told[id] + dropped[id] + due[1] + InHand(id) + AtRest(id)
  <2>1. Absent(<<>>, id) /\ <<>> \in Seq(Resting)
    BY DEF Absent
  <2>2. AtRest(id) = 0
    <3>1. RestingVolume(<<>>, id) = 0
      BY <2>1, RestingVolumeNone
    <3> QED
      BY <1>3, <3>1 DEF AtRest
  <2>3. InHand(id) = 0
    BY <1>2 DEF InHand
  <2> DEFINE d == [n \in 1..(Len(trades) + 1) |-> 0]
  <2>4. Len(trades) = 0 /\ Len(trades) + 1 = 1
    BY <1>2
  <2>5. d \in [1..(Len(trades) + 1) -> Nat] /\ d[1] = 0 /\ DueFor(trades, id, d)
    BY <2>4 DEF DueFor
  <2>6. orig[id] = told[id] + dropped[id] + d[1] + InHand(id) + AtRest(id)
    BY <1>2, <2>2, <2>3, <2>5
  <2> QED
    BY <2>5, <2>6
<1> QED
  BY <1>1, <1>2, <1>4, <1>5 DEF AccountInv, AccountsAdd, ToldAll

(* Every order's quantity is accounted for in every reachable state. *)
LEMMA AccountInductive == Spec => []AccountInv
BY AccountInit, AccountStep, PTL DEF Spec

(* With the lock free nothing is pending, so the accounts are the property.  *)
LEMMA AccountsSettle == AccountInv => HooksAccountForBook
<1> SUFFICES ASSUME AccountInv, phase = "free", NEW id \in Ids
             PROVE  orig[id] = told[id] + dropped[id]
                               + RestingVolume(queue["buy"], id)
                               + RestingVolume(queue["sell"], id)
  BY DEF HooksAccountForBook
<1>1. PICK due \in [1..(Len(trades) + 1) -> Nat] :
         /\ DueFor(trades, id, due)
         /\ orig[id] = told[id] + dropped[id] + due[1] + InHand(id) + AtRest(id)
  BY DEF AccountInv, AccountsAdd
<1>2. due[1] = 0 /\ InHand(id) = 0
  <2>1. Len(trades) = 0
    BY DEF AccountInv, ToldAll
  <2>2. due[0 + 1] = 0
    BY <1>1, <2>1 DEF DueFor
  <2> QED
    BY <2>2 DEF InHand
<1>3. RestingVolume(queue["buy"], id) \in Nat /\ RestingVolume(queue["sell"], id) \in Nat
  BY RestingVolumeNat DEF AccountInv, BookInv, TypeOK, IdsOnce, Sides
<1>4. told[id] \in Nat /\ dropped[id] \in Nat
  BY DEF AccountInv, BookInv, TypeOK
<1> QED
  BY <1>1, <1>2, <1>3, <1>4 DEF AtRest

(* Whenever the lock is free, a hook that only adds up the trade and cancel  *)
(* events it was given knows what rests of every order: the executions of    *)
(* matchLocked are told once each, for the volume that traded.               *)
THEOREM HooksAccount == Spec => []HooksAccountForBook
BY AccountsSettle, AccountInductive, PTL

-----------------------------------------------------------------------------
(* The book of orderbook.go implements price-time priority (PriceTimeBook):  *)
(* sorted slices, in-place reductions and removals do to the set of open     *)
(* orders what that module says, for every set of ids, prices and volumes.   *)

\* A resting order as PriceTimeBook sees it, and those of one side.
Seen(side, r) == [id |-> r.id, side |-> side, price |-> r.price, vol |-> r.vol, at |-> r.at]
SideSet(side, q) == {Seen(side, q[i]) : i \in 1..Len(q)}

\* What the refinement uses of the invariants proved above.
RefineInv == BookInv /\ IdsOnce

Lessened(m, v) == [m EXCEPT !.vol = @ - v]

\* p is q without its k-th order, with its head reduced by v, and with r
\* behind the first k.
TakenFrom(q, k, p) ==
    /\ Len(p) = Len(q) - 1
    /\ \A i \in 1..(Len(q) - 1) : p[i] = IF i < k THEN q[i] ELSE q[i + 1]

HeadReducedBy(q, v, p) ==
    /\ Len(p) = Len(q) /\ p[1] = [q[1] EXCEPT !.vol = @ - v]
    /\ \A i \in 2..Len(q) : p[i] = q[i]

PutBehind(q, k, r, p) ==
    /\ Len(p) = Len(q) + 1
    /\ \A i \in 1..(Len(q) + 1) :
          p[i] = IF i =< k THEN q[i] ELSE IF i = k + 1 THEN r ELSE q[i - 1]

-----------------------------------------------------------------------------
(* Orders that look the same have the same id. *)
LEMMA SeenFields ==
    ASSUME NEW side, NEW r
    PROVE  /\ Seen(side, r).id = r.id /\ Seen(side, r).side = side
           /\ Seen(side, r).price = r.price /\ Seen(side, r).vol = r.vol
           /\ Seen(side, r).at = r.at
BY DEF Seen

(* The open orders are those of the one side and of the other. *)
LEMMA OpenIsBothSides ==
    OpenOrders = SideSet("buy", queue["buy"]) \cup SideSet("sell", queue["sell"])
BY DEF OpenOrders, SideSet, Seen, Sides

(* removeOrder on the slice removes one order from the set.                  *)
LEMMA SideSetTaken ==
    ASSUME NEW side, NEW q \in Seq(Resting), OnceIn(q), NEW k \in 1..Len(q),
           NEW p \in Seq(Resting), TakenFrom(q, k, p)
    PROVE  SideSet(side, p) = SideSet(side, q) \ {Seen(side, q[k])}
<1>1. /\ \A i \in 1..Len(p) : \E j \in 1..Len(q) : p[i] = q[j]
      /\ \A j \in 1..Len(q) : j # k => \E i \in 1..Len(p) : p[i] = q[j]
      /\ Absent(p, q[k].id)
  BY TakenOut DEF TakenFrom
<1>2. ASSUME NEW x \in SideSet(side, p) PROVE x \in SideSet(side, q) \ {Seen(side, q[k])}
  <2>1. PICK i \in 1..Len(p) : x = Seen(side, p[i])
    BY DEF SideSet
  <2>2. x \in SideSet(side, q)
    BY <1>1, <2>1 DEF SideSet
  <2>3. x.id # q[k].id
    BY <1>1, <2>1, SeenFields DEF Absent
  <2> QED
    BY <2>2, <2>3, SeenFields
<1>3. ASSUME NEW x \in SideSet(side, q), x # Seen(side, q[k]) PROVE x \in SideSet(side, p)
  <2>1. PICK j \in 1..Len(q) : x = Seen(side, q[j])
    BY DEF SideSet
  <2>2. j # k
    BY <1>3, <2>1
  <2> QED
    BY <1>1, <2>1, <2>2 DEF SideSet
<1> QED
  BY <1>2, <1>3

(* Reducing the head in place replaces one order of the set.                 *)
LEMMA SideSetReduced ==
    ASSUME NEW side, NEW q \in Seq(Resting), OnceIn(q), 1 \in 1..Len(q), NEW v \in Nat,
           NEW p \in Seq(Resting), HeadReducedBy(q, v, p)
    PROVE  SideSet(side, p) = (SideSet(side, q) \ {Seen(side, q[1])})
                              \cup {Lessened(Seen(side, q[1]), v)}
<1> DEFINE h == Lessened(Seen(side, q[1]), v)
<1> USE DEF HeadReducedBy
<1>0. q[1] \in Resting
  OBVIOUS
<1>1. Seen(side, p[1]) = h
  <2>1. /\ p[1].id = q[1].id /\ p[1].price = q[1].price /\ p[1].at = q[1].at
        /\ p[1].vol = q[1].vol - v
    BY <1>0 DEF Resting
  <2> QED
    BY <2>1 DEF Seen, Lessened
<1>2. \A i \in 1..Len(q) : i # 1 => p[i] = q[i] /\ Seen(side, q[i]) # Seen(side, q[1])
  <2> SUFFICES ASSUME NEW i \in 1..Len(q), i # 1
               PROVE  p[i] = q[i] /\ Seen(side, q[i]) # Seen(side, q[1])
    OBVIOUS
  <2>1. i \in 2..Len(q)
    OBVIOUS
  <2>2. q[i].id # q[1].id
    BY DEF OnceIn
  <2>3. Seen(side, q[i]).id # Seen(side, q[1]).id
    BY <2>2, SeenFields
  <2> QED
    BY <2>1, <2>3
<1> HIDE DEF h
<1>3. ASSUME NEW x \in SideSet(side, p) PROVE x \in (SideSet(side, q) \ {Seen(side, q[1])}) \cup {h}
  <2>1. PICK i \in 1..Len(p) : x = Seen(side, p[i])
    BY DEF SideSet
  <2>2. CASE i = 1
    BY <1>1, <2>1, <2>2
  <2>3. CASE i # 1
    <3>1. p[i] = q[i] /\ Seen(side, q[i]) # Seen(side, q[1]) /\ i \in 1..Len(q)
      BY <1>2, <2>3
    <3> QED
      BY <2>1, <3>1 DEF SideSet
  <2> QED
    BY <2>2, <2>3
<1>4. ASSUME NEW x \in SideSet(side, q), x # Seen(side, q[1]) PROVE x \in SideSet(side, p)
  <2>1. PICK j \in 1..Len(q) : x = Seen(side, q[j])
    BY DEF SideSet
  <2>2. j # 1 /\ j \in 1..Len(p) /\ p[j] = q[j]
    BY <1>2, <1>4, <2>1
  <2> QED
    BY <2>1, <2>2 DEF SideSet
<1>5. h \in SideSet(side, p)
  BY <1>1 DEF SideSet
<1> QED
  BY <1>3, <1>4, <1>5 DEF h

(* Inserting in the slice adds one order to the set.                         *)
LEMMA SideSetPut ==
    ASSUME NEW side, NEW q \in Seq(Resting), NEW k \in 0..Len(q), NEW r \in Resting,
           NEW p \in Seq(Resting), PutBehind(q, k, r, p)
    PROVE  SideSet(side, p) = SideSet(side, q) \cup {Seen(side, r)}
<1> USE DEF PutBehind
<1>1. /\ \A i \in 1..Len(p) : p[i] = r \/ \E j \in 1..Len(q) : p[i] = q[j]
      /\ \A j \in 1..Len(q) : \E i \in 1..Len(p) : p[i] = q[j]
      /\ \E i \in 1..Len(p) : p[i] = r
  <2>1. \A i \in 1..Len(p) : p[i] = r \/ \E j \in 1..Len(q) : p[i] = q[j]
    <3> SUFFICES ASSUME NEW i \in 1..Len(p) PROVE p[i] = r \/ \E j \in 1..Len(q) : p[i] = q[j]
      OBVIOUS
    <3>1. CASE i =< k
      <4>1. i \in 1..Len(q) /\ p[i] = q[i]
        BY <3>1
      <4> QED
        BY <4>1
    <3>2. CASE i = k + 1
      BY <3>2
    <3>3. CASE i > k + 1
      <4>1. i - 1 \in 1..Len(q) /\ p[i] = q[i - 1]
        BY <3>3
      <4> QED
        BY <4>1
    <3> QED
      BY <3>1, <3>2, <3>3
  <2>2. \A j \in 1..Len(q) : \E i \in 1..Len(p) : p[i] = q[j]
    <3> SUFFICES ASSUME NEW j \in 1..Len(q) PROVE \E i \in 1..Len(p) : p[i] = q[j]
      OBVIOUS
    <3>1. CASE j =< k
      <4>1. j \in 1..Len(p) /\ p[j] = q[j]
        BY <3>1
      <4> QED
        BY <4>1
    <3>2. CASE j > k
      <4>1. j + 1 \in 1..Len(p) /\ p[j + 1] = q[j]
        BY <3>2
      <4> QED
        BY <4>1
    <3> QED
      BY <3>1, <3>2
  <2>3. k + 1 \in 1..Len(p) /\ p[k + 1] = r
    OBVIOUS
  <2> QED
    BY <2>1, <2>2, <2>3
<1>2. ASSUME NEW x \in SideSet(side, p) PROVE x \in SideSet(side, q) \cup {Seen(side, r)}
  BY <1>1 DEF SideSet
<1>3. ASSUME NEW x \in SideSet(side, q) PROVE x \in SideSet(side, p)
  BY <1>1 DEF SideSet
<1>4. Seen(side, r) \in SideSet(side, p)
  BY <1>1 DEF SideSet
<1> QED
  BY <1>2, <1>3, <1>4

-----------------------------------------------------------------------------
(* Membership of the open orders, side by side. *)
LEMMA OpenOnSide ==
    ASSUME NEW side \in Sides
    PROVE  /\ OpenOrders = SideSet(side, queue[side])
                           \cup SideSet(Opposite(side), queue[Opposite(side)])
           /\ \A x \in OpenOrders : x.side = side =>
                 \E j \in 1..Len(queue[side]) : x = Seen(side, queue[side][j])
           /\ \A x \in OpenOrders : \E s \in Sides : \E j \in 1..Len(queue[s]) :
                 x = Seen(s, queue[s][j])
<1>1. OpenOrders = SideSet(side, queue[side])
                   \cup SideSet(Opposite(side), queue[Opposite(side)])
  BY OpenIsBothSides DEF Sides, Opposite
<1>2. Opposite(side) # side /\ Opposite(side) \in Sides
  BY DEF Sides, Opposite
<1>3. \A x \in SideSet(Opposite(side), queue[Opposite(side)]) : x.side = Opposite(side)
  BY SeenFields DEF SideSet
<1>4. ASSUME NEW x \in OpenOrders, x.side = side
      PROVE  \E j \in 1..Len(queue[side]) : x = Seen(side, queue[side][j])
  BY <1>1, <1>2, <1>3, <1>4 DEF SideSet
<1>5. ASSUME NEW x \in OpenOrders
      PROVE  \E s \in Sides : \E j \in 1..Len(queue[s]) : x = Seen(s, queue[s][j])
  BY <1>1, <1>2 DEF SideSet
<1> QED
  BY <1>1, <1>4, <1>5

(* A turn of the loop changes one side of the set. *)
LEMMA OpenChanges ==
    ASSUME NEW side \in Sides, queue'[Opposite(side)] = queue[Opposite(side)]
    PROVE  OpenOrders' = SideSet(side, queue'[side])
                         \cup SideSet(Opposite(side), queue[Opposite(side)])
<1>1. OpenOrders' = SideSet("buy", queue'["buy"]) \cup SideSet("sell", queue'["sell"])
  BY DEF OpenOrders, SideSet, Seen, Sides
<1> QED
  BY <1>1 DEF Sides, Opposite

(* An order as seen on one side is not among the other side's. *)
LEMMA OtherSideHasNot ==
    ASSUME NEW side \in Sides, NEW r, NEW q
    PROVE  Seen(side, r) \notin SideSet(Opposite(side), q)
<1>1. \A x \in SideSet(Opposite(side), q) : x.side = Opposite(side)
  BY SeenFields DEF SideSet
<1> QED
  BY <1>1, SeenFields DEF Sides, Opposite

(* A call that is matching has an order in hand. *)
LEMMA TakerThere ==
    ASSUME BookInv, phase = "match"
    PROVE  taker # NoOrder /\ taker \in Order(Nat)
BY NullAssumption DEF BookInv, TypeOK, Order, Sides, Kinds

(* The head of a side is the order that no other one precedes.               *)
LEMMA HeadIsFirst ==
    ASSUME BookInv, NEW side \in Sides, queue[side] # <<>>
    PROVE  /\ PT!PTFirst(side, Seen(side, queue[side][1]))
           /\ \A m : PT!PTFirst(side, m) => m = Seen(side, queue[side][1])
<1> DEFINE q == queue[side]
           m == Seen(side, q[1])
<1>1. q \in Seq(Resting) /\ 1 \in 1..Len(q) /\ InPriority(side, q)
  BY DEF BookInv, TypeOK, QueuesOrdered
<1>2. m \in OpenOrders /\ m.side = side
  BY <1>1, OpenOnSide, SeenFields DEF SideSet
<1>3. ASSUME NEW x \in OpenOrders, x.side = side, x # m
      PROVE  PT!PTPrecedes(m, x) /\ ~PT!PTPrecedes(x, m)
  <2>1. PICK j \in 1..Len(q) : x = Seen(side, q[j])
    BY <1>3, OpenOnSide
  <2>2. j # 1 /\ 1 < j
    BY <1>1, <1>3, <2>1
  <2>3. \/ Better(side, q[1].price, q[j].price)
        \/ q[1].price = q[j].price /\ q[1].at < q[j].at
    BY <1>1, <2>1, <2>2 DEF InPriority
  <2>4. m.price = q[1].price /\ m.at = q[1].at /\ x.price = q[j].price /\ x.at = q[j].at
    BY <2>1, SeenFields
  <2>5. q[1].price \in Nat /\ q[j].price \in Nat /\ q[1].at \in Nat /\ q[j].at \in Nat
    <3>1. q[1] \in Resting /\ q[j] \in Resting
      BY <1>1, <2>1
    <3> QED
      BY <3>1, BookAssumption DEF Resting, BookAssumption
  <2> HIDE DEF q, m
  <2> QED
    BY <1>2, <1>3, <2>3, <2>4, <2>5 DEF PT!PTPrecedes, PT!PTBetter, Better, Sides
<1>4. PT!PTFirst(side, m)
  BY <1>2, <1>3 DEF PT!PTFirst
<1>5. ASSUME NEW x, PT!PTFirst(side, x) PROVE x = m
  <2>1. x \in OpenOrders /\ x.side = side /\ (m # x => PT!PTPrecedes(x, m))
    BY <1>2, <1>5 DEF PT!PTFirst
  <2> QED
    BY <1>3, <2>1
<1> QED
  BY <1>4, <1>5

(* The loop of matchLocked goes on exactly when some order is executable.    *)
LEMMA LoopIsExecutable ==
    ASSUME BookInv, phase = "match"
    PROVE  /\ LoopGoesOn => PT!PTExecutable(Seen(Opposite(taker.side), queue[Opposite(taker.side)][1]))
           /\ ~LoopGoesOn => \A m \in OpenOrders : ~PT!PTExecutable(m)
<1> DEFINE side == Opposite(taker.side)
           q == queue[side]
           h == Seen(side, q[1])
<1>1. taker # NoOrder /\ taker \in Order(Nat) /\ taker.side \in Sides /\ taker.kind \in Kinds
  BY TakerThere DEF Order
<1>2. side \in Sides /\ PT!PTOther(taker.side) = side
  BY <1>1 DEF Sides, Opposite, PT!PTOther
<1>3. q \in Seq(Resting)
  BY <1>2 DEF BookInv, TypeOK
<1>4. ASSUME q # <<>>
      PROVE  Crosses(taker, q[1].price) <=> PT!PTWithinLimit(taker, h.price)
  <2>1. h.price = q[1].price
    BY SeenFields
  <2>2. q[1].price \in Nat
    <3>1. q[1] \in Resting
      BY <1>3, <1>4
    <3> QED
      BY <3>1, BookAssumption DEF Resting, BookAssumption
  <2>3. taker.price \in Nat
    <3>1. taker.price \in Prices \cup {0}
      BY <1>1 DEF Order
    <3>2. Prices \subseteq Nat
      BY BookAssumption DEF BookAssumption
    <3>3. CASE taker.price \in Prices
      BY <3>2, <3>3
    <3>4. CASE taker.price = 0
      BY <3>4
    <3> QED
      BY <3>1, <3>3, <3>4
  <2> HIDE DEF h, q
  <2> QED
    BY <1>1, <2>1, <2>2, <2>3 DEF Crosses, PT!PTWithinLimit, Sides, Kinds
<1>5. LoopGoesOn <=> taker.vol > 0 /\ q # <<>> /\ Crosses(taker, q[1].price)
  BY DEF LoopGoesOn
<1>6. ASSUME LoopGoesOn PROVE PT!PTExecutable(h)
  <2>1. PT!PTFirst(side, h)
    BY <1>2, <1>5, <1>6, HeadIsFirst
  <2> HIDE DEF h, q, side
  <2> QED
    BY <1>1, <1>2, <1>4, <1>5, <1>6, <2>1 DEF PT!PTExecutable
<1>7. ASSUME NEW m \in OpenOrders, PT!PTExecutable(m) PROVE LoopGoesOn
  <2>1. taker.vol > 0 /\ PT!PTFirst(side, m) /\ PT!PTWithinLimit(taker, m.price)
    BY <1>2, <1>7 DEF PT!PTExecutable
  <2>2. q # <<>>
    <3>1. \E j \in 1..Len(q) : m = Seen(side, q[j])
      BY <1>2, <2>1, OpenOnSide DEF PT!PTFirst
    <3> QED
      BY <1>3, <3>1
  <2>3. m = h
    BY <1>2, <2>1, <2>2, HeadIsFirst
  <2> QED
    BY <1>4, <1>5, <2>1, <2>2, <2>3
<1> QED
  BY <1>6, <1>7

-----------------------------------------------------------------------------
(* Each action maps to a step of PriceTimeBook or to a stutter.              *)

(* One turn of the loop executes the taker against the order with priority.  *)
LEMMA MatchOneRefines ==
    ASSUME RefineInv, BookAssumption, MatchOne
    PROVE  PT!PTExecute
<1> DEFINE side == Opposite(taker.side)
           q == queue[side]
           v == IF taker.vol =< q[1].vol THEN taker.vol ELSE q[1].vol
           p == queue'[side]
           m == Seen(side, q[1])
           other == SideSet(Opposite(side), queue[Opposite(side)])
<1>1. /\ side \in Sides /\ q \in Seq(Resting) /\ 1 \in 1..Len(q) /\ q[1] \in Resting
      /\ v \in Nat \ {0} /\ v =< q[1].vol
      /\ queue' \in [Sides -> Seq(Resting)]
      /\ queue'[Opposite(side)] = queue[Opposite(side)]
      /\ taker' = [taker EXCEPT !.vol = @ - v]
      /\ \/ /\ v = q[1].vol /\ Len(p) = Len(q) - 1
            /\ \A i \in 1..(Len(q) - 1) : p[i] = q[i + 1]
         \/ /\ v < q[1].vol /\ Len(p) = Len(q)
            /\ p[1] = [q[1] EXCEPT !.vol = @ - v]
            /\ \A i \in 2..Len(q) : p[i] = q[i]
  BY MatchOneQueue DEF RefineInv
<1>2. phase = "match" /\ LoopGoesOn /\ arrivals' = arrivals /\ lastTrade' = TradeWith(q[1], v)
  BY DEF MatchOne
<1>3. PT!PTExecutable(m)
  BY <1>2, LoopIsExecutable DEF RefineInv
<1>4. OnceIn(q) /\ p \in Seq(Resting)
  BY <1>1 DEF RefineInv, IdsOnce
<1>5. /\ OpenOrders = SideSet(side, q) \cup other
      /\ OpenOrders' = SideSet(side, p) \cup other
      /\ m \notin other /\ m \in SideSet(side, q)
  <2>1. OpenOrders = SideSet(side, q) \cup other
    BY <1>1, OpenOnSide
  <2>2. OpenOrders' = SideSet(side, p) \cup other
    BY <1>1, OpenChanges
  <2>3. m \notin other
    BY <1>1, OtherSideHasNot
  <2>4. m \in SideSet(side, q)
    BY <1>1 DEF SideSet
  <2> QED
    BY <2>1, <2>2, <2>3, <2>4
<1>6. /\ m.id = q[1].id /\ m.price = q[1].price /\ m.vol = q[1].vol
      /\ m \in OpenOrders
  BY <1>5, SeenFields
<1>7. SideSet(side, p) = (SideSet(side, q) \ {m})
                         \cup (IF v = m.vol THEN {} ELSE {[m EXCEPT !.vol = @ - v]})
  <2>m. m = Seen(side, q[1])
    OBVIOUS
  <2> HIDE DEF side, q, p, v, m
  <2>1. CASE /\ v = q[1].vol /\ Len(p) = Len(q) - 1
             /\ \A i \in 1..(Len(q) - 1) : p[i] = q[i + 1]
    <3>1. \A i \in 1..(Len(q) - 1) : p[i] = IF i < 1 THEN q[i] ELSE q[i + 1]
      BY <2>1
    <3>2. SideSet(side, p) = SideSet(side, q) \ {Seen(side, q[1])}
      <4>1. q \in Seq(Resting) /\ p \in Seq(Resting) /\ OnceIn(q) /\ 1 \in 1..Len(q)
        BY <1>1, <1>4
      <4>2. TakenFrom(q, 1, p)
        BY <2>1, <3>1 DEF TakenFrom
      <4> QED
        BY ONLY <4>1, <4>2, SideSetTaken
    <3> QED
      BY <1>6, <2>1, <2>m, <3>2
  <2>2. CASE /\ v < q[1].vol /\ Len(p) = Len(q)
             /\ p[1] = [q[1] EXCEPT !.vol = @ - v]
             /\ \A i \in 2..Len(q) : p[i] = q[i]
    <3>1. SideSet(side, p) = (SideSet(side, q) \ {Seen(side, q[1])})
                              \cup {Lessened(Seen(side, q[1]), v)}
      <4>1. /\ q \in Seq(Resting) /\ p \in Seq(Resting) /\ OnceIn(q) /\ 1 \in 1..Len(q)
            /\ v \in Nat
        BY <1>1, <1>4
      <4>2. HeadReducedBy(q, v, p)
        BY <2>2 DEF HeadReducedBy
      <4> QED
        BY ONLY <4>1, <4>2, SideSetReduced
    <3>2. v # m.vol
      <4>1. q[1].vol \in Nat
        BY <1>1 DEF Resting
      <4> QED
        BY <1>1, <1>6, <2>2, <4>1
    <3> QED
      BY <2>m, <3>1, <3>2 DEF Lessened
  <2> QED
    BY <1>1, <2>1, <2>2
<1>8. OpenOrders' = (OpenOrders \ {m})
                    \cup (IF v = m.vol THEN {} ELSE {[m EXCEPT !.vol = @ - v]})
  <2> HIDE DEF side, q, p, v, m, other
  <2> QED
    BY <1>5, <1>7
<1>9. v = (IF taker.vol =< m.vol THEN taker.vol ELSE m.vol)
  BY <1>6
<1>10. lastTrade' = [buy   |-> IF taker.side = "buy" THEN taker.id ELSE m.id,
                     sell  |-> IF taker.side = "buy" THEN m.id ELSE taker.id,
                     price |-> m.price, vol |-> v, takerSide |-> taker.side]
  BY <1>2, <1>6 DEF TradeWith
<1> HIDE DEF side, q, p, m, v, other
<1>11. \E x \in OpenOrders :
          /\ PT!PTExecutable(x)
          /\ LET w == IF taker.vol =< x.vol THEN taker.vol ELSE x.vol
             IN  /\ OpenOrders' = (OpenOrders \ {x}) \cup
                          (IF w = x.vol THEN {} ELSE {[x EXCEPT !.vol = @ - w]})
                 /\ taker' = [taker EXCEPT !.vol = @ - w]
                 /\ lastTrade' =
                    [buy   |-> IF taker.side = "buy" THEN taker.id ELSE x.id,
                     sell  |-> IF taker.side = "buy" THEN x.id ELSE taker.id,
                     price |-> x.price, vol |-> w, takerSide |-> taker.side]
          /\ UNCHANGED arrivals
  BY <1>1, <1>2, <1>3, <1>6, <1>8, <1>9, <1>10
<1> QED
  BY <1>11 DEF PT!PTExecute

(* What is left of a limit order joins the open orders when nothing is       *)
(* executable any more; what is left of any other order is gone.             *)
LEMMA SettleRefines ==
    ASSUME RefineInv, BookAssumption, EnqueueLocked \/ Discard
    PROVE  PT!PTSettle
<1>1. phase = "match" /\ ~LoopGoesOn /\ taker' = NoOrder /\ lastTrade' = lastTrade
  BY DEF EnqueueLocked, Discard
<1>2. taker # NoOrder /\ taker \in Order(Nat)
  BY <1>1, TakerThere DEF RefineInv
<1>3. \A m \in OpenOrders : ~PT!PTExecutable(m)
  BY <1>1, LoopIsExecutable DEF RefineInv
<1>4. CASE Discard
  <2>1. /\ ~(taker.kind = "limit" /\ taker.vol > 0) /\ queue' = queue /\ arrivals' = arrivals
    BY <1>4 DEF Discard
  <2>2. OpenOrders' = OpenOrders
    BY <2>1 DEF OpenOrders
  <2> QED
    BY <1>1, <1>2, <1>3, <2>1, <2>2 DEF PT!PTSettle
<1>5. CASE EnqueueLocked
  <2> DEFINE side == taker.side
             q == queue[side]
             p == queue'[side]
             r == [id |-> taker.id, price |-> taker.price, vol |-> taker.vol, at |-> arrivals]
             other == SideSet(Opposite(side), queue[Opposite(side)])
  <2>1. /\ taker.kind = "limit" /\ taker.vol > 0 /\ arrivals' = arrivals + 1
        /\ arrivals \in Nat
    BY <1>5 DEF EnqueueLocked, RefineInv, BookInv, TypeOK
  <2>2. /\ side \in Sides /\ q \in Seq(Resting) /\ taker.id \in Ids /\ taker.vol \in Nat \ {0}
        /\ queue' \in [Sides -> Seq(Resting)]
        /\ queue'[Opposite(side)] = queue[Opposite(side)]
        /\ \E k \in 0..Len(q) :
             /\ Len(p) = Len(q) + 1
             /\ \A i \in 1..(Len(q) + 1) :
                  p[i] = IF i =< k THEN q[i] ELSE IF i = k + 1 THEN r ELSE q[i - 1]
    BY <1>5, EnqueueQueue DEF RefineInv
  <2>3. r \in Resting
    BY <1>2, <2>1, <2>2 DEF Resting, Order
  <2>4. PICK k \in 0..Len(q) :
           /\ Len(p) = Len(q) + 1
           /\ \A i \in 1..(Len(q) + 1) :
                p[i] = IF i =< k THEN q[i] ELSE IF i = k + 1 THEN r ELSE q[i - 1]
    BY <2>2
  <2>5. SideSet(side, p) = SideSet(side, q) \cup {Seen(side, r)}
    <3>1. p \in Seq(Resting) /\ q \in Seq(Resting) /\ k \in 0..Len(q) /\ Len(p) = Len(q) + 1
      BY <2>2, <2>4
    <3>2. PutBehind(q, k, r, p)
      BY <2>4 DEF PutBehind
    <3> HIDE DEF side, q, p, r
    <3> QED
      BY ONLY <2>3, <3>1, <3>2, SideSetPut
  <2>6. OpenOrders = SideSet(side, q) \cup other /\ OpenOrders' = SideSet(side, p) \cup other
    BY <2>2, OpenOnSide, OpenChanges
  <2>7. Seen(side, r) = [id |-> taker.id, side |-> taker.side, price |-> taker.price,
                         vol |-> taker.vol, at |-> arrivals]
    BY DEF Seen
  <2>8. OpenOrders' = OpenOrders \cup {Seen(side, r)}
    <3> HIDE DEF side, q, p, r, other
    <3> QED
      BY <2>5, <2>6
  <2> HIDE DEF side, q, p, r, other
  <2> QED
    BY <1>1, <1>2, <1>3, <2>1, <2>7, <2>8 DEF PT!PTSettle
<1> QED
  BY <1>4, <1>5

(* A submitted order has an id no open order has. *)
LEMMA SubmitRefines ==
    ASSUME RefineInv, BookAssumption, NEW o \in Order(Volumes), Submit(o)
    PROVE  PT!PTSubmit
<1>1. taker = NoOrder /\ taker' = o /\ UNCHANGED <<queue, arrivals, lastTrade>>
  BY DEF Submit, RefineInv, BookInv, TypeOK
<1>2. OpenOrders' = OpenOrders
  BY <1>1 DEF OpenOrders
<1>3. \A side \in Sides : Absent(queue[side], o.id)
  BY SubmitMoves DEF RefineInv
<1>4. \A x \in OpenOrders : x.id # o.id
  <2> SUFFICES ASSUME NEW x \in OpenOrders PROVE x.id # o.id
    OBVIOUS
  <2>1. "buy" \in Sides
    BY DEF Sides
  <2>2. PICK s \in Sides : \E j \in 1..Len(queue[s]) : x = Seen(s, queue[s][j])
    BY <2>1, OpenOnSide
  <2>3. PICK j \in 1..Len(queue[s]) : x = Seen(s, queue[s][j])
    BY <2>2
  <2> QED
    BY <1>3, <2>3, SeenFields DEF Absent
<1>5. o \in [id : Ids, side : {"buy", "sell"}, kind : {"limit", "market", "ioc"},
             price : Prices \cup {0}, vol : Volumes]
  BY DEF Order, Sides, Kinds
<1> QED
  BY <1>1, <1>2, <1>4, <1>5 DEF PT!PTSubmit

(* CancelOrder takes one open order out. *)
LEMMA CancelRefines ==
    ASSUME RefineInv, BookAssumption, NEW x \in Ids, CancelOrder(x)
    PROVE  PT!PTCancel
<1>1. taker = NoOrder /\ UNCHANGED <<taker, arrivals, lastTrade>>
  BY DEF CancelOrder, RefineInv, BookInv, TypeOK
<1>0. queue' \in [Sides -> Seq(Resting)]
  BY CancelQueue DEF RefineInv
<1>2. PICK side \in Sides : \E k \in 1..Len(queue[side]) :
         /\ queue'[Opposite(side)] = queue[Opposite(side)]
         /\ Len(queue'[side]) = Len(queue[side]) - 1
         /\ \A i \in 1..(Len(queue[side]) - 1) :
               queue'[side][i] = IF i < k THEN queue[side][i] ELSE queue[side][i + 1]
  BY CancelQueue DEF RefineInv
<1> DEFINE q == queue[side]
           p == queue'[side]
           other == SideSet(Opposite(side), queue[Opposite(side)])
<1>3. PICK k \in 1..Len(q) :
         /\ queue'[Opposite(side)] = queue[Opposite(side)]
         /\ Len(p) = Len(q) - 1
         /\ \A i \in 1..(Len(q) - 1) : p[i] = IF i < k THEN q[i] ELSE q[i + 1]
  BY <1>2
<1> DEFINE m == Seen(side, q[k])
<1>4. q \in Seq(Resting) /\ OnceIn(q) /\ p \in Seq(Resting)
  BY <1>0 DEF RefineInv, BookInv, TypeOK, IdsOnce
<1>5. SideSet(side, p) = SideSet(side, q) \ {m}
  <2>1. k \in 1..Len(q)
    BY <1>3
  <2>2. TakenFrom(q, k, p)
    BY <1>3 DEF TakenFrom
  <2> HIDE DEF q, p
  <2> QED
    BY ONLY <1>4, <2>1, <2>2, SideSetTaken
<1>6. OpenOrders = SideSet(side, q) \cup other /\ OpenOrders' = SideSet(side, p) \cup other
  BY <1>3, OpenOnSide, OpenChanges
<1>7. m \notin other /\ m \in OpenOrders
  <2>1. m \notin other
    BY OtherSideHasNot
  <2>2. m \in SideSet(side, q)
    BY <1>3 DEF SideSet
  <2> QED
    BY <1>6, <2>1, <2>2
<1>8. OpenOrders' = OpenOrders \ {m}
  <2> HIDE DEF q, p, m, other
  <2> QED
    BY <1>5, <1>6, <1>7
<1> QED
  BY <1>1, <1>7, <1>8 DEF PT!PTCancel

(* Each step of the locks and loops is a step of the abstract book, or none. *)
LEMMA RefineStep == RefineInv /\ [Next]_vars => [PT!PTNext]_(PT!ptVars)
<1> SUFFICES ASSUME RefineInv, [Next]_vars PROVE [PT!PTNext]_(PT!ptVars)
  OBVIOUS
<1>a. BookAssumption
  BY BookAssumption
<1>s. ASSUME UNCHANGED <<queue, taker, arrivals, lastTrade>> PROVE [PT!PTNext]_(PT!ptVars)
  BY <1>s DEF PT!ptVars, OpenOrders
<1>1. CASE Register \/ Fire \/ Return \/ UNCHANGED vars
  BY <1>1, <1>s DEF Register, Fire, Return, vars, bookVars
<1>2. ASSUME NEW o \in Order(Volumes), Submit(o) PROVE PT!PTNext
  BY <1>2, <1>a, SubmitRefines DEF PT!PTNext
<1>3. CASE MatchOne
  BY <1>3, <1>a, MatchOneRefines DEF PT!PTNext
<1>4. CASE EnqueueLocked \/ Discard
  BY <1>4, <1>a, SettleRefines DEF PT!PTNext
<1>5. ASSUME NEW id \in Ids, CancelOrder(id) PROVE PT!PTNext
  BY <1>5, <1>a, CancelRefines DEF PT!PTNext
<1> QED
  BY <1>1, <1>2, <1>3, <1>4, <1>5 DEF Next

(* The book's every behaviour is one of PriceTimeBook: matchLocked,          *)
(* enqueueLocked and CancelOrder keep price-time priority and nothing else   *)
(* touches the open orders.                                                  *)
THEOREM BookImplements == Spec => ImplementsPriceTime
<1>1. Init => PT!PTInit
  <2> SUFFICES ASSUME Init PROVE PT!PTInit
    OBVIOUS
  <2>1. OpenOrders = {}
    BY DEF Init, OpenOrders, Sides
  <2> QED
    BY <2>1 DEF Init, PT!PTInit
<1>2. AccountInv => RefineInv
  BY DEF AccountInv, RefineInv
<1> QED
  BY <1>1, <1>2, AccountInductive, RefineStep, PTL DEF Spec, ImplementsPriceTime, PT!PTSpec
=============================================================================
