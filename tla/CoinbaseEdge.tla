----------------------------- MODULE CoinbaseEdge ------------------------------
(***************************************************************************)
(* Orders of the Coinbase edge (internal/api/coinbase): the create and     *)
(* cancel handlers, the registry, the reservations in the venue's ledger   *)
(* and the user channel of one subscribed connection.                      *)
(*                                                                         *)
(* Handlers run in goroutines of their own, a step per critical section.   *)
(* The order book is reduced to what rests; whom an order meets there is   *)
(* the environment's choice.  Its hooks run under the instrument lock, in  *)
(* the order of AttachHooks: registry, user channel, ledger.  A frame      *)
(* takes its number in one critical section and its place in the queue of  *)
(* the connection in another.                                              *)
(***************************************************************************)
EXTENDS Ledger, Sequences, SequencesExt, FiniteSets, Sums

CONSTANTS Threads,    \* goroutines serving requests
          MaxOrders,  \* bound on created orders; ids are 1..MaxOrders
          ClientOrders,   \* orders clients send: [side, kind, price, size]
          Deposit,    \* free balance of each asset at the start
          Delays,     \* are fill reports delayed? the set of answers
          MostTraded  \* bound on the volume and the price of a trade

ASSUME CoinbaseAssumption ==
    /\ MaxOrders \in Nat /\ Deposit \in Nat /\ MostTraded \in Nat
    /\ ClientOrders \subseteq [side : {"buy", "sell"}, kind : {"limit", "market"},
                               price : Nat, size : Nat \ {0}]
    /\ \A o \in ClientOrders : o.kind = "limit" <=> o.price > 0
    /\ IsFiniteSet(Threads)

VARIABLES rec,      \* Registry.byOrderID: id -> record
          bal,      \* the ledger
          resting,  \* id -> what rests of it in the book
          pc, req,  \* where each handler is, and its order or order id
          call,     \* the call in the book: [by, id, vol, price, stage]
          timers,   \* delayed reports, each the record at the time of its fill
          flight,   \* frames not yet queued, in the order of their numbers
          untold    \* orders whose present state the client was not sent

coinbaseVars == <<rec, bal, resting, pc, req, call, timers, flight, untold>>

Assets == {"base", "quote"}
Ids == 1..MaxOrders
NoCall == [by |-> "nobody", id |-> 0, vol |-> 0, price |-> 0, stage |-> "free"]
State(id) == [id |-> id, status |-> rec[id].status, filled |-> rec[id].filled]

CoinbaseInit ==
    /\ rec = <<>> /\ resting = <<>>
    /\ bal = [a \in Assets |-> [free |-> Deposit, locked |-> 0]]
    /\ pc = [t \in Threads |-> "idle"] /\ req = [t \in Threads |-> [id |-> 0]]
    /\ call = NoCall
    /\ timers = {} /\ flight = <<>> /\ untold = {}

Changed(id) == untold' = IF rec'[id] = rec[id] THEN untold ELSE untold \cup {id}
Goto(t, from, to) == pc[t] = from /\ pc' = [pc EXCEPT ![t] = to]
Finish(t, from) == Goto(t, from, "idle") /\ req' = [req EXCEPT ![t] = [id |-> 0]]
Drop(f, x) == [y \in DOMAIN f \ {x} |-> f[y]]
Extend(f, x, v) == [y \in DOMAIN f \cup {x} |-> IF y = x THEN v ELSE f[y]]

LockAsset(o) == IF o.side = "buy" THEN "quote" ELSE "base"
LockAmount(o, size) ==
    IF o.kind = "market" THEN 0 ELSE IF o.side = "buy" THEN Mul(o.price, size) ELSE size
-----------------------------------------------------------------------------
(* POST orders                                                             *)

\* A request that fails no validation; it locks before it is recorded.
CreateOrder(t, o) ==
    /\ Cardinality(DOMAIN rec) + Cardinality({u \in Threads : pc[u] = "record"}) < MaxOrders
    /\ Lockable(bal, LockAsset(o), LockAmount(o, o.size))
    /\ bal' = Lock(bal, LockAsset(o), LockAmount(o, o.size))
    /\ Goto(t, "idle", "record")
    /\ req' = [req EXCEPT ![t] = o]
    /\ UNCHANGED <<rec, resting, call, timers, flight, untold>>

\* Ids count up; none is used again, since a removed record leaves a hole.
NextId == 1 + Cardinality(DOMAIN rec)

Record(t) ==
    /\ Goto(t, "record", "place")
    /\ rec' = Extend(rec, NextId, [side |-> req[t].side, kind |-> req[t].kind,
                                   price |-> req[t].price, size |-> req[t].size,
                                   filled |-> 0, status |-> "OPEN"])
    /\ req' = [req EXCEPT ![t] = [id |-> NextId]]
    /\ untold' = untold \cup {NextId}
    /\ UNCHANGED <<bal, resting, call, timers, flight>>

\* The engine refuses: the record is removed, and then the reservation.
RemoveRecord(t) ==
    /\ Goto(t, "place", "undo")
    /\ rec' = [rec EXCEPT ![req[t].id].status = "REMOVED"]
    /\ UNCHANGED <<bal, resting, req, call, timers, flight, untold>>

GiveBack(t) ==
    /\ Finish(t, "undo")
    /\ bal' = LET o == rec[req[t].id] IN Unlock(bal, LockAsset(o), LockAmount(o, o.size))
    /\ UNCHANGED <<rec, resting, call, timers, flight, untold>>

\* The order trades vol at once, at its limit or better, and a limit order's
\* rest stays in the book.  The hooks follow under the lock.
PlaceOrder(t, vol, price) ==
    LET o == rec[req[t].id]
    IN  /\ call = NoCall
        /\ Goto(t, "place", "placing")
        /\ vol <= o.size /\ (vol = 0 <=> price = 0)
        /\ o.kind = "limit" /\ vol > 0 =>
              IF o.side = "buy" THEN price <= o.price ELSE price >= o.price
        /\ resting' = IF o.kind = "limit" /\ vol < o.size
                        THEN Extend(resting, req[t].id, o.size - vol) ELSE resting
        /\ call' = [by |-> t, id |-> req[t].id, vol |-> vol, price |-> price,
                    stage |-> IF vol > 0 THEN "registry" ELSE "return"]
        /\ UNCHANGED <<rec, bal, req, timers, flight, untold>>

\* An order of somebody else takes from one that rests.
TakerHits(id, vol) ==
    /\ call = NoCall
    /\ id \in DOMAIN resting /\ vol <= resting[id]
    /\ resting' = IF vol = resting[id] THEN Drop(resting, id)
                  ELSE [resting EXCEPT ![id] = @ - vol]
    /\ call' = [by |-> "taker", id |-> id, vol |-> vol, price |-> rec[id].price,
                stage |-> "registry"]
    /\ UNCHANGED <<rec, bal, pc, req, timers, flight, untold>>
-----------------------------------------------------------------------------
(* POST orders/batch_cancel, one id of it                                  *)

CancelOne(t, id) ==
    /\ id \in DOMAIN rec /\ rec[id].status = "OPEN"
    /\ Goto(t, "idle", "cancel")
    /\ req' = [req EXCEPT ![t] = [id |-> id]]
    /\ UNCHANGED <<rec, bal, resting, call, timers, flight, untold>>

CancelInBook(t) ==
    /\ Goto(t, "cancel", "cancelling")
    /\ call = NoCall /\ req[t].id \in DOMAIN resting
    /\ resting' = Drop(resting, req[t].id)
    /\ call' = [by |-> t, id |-> req[t].id, vol |-> 0, price |-> 0, stage |-> "registry"]
    /\ UNCHANGED <<rec, bal, req, timers, flight, untold>>

\* It never rested, or no longer does: a failure either way.
CancelMisses(t) ==
    /\ Finish(t, "cancel")
    /\ call = NoCall /\ req[t].id \notin DOMAIN resting
    /\ UNCHANGED <<rec, bal, resting, call, timers, flight, untold>>

MarkCancelled(t) ==
    /\ Finish(t, "mark")
    /\ rec' = [rec EXCEPT ![req[t].id].status = IF @ = "FILLED" THEN @ ELSE "CANCELLED"]
    /\ Changed(req[t].id)
    /\ UNCHANGED <<bal, resting, call, timers, flight>>
-----------------------------------------------------------------------------
(* The hooks, called under the instrument lock                             *)

Stage(stage) == call.stage = stage
Then(stage) == call' = [call EXCEPT !.stage = stage]

ApplyFill(r) ==
    LET sum == r.filled + call.vol
    IN  [r EXCEPT !.filled = sum,
                  !.status = IF @ # "CANCELLED" /\ sum >= r.size THEN "FILLED" ELSE @]

\* OnTrade, and OnCancel for a call without a volume.
RegistryHook ==
    /\ Stage("registry") /\ Then("emit")
    /\ rec' = [rec EXCEPT ![call.id] =
                 IF call.vol > 0 THEN ApplyFill(@)
                 ELSE IF @.status = "FILLED" THEN @ ELSE [@ EXCEPT !.status = "CANCELLED"]]
    /\ Changed(call.id)
    /\ UNCHANGED <<bal, resting, pc, req, timers, flight>>

\* A frame about an order takes the connection's next number.
Stamp(owner, state) == flight' = Append(flight, [owner |-> owner, state |-> state])

\* Mutant: the user channel learns of a fill before the registry does.
EmitHookEarly(delayed) ==
    /\ Stage("emit") /\ Then("ledger")
    /\ Stamp("hook", [State(call.id) EXCEPT !.filled = @ - call.vol])
    /\ UNCHANGED <<rec, bal, resting, pc, req, timers, untold>>

\* onBookTrade, onBookCancel: the record as it now is; a fill may be delayed.
EmitHook(delayed) ==
    /\ Stage("emit") /\ Then("ledger")
    /\ IF delayed /\ call.vol > 0
         THEN timers' = timers \cup {State(call.id)} /\ UNCHANGED flight
         ELSE Stamp("hook", State(call.id)) /\ UNCHANGED timers
    /\ UNCHANGED <<rec, bal, resting, pc, req, untold>>

\* Mutant: a cancel releases what was filled in place of what was not.
UnlockFilled(r) == Unlock(bal, LockAsset(r), LockAmount(r, r.filled))
UnlockRemainder(r) == Unlock(bal, LockAsset(r), LockAmount(r, r.size - r.filled))

LedgerHook ==
    LET r == rec[call.id]
    IN  /\ Stage("ledger") /\ Then("return")
        /\ \A i \in DOMAIN flight : flight[i].owner # "hook"
        /\ bal' = IF call.vol = 0 THEN UnlockRemainder(r)
                  ELSE SettleFill(bal, r.side = "buy", "base", "quote", call.vol, call.price, r.price)
        /\ UNCHANGED <<rec, resting, pc, req, timers, flight, untold>>

ReturnFromBook ==
    /\ Stage("return")
    /\ call' = NoCall
    /\ IF call.by \in Threads
         THEN Goto(call.by, "placing", "report") \/ Goto(call.by, "cancelling", "mark")
         ELSE UNCHANGED pc
    /\ UNCHANGED <<rec, bal, resting, req, timers, flight, untold>>
-----------------------------------------------------------------------------
(* The user channel                                                        *)

\* EmitUserByOrderID, after the placement has returned: the record is copied,
\* then the frame numbered, then queued.
ReadRecord(t) ==
    /\ Goto(t, "report", "stamp")
    /\ req' = [req EXCEPT ![t] = State(@.id)]
    /\ UNCHANGED <<rec, bal, resting, call, timers, flight, untold>>

EmitUser(t) ==
    /\ Finish(t, "stamp")
    /\ Stamp("handler", req[t])
    /\ UNCHANGED <<rec, bal, resting, call, timers, untold>>

TimerFires(state) ==
    /\ timers' = timers \ {state}
    /\ Stamp("timer", state)
    /\ UNCHANGED <<rec, bal, resting, pc, req, call, untold>>

TrySend(i) ==
    /\ flight' = RemoveAt(flight, i)
    /\ untold' = untold \ {id \in untold : State(id) = flight[i].state}
    /\ UNCHANGED <<rec, bal, resting, pc, req, call, timers>>
-----------------------------------------------------------------------------
CoinbaseNext ==
    \/ \E t \in Threads :
          \/ \E o \in ClientOrders : CreateOrder(t, o)
          \/ Record(t) \/ RemoveRecord(t) \/ GiveBack(t)
          \/ \E vol \in 0..MostTraded, price \in 0..MostTraded : PlaceOrder(t, vol, price)
          \/ \E id \in Ids : CancelOne(t, id)
          \/ CancelInBook(t) \/ CancelMisses(t) \/ MarkCancelled(t)
          \/ ReadRecord(t) \/ EmitUser(t)
    \/ \E id \in Ids, vol \in 1..MostTraded : TakerHits(id, vol)
    \/ RegistryHook \/ LedgerHook \/ ReturnFromBook
    \/ \E delayed \in Delays : EmitHook(delayed)
    \/ \E state \in timers : TimerFires(state)
    \/ \E i \in DOMAIN flight : TrySend(i)

CoinbaseSpec == CoinbaseInit /\ [][CoinbaseNext]_coinbaseVars
-----------------------------------------------------------------------------
\* What an order still needs of its reservation.
Settled(id) ==
    rec[id].filled - (IF call.id = id /\ call.stage \in {"emit", "ledger"} THEN call.vol ELSE 0)

Needed(id, asset) ==
    LET r == rec[id]
        placing == \E t \in Threads : pc[t] \in {"place", "undo"} /\ req[t].id = id
        hooked == call.id = id /\ call.stage \in {"emit", "ledger"}
        over == \/ r.status = "REMOVED" /\ ~placing
                \/ r.status = "CANCELLED" /\ ~hooked
    IN  IF over \/ LockAsset(r) # asset THEN 0 ELSE LockAmount(r, r.size - Settled(id))

Entering(t, asset) ==
    IF pc[t] = "record" /\ LockAsset(req[t]) = asset THEN LockAmount(req[t], req[t].size) ELSE 0

\* What the open orders and those on their way into or out of the book need.
TotalNeeded(asset) == SumOf([id \in DOMAIN rec |-> Needed(id, asset)])
                        + SumOf([t \in Threads |-> Entering(t, asset)])

\* Each fill releases a product truncated on its own, so a reservation may be
\* left with a unit of the last place per fill, and per unit filled at most.
Truncated == IF Scale = 1 THEN 0 ELSE SumOf([id \in DOMAIN rec |-> Settled(id)])

\* The ledger holds what the open orders and those on their way into or out of
\* the book still need, whichever handler, hook or refusal comes in between:
\* base exactly, and quote but for what truncation leaves.
HoldsMatchOrders ==
    /\ bal["base"].locked = TotalNeeded("base")
    /\ bal["quote"].locked >= TotalNeeded("quote")
    /\ bal["quote"].locked =< TotalNeeded("quote") + Truncated

\* A subscriber is sent every order's latest state, once nothing is on its way
\* to it, though handlers, hooks and timers send it in no particular order.
LatestStateTold ==
    flight = <<>> /\ timers = {} /\ call = NoCall =>
        \A id \in DOMAIN rec :
            \/ id \notin untold \/ rec[id].status = "REMOVED"
            \/ \E t \in Threads :
                  pc[t] \in {"place", "report", "stamp"} /\ req[t].id = id
=============================================================================
