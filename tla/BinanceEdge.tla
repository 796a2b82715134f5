----------------------------- MODULE BinanceEdge -----------------------------
(* The spot order path of the Binance edge (internal/api/binance) over the   *)
(* shared order book (OrderBook.tla) and the venue's ledger (Ledger.tla).    *)
(*                                                                           *)
(* Each request runs in its own goroutine, so the place and cancel handlers  *)
(* are sequences of steps, one per critical section: the registry's mutex,   *)
(* the ledger's mutex and the instrument lock are taken one after another.   *)
(* The book fires its hooks while it holds the instrument lock; for every    *)
(* trade or cancel they run in the order AttachHooks registered them.        *)
(*                                                                           *)
(* The emulator's synthetic makers and takers use the same book without a    *)
(* registry record and without a balance.  All clients of the edge share one *)
(* account, so two of its orders may trade with each other.                  *)
EXTENDS OrderBook, Ledger, Sums

CONSTANTS
    Threads,        \* the goroutines serving requests
    Emulator,       \* the emulator's goroutine
    EdgeIds,        \* 1..n, the engine ids "binance:1" to "binance:n"
    EmuIds,         \* ids of synthetic orders
    Clients,        \* newClientOrderId values; n stands for "x-emu-n"
    Unnamed,        \* the empty newClientOrderId
    EdgeKinds,      \* the order types the clients send: "limit", "market"
    EmuKinds,       \* what the emulator sends: "limit" (seeder), "ioc" (takers)
    Deposit,        \* the free balance each asset starts with
    MaxDebits,      \* bound on withdrawals
    MarginRejects   \* may margin.Validate refuse an order?

ASSUME EdgeAssumption ==
    /\ Ids = EdgeIds \cup EmuIds
    /\ EdgeIds \cap EmuIds = {}
    /\ EdgeIds \subseteq Nat \ {0} /\ IsFiniteSet(EdgeIds)
    /\ EdgeKinds \subseteq {"limit", "market"}
    /\ Deposit \in Nat /\ MaxDebits \in Nat
    /\ Emulator \notin Threads
    /\ MarginRejects \in BOOLEAN

VARIABLES
    seq,       \* Registry.seq
    record,    \* Registry.byOrderID: the record of each id, or None
    bal,       \* the venue ledger
    debits,    \* how many withdrawals were made
    pc,        \* where each handler is
    req,       \* the handler's locals: the order or the id it works on
    holder,    \* the goroutine that holds the instrument lock
    hook,      \* the hook to call next for the event being fired
    report     \* the last executionReport published for each id

edgeVars == <<seq, record, bal, debits, pc, req, holder, hook, report>>
allVars == <<vars, edgeVars>>

None == [status |-> "none"]
Assets == {"base", "quote"}
NoId == "nobody"

\* Mutant: the user-data stream is attached before the registry.
HooksSwapped == <<"reports", "registry", "buyer", "seller">>

\* AttachHooks: the registry first, then the user-data stream, then the
\* ledger, which settles the buyer's and the seller's side one after the other.
Hooks == <<"registry", "reports", "buyer", "seller">>

Terminal == {"FILLED", "CANCELED"}
Working == {"NEW", "PARTIALLY_FILLED"}

Recorded(id) == id \in EdgeIds /\ record[id] # None
Recorders == {id \in EdgeIds : Recorded(id)}

LockAsset(o) == IF o.side = "buy" THEN "quote" ELSE "base"
LockAmount(o, qty) == IF o.side = "buy" THEN Mul(qty, o.price) ELSE qty

-----------------------------------------------------------------------------
EdgeInit ==
    /\ Init
    /\ listed = TRUE
    /\ seq = 0
    /\ record = [id \in EdgeIds |-> None]
    /\ bal = [asset \in Assets |-> [free |-> Deposit, locked |-> 0]]
    /\ debits = 0
    /\ pc = [t \in Threads |-> "idle"]
    /\ req = [t \in Threads |-> NoOrder]
    /\ holder = NoId
    /\ hook = 1
    /\ report = [id \in EdgeIds |-> None]

Goto(t, from, to) ==
    /\ pc[t] = from
    /\ pc' = [pc EXCEPT ![t] = to]
    /\ req' = [req EXCEPT ![t] = IF to = "idle" THEN NoOrder ELSE @]

-----------------------------------------------------------------------------
(* POST /api/v3/order *)

\* RecordUnique: the id is allocated whether or not the client id is taken,
\* and an empty client id is replaced by one made from it.
ClientName(o, client) == IF client = Unnamed THEN o.id ELSE client
\* Mutant: only open orders are searched for the client id.
DuplicateOpen(o, client) ==
    \E id \in Recorders : record[id].status \in Working /\ record[id].client = ClientName(o, client)

Duplicate(o, client) == \E id \in Recorders : record[id].client = ClientName(o, client)

Record(t, o, client) ==
    /\ seq + 1 \in EdgeIds
    /\ o.id = seq + 1
    /\ seq' = seq + 1
    /\ IF Duplicate(o, client)
       THEN /\ pc[t] = "idle"
            /\ UNCHANGED <<record, pc, req>>
       ELSE /\ pc[t] = "idle"
            /\ pc' = [pc EXCEPT ![t] = IF o.kind = "limit" THEN "reserve" ELSE "announce"]
            /\ record' = [record EXCEPT ![o.id] =
                            [client |-> ClientName(o, client), side |-> o.side, kind |-> o.kind,
                             price |-> o.price, orig |-> o.vol, executed |-> 0,
                             status |-> "NEW"]]
            /\ req' = [req EXCEPT ![t] = o]
    /\ UNCHANGED <<vars, bal, debits, holder, hook, report>>

\* ledger.Lock for a LIMIT order.
Reserve(t) ==
    LET asset == LockAsset(req[t])
        amt   == LockAmount(req[t], req[t].vol)
    IN  /\ pc[t] = "reserve"
        /\ IF Lockable(bal, asset, amt)
           THEN bal' = Lock(bal, asset, amt) /\ Goto(t, "reserve", "announce")
           ELSE Goto(t, "reserve", "unfunded") /\ UNCHANGED bal
        /\ UNCHANGED <<vars, seq, record, debits, holder, hook, report>>

\* registry.Remove, on its own after a refused reservation and first of the
\* two steps that undo a placement the engine refused.
Remove(t) ==
    /\ \/ Goto(t, "unfunded", "idle")
       \/ Goto(t, "refused", "release")
    /\ record' = [record EXCEPT ![req[t].id] = None]
    /\ UNCHANGED <<vars, seq, bal, debits, holder, hook, report>>

\* emitExecutionReport(NEW), before the order can trade; then
\* engine.PlaceLimit: margin.Validate and the write-ahead log.
Announce(t) ==
    /\ \/ Goto(t, "announce", "book")
       \/ MarginRejects /\ Goto(t, "announce", "refused")
    /\ report' = [report EXCEPT ![req[t].id] =
                    [exec |-> "NEW", status |-> record[req[t].id].status,
                     cum |-> record[req[t].id].executed]]
    /\ UNCHANGED <<vars, seq, record, bal, debits, holder, hook>>

\* ledger.Unlock of what was reserved, the second step of that undoing.
Release(t) ==
    /\ Goto(t, "release", "idle")
    /\ bal' = IF req[t].kind = "limit"
              THEN Unlock(bal, LockAsset(req[t]), LockAmount(req[t], req[t].vol))
              ELSE bal
    /\ UNCHANGED <<vars, seq, record, debits, holder, hook, report>>

\* book.AddLimitOrder takes the instrument lock.
EnterBook(t) ==
    /\ Goto(t, "book", "placing")
    /\ Submit(req[t])
    /\ holder' = t
    /\ UNCHANGED <<seq, record, bal, debits, hook, report>>

-----------------------------------------------------------------------------
(* DELETE /api/v3/order *)

\* The handler looks the record up; it keeps the pointer from here on.
Lookup(t, id) ==
    /\ Recorded(id)
    /\ pc[t] = "idle"
    /\ pc' = [pc EXCEPT ![t] = "cancel"]
    /\ req' = [req EXCEPT ![t] = [id |-> id]]
    /\ UNCHANGED <<vars, seq, record, bal, debits, holder, hook, report>>

Rests(id) == \E side \in Sides : \E k \in 1..Len(queue[side]) : queue[side][k].id = id

CancelInBook(t) ==
    /\ Goto(t, "cancel", "cancelling")
    /\ CancelOrder(req[t].id)
    /\ holder' = t
    /\ UNCHANGED <<seq, record, bal, debits, hook, report>>

CancelMisses(t) ==
    /\ Goto(t, "cancel", "missed")
    /\ phase = "free"
    /\ ~Rests(req[t].id)
    /\ UNCHANGED <<vars, seq, record, bal, debits, holder, hook, report>>

\* Mutant: a cancel that finds nothing marks the record all the same.
AnswerMissedMarks(t) ==
    /\ Goto(t, "missed", "idle")
    /\ record' = [record EXCEPT ![req[t].id] =
                    IF @ = None THEN @ ELSE [@ EXCEPT !.status = "CANCELED"]]
    /\ UNCHANGED <<vars, seq, bal, debits, holder, hook, report>>

\* The order was not in the book: canceledResponse if the record is already
\* terminal, -2011 otherwise.
AnswerMissed(t) ==
    /\ Goto(t, "missed", "idle")
    /\ UNCHANGED <<vars, seq, record, bal, debits, holder, hook, report>>

MarkCanceled(t) ==
    /\ Goto(t, "mark", "idle")
    /\ record' = [record EXCEPT ![req[t].id] =
                    IF @ = None \/ @.status = "FILLED" THEN @ ELSE [@ EXCEPT !.status = "CANCELED"]]
    /\ UNCHANGED <<vars, seq, bal, debits, holder, hook, report>>

-----------------------------------------------------------------------------
(* The hooks, called by the goroutine that holds the instrument lock.        *)

CancelFired == \E t \in Threads : holder = t /\ pc[t] = "cancelling"
Fired == IF trades # <<>> THEN trades[1] ELSE [buy |-> 0, sell |-> 0]
CancelledId == IF CancelFired THEN req[holder].id ELSE 0

Firing(h) == phase = "fire" /\ hook \in 1..Len(Hooks) /\ Hooks[hook] = h

\* Mutant: an order is FILLED only once it is over-filled.
FilledBeyond(rec, vol) ==
    LET sum == rec.executed + vol
    IN  [rec EXCEPT !.executed = sum,
                    !.status = IF @ = "CANCELED" THEN @
                               ELSE IF sum > rec.orig THEN "FILLED" ELSE "PARTIALLY_FILLED"]

\* applyFill
Filled(rec, vol) ==
    LET sum == rec.executed + vol
    IN  [rec EXCEPT !.executed = sum,
                    !.status = IF @ = "CANCELED" THEN @
                               ELSE IF sum >= rec.orig THEN "FILLED" ELSE "PARTIALLY_FILLED"]

\* Registry.OnTrade and Registry.OnCancel.
RegistryHook ==
    /\ Firing("registry")
    /\ trades # <<>> \/ CancelFired
    /\ record' = [id \in EdgeIds |->
                    IF record[id] = None THEN None
                    ELSE IF id \in {Fired.buy, Fired.sell} THEN Filled(record[id], Fired.vol)
                    ELSE IF id = CancelledId /\ record[id].status # "FILLED"
                    THEN [record[id] EXCEPT !.status = "CANCELED"]
                    ELSE record[id]]
    /\ hook' = hook + 1
    /\ UNCHANGED <<vars, seq, bal, debits, pc, req, holder, report>>

\* emitExecutionReport(TRADE) for each side, emitExecutionReport(CANCELED).
ReportHook ==
    /\ Firing("reports")
    /\ trades # <<>> \/ CancelFired
    /\ report' = [id \in EdgeIds |->
                    IF id \in {Fired.buy, Fired.sell, CancelledId} /\ Recorded(id)
                    THEN [exec   |-> IF CancelFired THEN "CANCELED" ELSE "TRADE",
                          status |-> record[id].status, cum |-> record[id].executed]
                    ELSE report[id]]
    /\ hook' = hook + 1
    /\ UNCHANGED <<vars, seq, record, bal, debits, pc, req, holder>>

\* settleFill for one side of the trade; an id without a record is not ours.
Settled(id, isBuy) ==
    IF Recorded(id)
    THEN SettleFill(bal, isBuy, "base", "quote", Fired.vol, Fired.price, record[id].price)
    ELSE bal

\* Mutant: a cancel gives nothing back.
UnlockedNothing(id) == bal

\* unlockRemainder
Unlocked(id) ==
    IF Recorded(id) /\ record[id].kind = "limit"
    THEN Unlock(bal, LockAsset(record[id]),
                LockAmount(record[id], record[id].orig - record[id].executed))
    ELSE bal

LedgerBuyer ==
    /\ Firing("buyer")
    /\ trades # <<>> \/ CancelFired
    /\ bal' = IF CancelFired THEN Unlocked(CancelledId) ELSE Settled(Fired.buy, TRUE)
    /\ hook' = hook + 1
    /\ UNCHANGED <<vars, seq, record, debits, pc, req, holder, report>>

\* The last hook of a trade; the book goes on to the next one.
LedgerSeller ==
    /\ Firing("seller")
    /\ bal' = Settled(Fired.sell, FALSE)
    /\ Fire
    /\ hook' = 1
    /\ UNCHANGED <<seq, record, debits, pc, req, holder, report>>

\* The call returns and gives the lock back; a placement then answers with the
\* record's state, a cancel still has to mark the record.
LeaveBook ==
    /\ IF CancelFired THEN Hooks[hook] = "seller" ELSE TRUE
    /\ Return
    /\ holder' = NoId
    /\ hook' = 1
    /\ \/ holder = Emulator /\ UNCHANGED <<pc, req>>
       \/ \E t \in Threads : holder = t /\ (Goto(t, "placing", "idle") \/ Goto(t, "cancelling", "mark"))
    /\ UNCHANGED <<seq, record, bal, debits, report>>

BookStep ==
    /\ MatchOne \/ EnqueueLocked \/ Discard
    /\ UNCHANGED edgeVars

-----------------------------------------------------------------------------
(* The other users of the book and of the ledger. *)

\* A synthetic maker (the seeder) or taker (tape replay, toxic flow).
EmulatorPlaces(o) ==
    /\ o.id \in EmuIds
    /\ o.kind \in EmuKinds
    /\ Submit(o)
    /\ holder' = Emulator
    /\ UNCHANGED <<seq, record, bal, debits, pc, req, hook, report>>

EmulatorCancels(id) ==
    /\ id \in EmuIds
    /\ CancelOrder(id)
    /\ holder' = Emulator
    /\ UNCHANGED <<seq, record, bal, debits, pc, req, hook, report>>

\* transfer.Hub debits the free balance.
Withdraw(asset) ==
    /\ debits < MaxDebits
    /\ debits' = debits + 1
    /\ Lockable(bal, asset, 1)
    /\ bal' = Debit(bal, asset, 1)
    /\ UNCHANGED <<vars, seq, record, pc, req, holder, hook, report>>

-----------------------------------------------------------------------------
Step(t) ==
    Reserve(t) \/ Remove(t) \/ Announce(t) \/ Release(t) \/ EnterBook(t)
    \/ CancelInBook(t) \/ CancelMisses(t) \/ AnswerMissed(t) \/ MarkCanceled(t)

HolderStep ==
    BookStep \/ RegistryHook \/ ReportHook \/ LedgerBuyer \/ LedgerSeller \/ LeaveBook

EdgeNext ==
    \/ \E t \in Threads :
          \/ \E o \in Order(Volumes), client \in Clients :
                o.kind \in EdgeKinds /\ Record(t, o, client)
          \/ \E id \in EdgeIds : Lookup(t, id)
          \/ Step(t)
    \/ HolderStep
    \/ \E o \in Order(Volumes) : EmulatorPlaces(o)
    \/ \E id \in EmuIds : EmulatorCancels(id)
    \/ \E asset \in Assets : Withdraw(asset)

\* A goroutine keeps running; Go's mutexes do not starve a waiter, so one that
\* finds the lock free again and again gets it.
EdgeFairness ==
    /\ WF_allVars(HolderStep)
    /\ \A t \in Threads : SF_allVars(Step(t))

EdgeSpec == EdgeInit /\ [][EdgeNext]_allVars /\ EdgeFairness

-----------------------------------------------------------------------------
(* How much of an order the ledger should still have reserved: all of it     *)
(* from the reservation until the order is in the book, then what has not    *)
(* been settled, until the cancel hook or a failed placement gives it back.  *)
HookDone(h) == \E i \in 1..(hook - 1) : Hooks[i] = h

SettledVolume(id) ==
    told[id] + (IF trades # <<>> /\ HookDone("buyer") /\ Fired.buy = id THEN Fired.vol ELSE 0)

BeforeBook(id) == \E t \in Threads :
    /\ pc[t] \in {"announce", "book", "refused", "release"}
    /\ req[t].id = id

InBook(id) ==
    /\ Recorded(id) /\ orig[id] # 0
    /\ record[id].status = "CANCELED" => CancelledId = id /\ ~HookDone("buyer")

OrderOf(id) == IF Recorded(id) THEN record[id]
               ELSE req[CHOOSE t \in Threads : pc[t] = "release" /\ req[t].id = id]

ReservedAmount(id, side) ==
    IF ~(BeforeBook(id) \/ InBook(id)) THEN 0
    ELSE LET o == OrderOf(id)
         IN  IF o.kind # "limit" \/ o.side # side THEN 0
             ELSE IF BeforeBook(id) THEN LockAmount(o, IF Recorded(id) THEN o.orig ELSE o.vol)
             ELSE LockAmount(o, o.orig - SettledVolume(id))

Needs(side) == [id \in EdgeIds |-> ReservedAmount(id, side)]
Fills == [id \in EdgeIds |-> SettledVolume(id)]

(* The ledger's locked balance covers what every open order, every order on  *)
(* its way into the book and every placement being undone still needs, at    *)
(* every step of every handler and hook: no path unlocks twice, settles      *)
(* twice or forgets a reservation.  Base is locked exactly; a quote          *)
(* reservation may exceed the need by what truncation left of each fill.     *)
ReservationsHeld ==
    /\ bal["base"].locked = SumOf(Needs("sell"))
    /\ bal["quote"].locked >= SumOf(Needs("buy"))
    /\ bal["quote"].locked =< SumOf(Needs("buy")) + SumOf(Fills)

(* When no call is in the book, the registry and the book agree on every     *)
(* order that reached the book: what executed, what rests, and whether it is *)
(* finished.  A limit order is working exactly while it rests.               *)
RegistryMatchesBook ==
    phase = "free" => \A id \in Recorders : orig[id] # 0 =>
        LET rec == record[id]
        IN  /\ rec.executed = told[id]
            /\ rec.status = "FILLED" <=> told[id] = rec.orig
            /\ rec.kind = "limit" => (rec.status \in Working <=> Rests(id))

(* "a repeated id can never create a second resting order" (rest.go): two    *)
(* orders the edge has accepted never share a client order id, however the   *)
(* handlers interleave.                                                      *)
ClientIdsUnique ==
    \A i, j \in Recorders : i # j => record[i].client # record[j].client

(* FILLED and CANCELED are final, although the hooks, the cancel handler and *)
(* late fills all write the status.                                          *)
TerminalIsFinal ==
    [][ \A id \in Recorders :
          record[id].status \in Terminal => record'[id].status = record[id].status ]_allVars

(* The user-data stream tells each order's story in order: NEW first, then   *)
(* fills with a growing cumulative quantity, nothing after a final status,   *)
(* and FILLED on the very report that completes the order.                   *)
ReportsInOrder ==
    [][ \A id \in EdgeIds : report'[id] # report[id] =>
          /\ report'[id].exec = "NEW" <=> report[id] = None
          /\ report[id].status \notin Terminal
          /\ report'[id].exec = "TRADE" => report'[id].cum > report[id].cum
          /\ report'[id].cum = record[id].orig <=> report'[id].status = "FILLED" ]_allVars

(* Every request is answered: handlers, hooks and locks never wait on each   *)
(* other in a circle.                                                        *)
RequestsAnswered == \A t \in Threads : pc[t] # "idle" ~> pc[t] = "idle"

(* As long as it sends only LIMIT orders, the account's trades with itself   *)
(* neither create nor destroy value (ledger.go: "value is conserved"); what  *)
(* it has is what it was given less what it withdrew.                        *)
ValueConserved ==
    phase = "free" /\ (\A id \in Recorders : record[id].kind = "limit") =>
        \E n \in 0..debits :
            Total(bal, "base") = Deposit - n /\ Total(bal, "quote") = Deposit - (debits - n)

-----------------------------------------------------------------------------
(* What comments in the code say, refuted by a run.                          *)

Quiet == \A t \in Threads : pc[t] = "idle"

(* "lock==release so the clamps in release/debitFree never engage and value  *)
(* is conserved" (ledger.go:131): a fill between two orders of the account   *)
(* never leaves it with more of an asset than it had, also when one of the   *)
(* two is a MARKET order that pays only what it can.                         *)
NeverMints == phase = "free" => \A asset \in Assets : Total(bal, asset) =< Deposit
=============================================================================
