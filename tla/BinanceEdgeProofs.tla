-------------------------- MODULE BinanceEdgeProofs --------------------------
(* Theorems about the Binance edge, for every set of threads, ids, prices    *)
(* and volumes: what is proved of the book alone holds under the edge, and   *)
(* the registry and the user-data stream follow it.  And however many        *)
(* requests and passes of the option sweep run at once, a symbol is settled  *)
(* at most once.                                                             *)
EXTENDS OptionSettle, OrderBookProofs, SumTheorems

Statuses == Working \cup Terminal

Rec == [client : Clients \cup EdgeIds, side : Sides, kind : Kinds, price : Prices \cup {0},
        orig : Volumes, executed : Nat, status : Statuses]
Rep == [exec : {"NEW", "TRADE", "CANCELED"}, status : Statuses, cum : Nat]

Unannounced == {"reserve", "announce", "unfunded"}
Entering == Unannounced \cup {"refused", "book"}
Cancelling == {"cancel", "cancelling", "missed", "mark"}

EdgeTypeOK ==
    /\ seq \in Nat
    /\ record \in [EdgeIds -> Rec \cup {None}]
    /\ report \in [EdgeIds -> Rep \cup {None}]
    /\ pc \in [Threads -> {"idle", "release", "placing"} \cup Entering \cup Cancelling]
    /\ DOMAIN req = Threads
    /\ hook \in 1..4

-----------------------------------------------------------------------------
(* Handlers.  An order on its way into the book has a record, is unknown to  *)
(* the book, and is the business of one handler.                             *)
OnItsWay(t) ==
    /\ pc[t] \in Entering \cup {"release"} => req[t] \in Order(Volumes) /\ req[t].id \in EdgeIds
    /\ pc[t] \in Entering =>
         LET rec == record[req[t].id]
         IN  /\ rec \in Rec /\ rec.status = "NEW" /\ rec.kind = req[t].kind /\ rec.orig = req[t].vol
             /\ orig[req[t].id] = 0
             /\ report[req[t].id] = None <=> pc[t] \in Unannounced

Apart == \A t, u \in Threads :
    t # u /\ pc[t] \in Entering /\ pc[u] \in Entering => req[t].id # req[u].id

\* A handler that is in the book holds the instrument; a cancel has found its
\* order there, and once the registry's hook has run the record says so.
InTheBook(t) ==
    /\ pc[t] \in Cancelling => req[t].id \in EdgeIds
    /\ pc[t] = "placing" => holder = t /\ phase # "free"
    /\ pc[t] = "cancelling" =>
         /\ holder = t /\ phase = "fire" /\ trades = <<>>
         /\ told[req[t].id] + dropped[req[t].id] = orig[req[t].id] /\ dropped[req[t].id] > 0
         /\ hook > 1 => record[req[t].id].status = "CANCELED"
    /\ pc[t] = "mark" => record[req[t].id].status = "CANCELED"

HooksInTurn ==
    /\ phase # "fire" => hook = 1
    /\ trades = <<>> /\ (\A t \in Threads : pc[t] # "cancelling") => hook = 1

-----------------------------------------------------------------------------
(* Orders. *)

BeingCancelled(id) == \E t \in Threads : pc[t] = "cancelling" /\ req[t].id = id

\* What the hooks before the h-th have been told of the trade being fired.
Ahead(h, id) == IF hook > h /\ trades # <<>> THEN Executed(trades[1], id) ELSE 0

Known(id) ==
    /\ record[id] # None \/ orig[id] # 0 \/ report[id] # None => id \in 1..seq
    /\ orig[id] # 0 => record[id] # None /\ record[id].orig = orig[id] /\ report[id] # None

RecordFollows(id) == record[id] # None =>
    /\ record[id].executed = told[id] + Ahead(1, id)
    /\ orig[id] = 0 => record[id].status = "NEW"
    /\ record[id].status = "FILLED" <=> record[id].executed = record[id].orig
    /\ record[id].status = "CANCELED" =>
         orig[id] # 0 /\ dropped[id] > 0 /\ told[id] + dropped[id] = orig[id]
    /\ record[id].kind = "limit" /\ dropped[id] > 0 =>
         record[id].status = "CANCELED" \/ (BeingCancelled(id) /\ hook = 1)

ReportFollows(id) == record[id] # None /\ report[id] # None =>
    /\ report[id].cum = told[id] + Ahead(2, id)
    /\ report[id].status = "FILLED" <=> report[id].cum = record[id].orig
    /\ report[id].status = "CANCELED" =>
         record[id].status = "CANCELED" /\ ~(BeingCancelled(id) /\ hook =< 2)

TakerKind == phase = "match" /\ taker.id \in EdgeIds => record[taker.id].kind = taker.kind

EdgeInv ==
    /\ AccountInv /\ EdgeTypeOK /\ Apart /\ HooksInTurn /\ TakerKind
    /\ \A t \in Threads : OnItsWay(t) /\ InTheBook(t)
    /\ \A id \in EdgeIds : Known(id) /\ RecordFollows(id) /\ ReportFollows(id)
    /\ ClientIdsUnique

-----------------------------------------------------------------------------
(* What the book's accounts say of one order. *)

\* What the first pending trade executes of an order.
FirstDue(id) == IF trades # <<>> THEN Executed(trades[1], id) ELSE 0

(* No order is executed, cancelled or discarded beyond its volume, and when  *)
(* no trade is pending the parts make up the whole.                          *)
LEMMA Bound ==
    ASSUME AccountInv, NEW id \in Ids
    PROVE  /\ orig[id] \in Nat /\ told[id] \in Nat /\ dropped[id] \in Nat
           /\ InHand(id) \in Nat /\ AtRest(id) \in Nat /\ FirstDue(id) \in Nat
           /\ told[id] + dropped[id] + FirstDue(id) + InHand(id) + AtRest(id) =< orig[id]
           /\ trades = <<>> => orig[id] = told[id] + dropped[id] + InHand(id) + AtRest(id)
<1>1. PICK due \in [1..(Len(trades) + 1) -> Nat] :
         /\ DueFor(trades, id, due)
         /\ orig[id] = told[id] + dropped[id] + due[1] + InHand(id) + AtRest(id)
  BY DEF AccountInv, AccountsAdd
<1>2. /\ InHand(id) \in Nat /\ AtRest(id) \in Nat
      /\ orig[id] \in Nat /\ told[id] \in Nat /\ dropped[id] \in Nat
  BY AmountsNat DEF AccountInv
<1>3. trades \in Seq(Trade)
  BY DEF AccountInv, BookInv, TypeOK
<1> DEFINE o == orig[id]
           to == told[id]
           dr == dropped[id]
           h == InHand(id)
           r == AtRest(id)
           f == FirstDue(id)
           d == due[1]
<1>4. CASE trades = <<>>
  <2>1. d = 0 /\ f = 0
    <3>1. Len(trades) + 1 = 1
      BY <1>4
    <3> QED
      BY <1>1, <1>4, <3>1 DEF DueFor, FirstDue
  <2>2. o = to + dr + d + h + r /\ o \in Nat /\ to \in Nat /\ dr \in Nat /\ h \in Nat /\ r \in Nat
    BY <1>1, <1>2
  <2> HIDE DEF o, to, dr, h, r, f, d
  <2>3. to + dr + f + h + r =< o /\ o = to + dr + h + r /\ f \in Nat
    BY ONLY <2>1, <2>2
  <2> QED
    BY <1>2, <2>3 DEF o, to, dr, h, r, f, d
<1>5. CASE trades # <<>>
  <2>1. /\ d \in Nat /\ f \in Nat
        /\ \E x \in [1..(Len(Tail(trades)) + 1) -> Nat] : x[1] \in Nat /\ d = x[1] + f
    <3>1. f = Executed(Head(trades), id)
      BY <1>3, <1>5 DEF FirstDue
    <3> QED
      BY <1>1, <1>3, <1>5, <3>1, DueTail
  <2>2. o = to + dr + d + h + r /\ o \in Nat /\ to \in Nat /\ dr \in Nat /\ h \in Nat /\ r \in Nat
    BY <1>1, <1>2
  <2> HIDE DEF o, to, dr, h, r, f, d
  <2>3. f =< d
    BY <2>1
  <2>4. to + dr + f + h + r =< o /\ f \in Nat
    BY ONLY <2>1, <2>2, <2>3
  <2> QED
    BY <1>2, <1>5, <2>4 DEF o, to, dr, h, r, f, d
<1> QED
  BY <1>4, <1>5

(* Which hook is called. *)
LEMMA WhichHook ==
    ASSUME hook \in 1..4
    PROVE  /\ Firing("registry") => phase = "fire" /\ hook = 1
           /\ Firing("reports") => phase = "fire" /\ hook = 2
           /\ Firing("buyer") => phase = "fire" /\ hook = 3
           /\ Firing("seller") => phase = "fire" /\ hook = 4
           /\ Hooks[hook] = "seller" => hook = 4
<1>1. Hooks[1] = "registry" /\ Hooks[2] = "reports" /\ Hooks[3] = "buyer" /\ Hooks[4] = "seller"
  BY DEF Hooks
<1>2. hook = 1 \/ hook = 2 \/ hook = 3 \/ hook = 4
  OBVIOUS
<1> QED
  BY <1>1, <1>2 DEF Firing

(* Whose cancel the hooks are being told of. *)
LEMMA WhoseCancel ==
    ASSUME \A t \in Threads : InTheBook(t)
    PROVE  /\ CancelFired <=> \E t \in Threads : pc[t] = "cancelling"
           /\ \A t \in Threads : pc[t] = "cancelling" =>
                 /\ CancelFired /\ CancelledId = req[t].id
                 /\ \A u \in Threads : pc[u] \in {"cancelling", "placing"} => u = t
           /\ ~CancelFired => CancelledId = 0
           /\ \A id : BeingCancelled(id) <=> CancelFired /\ CancelledId = id
<1>1. CancelFired <=> \E t \in Threads : pc[t] = "cancelling"
  BY DEF CancelFired, InTheBook
<1>2. ASSUME NEW t \in Threads, pc[t] = "cancelling"
      PROVE  /\ CancelFired /\ CancelledId = req[t].id
             /\ \A u \in Threads : pc[u] \in {"cancelling", "placing"} => u = t
  BY <1>1, <1>2 DEF CancelledId, InTheBook
<1> QED
  BY <1>1, <1>2 DEF CancelledId, BeingCancelled

-----------------------------------------------------------------------------
(* Under the edge the book takes no step of its own making. *)
LEMMA EdgeBookStep == EdgeInv /\ [EdgeNext]_allVars => [Next]_vars
<1> SUFFICES ASSUME EdgeInv, [EdgeNext]_allVars PROVE [Next]_vars
  OBVIOUS
<1>1. ASSUME NEW t \in Threads, Step(t) PROVE [Next]_vars
  <2>1. CASE EnterBook(t)
    <3>1. pc[t] = "book" /\ Submit(req[t])
      BY <2>1 DEF EnterBook, Goto
    <3>2. req[t] \in Order(Volumes)
      BY <3>1 DEF EdgeInv, OnItsWay, Entering
    <3> QED
      BY <3>1, <3>2 DEF Next
  <2>2. CASE CancelInBook(t)
    <3>1. pc[t] = "cancel" /\ CancelOrder(req[t].id)
      BY <2>2 DEF CancelInBook, Goto
    <3>2. req[t].id \in EdgeIds
      BY <3>1 DEF EdgeInv, InTheBook, Cancelling
    <3>3. req[t].id \in Ids
      BY <3>2, EdgeAssumption DEF EdgeAssumption
    <3> QED
      BY <3>1, <3>3 DEF Next
  <2> QED
    BY <1>1, <2>1, <2>2 DEF Step, Reserve, Remove, Announce, Release, CancelMisses,
                            AnswerMissed, MarkCanceled
<1>2. CASE HolderStep
  BY <1>2 DEF HolderStep, BookStep, RegistryHook, ReportHook, LedgerBuyer, LedgerSeller,
              LeaveBook, Next
<1>3. ASSUME NEW o \in Order(Volumes), EmulatorPlaces(o) PROVE [Next]_vars
  BY <1>3 DEF EmulatorPlaces, Next
<1>4. ASSUME NEW id \in EmuIds, EmulatorCancels(id) PROVE [Next]_vars
  <2>1. id \in Ids
    BY <1>4, EdgeAssumption DEF EdgeAssumption
  <2> QED
    BY <1>4, <2>1 DEF EmulatorCancels, Next
<1>5. CASE UNCHANGED vars
  BY <1>5
<1>6. ASSUME NEW t \in Threads, NEW o \in Order(Volumes), NEW client \in Clients, Record(t, o, client)
      PROVE  [Next]_vars
  BY <1>6 DEF Record
<1>7. ASSUME NEW t \in Threads, NEW id \in EdgeIds, Lookup(t, id) PROVE [Next]_vars
  BY <1>7 DEF Lookup
<1>8. ASSUME NEW asset \in Assets, Withdraw(asset) PROVE [Next]_vars
  BY <1>8 DEF Withdraw
<1> QED
  BY <1>1, <1>2, <1>3, <1>4, <1>5, <1>6, <1>7, <1>8 DEF EdgeNext, allVars

-----------------------------------------------------------------------------
(* What a step leaves alone.                                                 *)

\* The states of a handler.
Places == {"idle", "release", "placing"} \cup Entering \cup Cancelling

(* What is known of an order depends on its own state, on the first pending  *)
(* trade and the hook being called, and on whether it is being cancelled.    *)
LEMMA OrderFrame ==
    ASSUME NEW id \in EdgeIds, Known(id), RecordFollows(id), ReportFollows(id),
           record'[id] = record[id], report'[id] = report[id], orig'[id] = orig[id],
           told'[id] = told[id], dropped'[id] = dropped[id],
           trades' = trades, hook' = hook, BeingCancelled(id)' <=> BeingCancelled(id),
           seq \in Nat, seq' \in Nat, seq =< seq'
    PROVE  Known(id)' /\ RecordFollows(id)' /\ ReportFollows(id)'
<1>1. Known(id)'
  BY DEF Known
<1>2. Ahead(1, id)' = Ahead(1, id) /\ Ahead(2, id)' = Ahead(2, id)
  BY DEF Ahead
<1>3. RecordFollows(id)'
  BY <1>2 DEF RecordFollows
<1>4. ReportFollows(id)'
  BY <1>2 DEF ReportFollows
<1> QED
  BY <1>1, <1>3, <1>4

(* What is known of a handler depends on its own state and on that of the    *)
(* order it works on.                                                        *)
LEMMA HandlerFrame ==
    ASSUME NEW u \in Threads, OnItsWay(u), InTheBook(u),
           pc'[u] = pc[u], req'[u] = req[u],
           NEW id, id = req[u].id,
           record'[id] = record[id], report'[id] = report[id], orig'[id] = orig[id],
           told'[id] = told[id], dropped'[id] = dropped[id],
           holder' = holder, phase' = phase, trades' = trades, hook' = hook
    PROVE  OnItsWay(u)' /\ InTheBook(u)'
<1>1. OnItsWay(u)'
  BY DEF OnItsWay
<1>2. InTheBook(u)'
  BY DEF InTheBook
<1> QED
  BY <1>1, <1>2

(* A handler that takes a step of its own outside the book and outside the   *)
(* registry and the stream changes nothing for anyone else.                  *)
LEMMA HandlerMoves ==
    ASSUME EdgeInv, NEW t \in Threads, NEW x \in Places, NEW r,
           UNCHANGED <<vars, seq, record, report, holder, hook>>,
           pc' = [pc EXCEPT ![t] = x], req' = [req EXCEPT ![t] = r],
           pc[t] # "cancelling", x # "cancelling",
           x \in Entering => pc[t] \in Entering /\ r.id = req[t].id,
           OnItsWay(t)', InTheBook(t)'
    PROVE  EdgeInv'
<1> USE DEF vars, bookVars
<1>1. AccountInv'
  BY AccountStep DEF EdgeInv
<1>2. EdgeTypeOK'
  BY DEF EdgeInv, EdgeTypeOK, Places
<1>3. \A u \in Threads \ {t} : pc'[u] = pc[u] /\ req'[u] = req[u]
  BY <1>2 DEF EdgeInv, EdgeTypeOK
<1>4. pc'[t] = x /\ req'[t] = r
  BY DEF EdgeInv, EdgeTypeOK
<1>5. Apart'
  BY <1>3, <1>4 DEF EdgeInv, Apart
<1>6. HooksInTurn' /\ TakerKind' /\ ClientIdsUnique'
  <2>1. (\A u \in Threads : pc'[u] # "cancelling") => (\A u \in Threads : pc[u] # "cancelling")
    BY <1>3
  <2>2. HooksInTurn'
    BY <2>1 DEF EdgeInv, HooksInTurn
  <2>3. TakerKind'
    BY DEF EdgeInv, TakerKind
  <2>4. ClientIdsUnique'
    BY DEF EdgeInv, ClientIdsUnique, Recorders, Recorded
  <2> QED
    BY <2>2, <2>3, <2>4
<1>7. \A u \in Threads : OnItsWay(u)' /\ InTheBook(u)'
  <2>1. ASSUME NEW u \in Threads, u # t PROVE OnItsWay(u)' /\ InTheBook(u)'
    BY <1>3, <2>1, HandlerFrame DEF EdgeInv
  <2> QED
    BY <2>1
<1>8. \A id \in EdgeIds : Known(id)' /\ RecordFollows(id)' /\ ReportFollows(id)'
  <2>1. ASSUME NEW id \in EdgeIds PROVE BeingCancelled(id)' <=> BeingCancelled(id)
    BY <1>3, <1>4 DEF BeingCancelled
  <2>2. seq \in Nat /\ seq' = seq
    BY DEF EdgeInv, EdgeTypeOK
  <2> QED
    BY <2>1, <2>2, OrderFrame DEF EdgeInv
<1> QED
  BY <1>1, <1>2, <1>5, <1>6, <1>7, <1>8 DEF EdgeInv

-----------------------------------------------------------------------------
(* The steps of the handlers outside the book.                               *)

(* A handler's Goto, as HandlerMoves wants it. *)
LEMMA GotoMoves ==
    ASSUME EdgeInv, NEW t \in Threads, NEW from, NEW to \in Places, Goto(t, from, to),
           UNCHANGED <<vars, seq, record, report, holder, hook>>,
           pc[t] # "cancelling", to # "cancelling",
           to \in Entering => from \in Entering,
           OnItsWay(t)', InTheBook(t)'
    PROVE  EdgeInv'
<1> DEFINE r == IF to = "idle" THEN NoOrder ELSE req[t]
<1>1. pc[t] = from /\ pc' = [pc EXCEPT ![t] = to] /\ req' = [req EXCEPT ![t] = r]
  BY DEF Goto
<1>2. to \in Entering => pc[t] \in Entering /\ r.id = req[t].id
  BY <1>1 DEF Entering, Unannounced
<1> HIDE DEF r
<1> QED
  BY <1>1, <1>2, HandlerMoves

(* ledger.Lock, whether or not the account can pay. *)
LEMMA ReserveKeeps ==
    ASSUME EdgeInv, NEW t \in Threads, Reserve(t)
    PROVE  EdgeInv'
<1>1. PICK to \in {"announce", "unfunded"} : Goto(t, "reserve", to)
  BY DEF Reserve
<1>2. UNCHANGED <<vars, seq, record, report, holder, hook>>
  BY DEF Reserve
<1>3. pc[t] = "reserve" /\ pc'[t] = to /\ req'[t] = req[t] /\ to \in Places /\ to \in Unannounced
  BY <1>1 DEF Goto, EdgeInv, EdgeTypeOK, Places, Entering, Unannounced
<1>4. OnItsWay(t)'
  BY <1>2, <1>3 DEF OnItsWay, EdgeInv, Entering, Unannounced, vars, bookVars
<1>5. InTheBook(t)'
  BY <1>1, <1>3 DEF InTheBook, Cancelling
<1> QED
  BY <1>1, <1>2, <1>3, <1>4, <1>5, GotoMoves DEF Entering, Unannounced

(* ledger.Unlock after a refusal. *)
LEMMA ReleaseKeeps ==
    ASSUME EdgeInv, NEW t \in Threads, Release(t)
    PROVE  EdgeInv'
<1>1. Goto(t, "release", "idle") /\ UNCHANGED <<vars, seq, record, report, holder, hook>>
  BY DEF Release
<1>2. pc[t] = "release" /\ pc'[t] = "idle" /\ "idle" \in Places
  BY <1>1 DEF Goto, EdgeInv, EdgeTypeOK, Places
<1>3. OnItsWay(t)' /\ InTheBook(t)'
  BY <1>2 DEF OnItsWay, InTheBook, Entering, Unannounced, Cancelling
<1> QED
  BY <1>1, <1>2, <1>3, GotoMoves DEF Entering, Unannounced

(* A cancel that does not find the order, and its answer. *)
LEMMA MissKeeps ==
    ASSUME EdgeInv, NEW t \in Threads, CancelMisses(t) \/ AnswerMissed(t)
    PROVE  EdgeInv'
<1>1. CASE CancelMisses(t)
  <2>1. Goto(t, "cancel", "missed") /\ UNCHANGED <<vars, seq, record, report, holder, hook>>
    BY <1>1 DEF CancelMisses
  <2>2. pc[t] = "cancel" /\ pc'[t] = "missed" /\ req'[t] = req[t] /\ "missed" \in Places
    BY <2>1 DEF Goto, EdgeInv, EdgeTypeOK, Places, Cancelling
  <2>3. OnItsWay(t)' /\ InTheBook(t)'
    BY <2>2 DEF OnItsWay, InTheBook, Entering, Unannounced, Cancelling, EdgeInv
  <2> QED
    BY <2>1, <2>2, <2>3, GotoMoves DEF Entering, Unannounced
<1>2. CASE AnswerMissed(t)
  <2>1. Goto(t, "missed", "idle") /\ UNCHANGED <<vars, seq, record, report, holder, hook>>
    BY <1>2 DEF AnswerMissed
  <2>2. pc[t] = "missed" /\ pc'[t] = "idle" /\ "idle" \in Places
    BY <2>1 DEF Goto, EdgeInv, EdgeTypeOK, Places
  <2>3. OnItsWay(t)' /\ InTheBook(t)'
    BY <2>2 DEF OnItsWay, InTheBook, Entering, Unannounced, Cancelling
  <2> QED
    BY <2>1, <2>2, <2>3, GotoMoves DEF Entering, Unannounced
<1> QED
  BY <1>1, <1>2

(* The cancel handler marks a record that its own hook has marked already.   *)
LEMMA MarkKeeps ==
    ASSUME EdgeInv, NEW t \in Threads, MarkCanceled(t)
    PROVE  EdgeInv' /\ record' = record
<1>1. Goto(t, "mark", "idle") /\ UNCHANGED <<vars, seq, report, holder, hook>>
  BY DEF MarkCanceled
<1>2. pc[t] = "mark" /\ pc'[t] = "idle" /\ "idle" \in Places
  BY <1>1 DEF Goto, EdgeInv, EdgeTypeOK, Places
<1>3. record' = record
  <2> DEFINE id == req[t].id
  <2>1. id \in EdgeIds /\ record[id].status = "CANCELED"
    BY <1>2 DEF EdgeInv, InTheBook, Cancelling
  <2>2. record[id] \in Rec \cup {None} /\ record \in [EdgeIds -> Rec \cup {None}]
    BY <2>1 DEF EdgeInv, EdgeTypeOK
  <2>3. record[id] \in Rec
    BY <2>1, <2>2 DEF None
  <2>4. record[id] = [record[id] EXCEPT !.status = "CANCELED"]
    BY <2>1, <2>3 DEF Rec
  <2>5. record' = [record EXCEPT ![id] = IF @ = None \/ @.status = "FILLED" THEN @
                                         ELSE [@ EXCEPT !.status = "CANCELED"]]
    BY DEF MarkCanceled
  <2> HIDE DEF id
  <2> QED
    BY <2>1, <2>2, <2>4, <2>5
<1>4. OnItsWay(t)' /\ InTheBook(t)'
  BY <1>2 DEF OnItsWay, InTheBook, Entering, Unannounced, Cancelling
<1> QED
  BY <1>1, <1>2, <1>3, <1>4, GotoMoves DEF Entering, Unannounced

(* The cancel handler finds the record. *)
LEMMA LookupKeeps ==
    ASSUME EdgeInv, NEW t \in Threads, NEW id \in EdgeIds, Lookup(t, id)
    PROVE  EdgeInv'
<1>1. /\ pc[t] = "idle" /\ pc' = [pc EXCEPT ![t] = "cancel"]
      /\ req' = [req EXCEPT ![t] = [id |-> id]]
      /\ UNCHANGED <<vars, seq, record, report, holder, hook>>
  BY DEF Lookup
<1>2. pc'[t] = "cancel" /\ req'[t] = [id |-> id] /\ req'[t].id = id /\ "cancel" \in Places
  BY <1>1 DEF EdgeInv, EdgeTypeOK, Places, Cancelling
<1>3. OnItsWay(t)' /\ InTheBook(t)'
  BY <1>2 DEF OnItsWay, InTheBook, Entering, Unannounced, Cancelling
<1> QED
  BY <1>1, <1>2, <1>3, HandlerMoves DEF Entering, Unannounced

(* A step of the ledger alone, or one that only uses up an order id.         *)
LEMMA LedgerAlone ==
    ASSUME EdgeInv, UNCHANGED <<vars, record, report, pc, req, holder, hook>>,
           seq' \in Nat, seq =< seq'
    PROVE  EdgeInv'
<1>1. UNCHANGED <<vars, record, report, pc, req, holder, hook>>
  OBVIOUS
<1>2. AccountInv'
  BY <1>1, AccountStep DEF EdgeInv
<1> USE <1>1 DEF vars, bookVars
<1>3. EdgeTypeOK' /\ Apart' /\ HooksInTurn' /\ TakerKind' /\ ClientIdsUnique'
  BY DEF EdgeInv, EdgeTypeOK, Apart, HooksInTurn, TakerKind, ClientIdsUnique, Recorders, Recorded
<1>4. \A u \in Threads : OnItsWay(u)' /\ InTheBook(u)'
  BY HandlerFrame DEF EdgeInv
<1>5. \A id \in EdgeIds : Known(id)' /\ RecordFollows(id)' /\ ReportFollows(id)'
  <2>1. ASSUME NEW id \in EdgeIds PROVE BeingCancelled(id)' <=> BeingCancelled(id)
    BY DEF BeingCancelled
  <2>2. seq \in Nat
    BY DEF EdgeInv, EdgeTypeOK
  <2> QED
    BY <2>1, <2>2, OrderFrame DEF EdgeInv
<1> QED
  BY <1>2, <1>3, <1>4, <1>5 DEF EdgeInv

-----------------------------------------------------------------------------
(* The steps that write the registry or the stream before the book knows the *)
(* order.                                                                    *)

(* Nothing in the book or in its hooks is about an order not yet submitted.  *)
LEMMA Unused ==
    ASSUME EdgeInv, NEW id \in EdgeIds, orig[id] = 0
    PROVE  /\ told[id] = 0 /\ dropped[id] = 0
           /\ Ahead(1, id) = 0 /\ Ahead(2, id) = 0
           /\ ~BeingCancelled(id)
           /\ ~(phase = "match" /\ taker.id = id)
           /\ \A u \in Threads : pc[u] \in {"cancelling", "mark"} => req[u].id # id
           /\ record[id] # None => record[id].status # "CANCELED"
<1>1. id \in Ids
  BY EdgeAssumption DEF EdgeAssumption
<1>2. AccountInv /\ \A u \in Threads : InTheBook(u)
  BY DEF EdgeInv
<1>3. told[id] = 0 /\ dropped[id] = 0 /\ FirstDue(id) = 0
  <2> DEFINE to == told[id]
             dr == dropped[id]
             h == InHand(id)
             r == AtRest(id)
             f == FirstDue(id)
  <2>1. to \in Nat /\ dr \in Nat /\ h \in Nat /\ r \in Nat /\ f \in Nat /\ to + dr + f + h + r =< 0
    BY <1>1, <1>2, Bound
  <2> HIDE DEF to, dr, h, r, f
  <2>2. to = 0 /\ dr = 0 /\ f = 0
    BY ONLY <2>1
  <2> QED
    BY <2>2 DEF to, dr, f
<1>4. Ahead(1, id) = 0 /\ Ahead(2, id) = 0
  BY <1>3 DEF FirstDue, Ahead
<1>5. ~(phase = "match" /\ taker.id = id)
  BY <1>2 DEF AccountInv, IdsOnce
<1>6. record[id] # None => record[id].status # "CANCELED"
  BY DEF EdgeInv, RecordFollows
<1>7. ASSUME NEW u \in Threads, pc[u] \in {"cancelling", "mark"} PROVE req[u].id # id
  <2>1. CASE pc[u] = "cancelling"
    BY <1>2, <1>3, <2>1 DEF InTheBook
  <2>2. CASE pc[u] = "mark"
    BY <1>2, <1>6, <2>2 DEF InTheBook, None
  <2> QED
    BY <1>7, <2>1, <2>2
<1> QED
  BY <1>3, <1>4, <1>5, <1>6, <1>7 DEF BeingCancelled

(* A handler may change the record and the report of an order the book does  *)
(* not know, as long as no other handler works on it.                        *)
LEMMA EntryMoves ==
    ASSUME EdgeInv, NEW t \in Threads, NEW to \in Places, NEW r, NEW x \in EdgeIds, orig[x] = 0,
           UNCHANGED <<vars, holder, hook>>, seq' \in Nat, seq =< seq',
           pc' = [pc EXCEPT ![t] = to], req' = [req EXCEPT ![t] = r],
           pc[t] # "cancelling", to # "cancelling", to \in Entering => r.id = x,
           record' \in [EdgeIds -> Rec \cup {None}], report' \in [EdgeIds -> Rep \cup {None}],
           \A id \in EdgeIds \ {x} : record'[id] = record[id] /\ report'[id] = report[id],
           \A u \in Threads \ {t} : pc[u] \in Entering => req[u].id # x,
           OnItsWay(t)', InTheBook(t)',
           Known(x)', RecordFollows(x)', ReportFollows(x)', ClientIdsUnique'
    PROVE  EdgeInv'
<1> USE DEF vars, bookVars
<1>1. AccountInv'
  BY AccountStep DEF EdgeInv
<1>2. EdgeTypeOK'
  BY DEF EdgeInv, EdgeTypeOK, Places
<1>3. \A u \in Threads \ {t} : pc'[u] = pc[u] /\ req'[u] = req[u]
  BY <1>2 DEF EdgeInv, EdgeTypeOK
<1>4. pc'[t] = to /\ req'[t] = r
  BY DEF EdgeInv, EdgeTypeOK
<1>5. Apart'
  BY <1>3, <1>4 DEF EdgeInv, Apart
<1>6. ~BeingCancelled(x) /\ ~(phase = "match" /\ taker.id = x)
      /\ \A u \in Threads : pc[u] \in {"cancelling", "mark"} => req[u].id # x
  BY Unused
<1>7. HooksInTurn'
  <2>1. (\A u \in Threads : pc'[u] # "cancelling") => (\A u \in Threads : pc[u] # "cancelling")
    BY <1>3
  <2> QED
    BY <2>1 DEF EdgeInv, HooksInTurn
<1>8. TakerKind'
  BY <1>6 DEF EdgeInv, TakerKind
<1>9. \A u \in Threads : OnItsWay(u)' /\ InTheBook(u)'
  <2>1. ASSUME NEW u \in Threads, u # t PROVE OnItsWay(u)' /\ InTheBook(u)'
    <3> DEFINE id == req[u].id
    <3>1. pc'[u] = pc[u] /\ req'[u] = req[u] /\ OnItsWay(u) /\ InTheBook(u)
      BY <1>3, <2>1 DEF EdgeInv
    <3>2. CASE pc[u] \in Entering \cup {"cancelling", "mark"}
      <4>1. id \in EdgeIds \ {x}
        BY <1>6, <2>1, <3>1, <3>2 DEF OnItsWay, InTheBook, Cancelling
      <4>2. record'[id] = record[id] /\ report'[id] = report[id]
        BY <4>1
      <4> QED
        BY <3>1, <4>2, HandlerFrame
    <3>3. CASE pc[u] \notin Entering \cup {"cancelling", "mark"}
      <4>1. OnItsWay(u)'
        BY <3>1, <3>3 DEF OnItsWay
      <4>2. InTheBook(u)'
        BY <3>1, <3>3 DEF InTheBook
      <4> QED
        BY <4>1, <4>2
    <3> QED
      BY <3>2, <3>3
  <2> QED
    BY <2>1
<1>10. \A id \in EdgeIds : Known(id)' /\ RecordFollows(id)' /\ ReportFollows(id)'
  <2>1. ASSUME NEW id \in EdgeIds PROVE BeingCancelled(id)' <=> BeingCancelled(id)
    BY <1>3, <1>4 DEF BeingCancelled
  <2>2. seq \in Nat
    BY DEF EdgeInv, EdgeTypeOK
  <2>3. ASSUME NEW id \in EdgeIds \ {x} PROVE Known(id)' /\ RecordFollows(id)' /\ ReportFollows(id)'
    <3>1. Known(id) /\ RecordFollows(id) /\ ReportFollows(id)
      BY DEF EdgeInv
    <3> QED
      BY <2>1, <2>2, <3>1, OrderFrame
  <2> QED
    BY <2>3
<1> QED
  BY <1>1, <1>2, <1>5, <1>7, <1>8, <1>9, <1>10 DEF EdgeInv

(* RecordUnique: the id is new, so neither the book nor a report knows it.   *)
LEMMA RecordKeeps ==
    ASSUME EdgeInv, NEW t \in Threads, NEW o \in Order(Volumes), NEW client \in Clients,
           Record(t, o, client)
    PROVE  EdgeInv'
<1> DEFINE x == o.id
           to == IF o.kind = "limit" THEN "reserve" ELSE "announce"
           rec == [client |-> ClientName(o, client), side |-> o.side, kind |-> o.kind,
                   price |-> o.price, orig |-> o.vol, executed |-> 0, status |-> "NEW"]
<1>1. /\ x \in EdgeIds /\ x = seq + 1 /\ seq' = seq + 1 /\ pc[t] = "idle"
      /\ UNCHANGED <<vars, holder, hook, report>>
  BY DEF Record
<1>2. seq \in Nat /\ seq' \in Nat /\ seq =< seq' /\ x \notin 1..seq /\ x \in 1..seq'
  BY <1>1 DEF EdgeInv, EdgeTypeOK
<1>3. record[x] = None /\ orig[x] = 0 /\ report[x] = None
  BY <1>1, <1>2 DEF EdgeInv, Known
<1>4. CASE Duplicate(o, client)
  <2>1. UNCHANGED <<vars, record, report, pc, req, holder, hook>>
    BY <1>4 DEF Record
  <2> QED
    BY <1>2, <2>1, LedgerAlone
<1>5. CASE ~Duplicate(o, client)
  <2>1. /\ pc' = [pc EXCEPT ![t] = to] /\ req' = [req EXCEPT ![t] = o]
        /\ record' = [record EXCEPT ![x] = rec]
    BY <1>5 DEF Record
  <2>2. /\ to \in Places /\ to \in Unannounced
        /\ to \notin {"cancelling", "placing", "mark", "cancel", "missed", "release"}
    BY DEF Places, Entering, Unannounced
  <2>3. rec \in Rec /\ rec.status = "NEW" /\ rec.kind = o.kind /\ rec.orig = o.vol
        /\ rec.executed = 0 /\ rec.client = ClientName(o, client)
    <3>1. ClientName(o, client) \in Clients \cup EdgeIds
      BY <1>1 DEF ClientName
    <3>2. o.side \in Sides /\ o.kind \in Kinds /\ o.price \in Prices \cup {0} /\ o.vol \in Volumes
      BY DEF Order
    <3> QED
      BY <3>1, <3>2 DEF Rec, Statuses, Working
  <2>4. record \in [EdgeIds -> Rec \cup {None}] /\ report \in [EdgeIds -> Rep \cup {None}]
        /\ pc'[t] = to /\ req'[t] = o
    BY <2>1 DEF EdgeInv, EdgeTypeOK
  <2> HIDE DEF rec, to
  <2>5. record' \in [EdgeIds -> Rec \cup {None}] /\ record'[x] = rec
        /\ \A id \in EdgeIds \ {x} : record'[id] = record[id] /\ report'[id] = report[id]
    BY <1>1, <2>1, <2>3, <2>4
  <2>6. rec # None
    BY <2>3 DEF None
  <2>7. OnItsWay(t)'
    BY <1>1, <1>3, <2>2, <2>3, <2>4, <2>5 DEF OnItsWay, vars, bookVars, Entering
  <2>8. InTheBook(t)'
    BY <2>2, <2>4 DEF InTheBook, Cancelling
  <2>9. \A u \in Threads \ {t} : pc[u] \in Entering => req[u].id # x
    <3>1. ASSUME NEW u \in Threads, pc[u] \in Entering PROVE record[req[u].id] \in Rec
      BY <3>1 DEF EdgeInv, OnItsWay
    <3>2. record[x] \notin Rec
      BY <1>3 DEF Rec, None
    <3> QED
      BY <3>1, <3>2
  <2>10. /\ told'[x] = 0 /\ dropped'[x] = 0 /\ orig'[x] = 0 /\ Ahead(1, x)' = 0
    BY <1>1, <1>3, Unused DEF vars, bookVars, Ahead
  <2>11. Known(x)' /\ ReportFollows(x)'
    BY <1>1, <1>2, <1>3, <2>10 DEF Known, ReportFollows
  <2>12. RecordFollows(x)'
    <3>1. rec.orig \in Nat /\ rec.orig # 0
      BY <2>3, BookAssumption DEF Order, BookAssumption
    <3> QED
      BY <2>3, <2>5, <2>10, <3>1 DEF RecordFollows
  <2>13. ClientIdsUnique'
    <3>1. \A id \in EdgeIds : record[id] # None => record[id].client # rec.client
      BY <1>5, <2>3 DEF Duplicate, Recorders, Recorded
    <3> QED
      BY <1>1, <2>5, <3>1 DEF ClientIdsUnique, Recorders, Recorded, EdgeInv
  <2> HIDE DEF x
  <2>14. o.id = x
    BY DEF x
  <2> QED
    BY <1>1, <1>2, <1>3, <2>1, <2>2, <2>4, <2>5, <2>7, <2>8, <2>9, <2>11, <2>12, <2>13, <2>14,
       EntryMoves
<1> QED
  BY <1>4, <1>5

(* registry.Remove: only an order the book has not seen is removed.          *)
LEMMA RemoveKeeps ==
    ASSUME EdgeInv, NEW t \in Threads, Remove(t)
    PROVE  EdgeInv' /\ orig[req[t].id] = 0
<1>0. PICK x : x = req[t].id
  OBVIOUS
<1>1. PICK to \in {"idle", "release"} :
         /\ pc[t] \in {"unfunded", "refused"} /\ pc' = [pc EXCEPT ![t] = to]
         /\ req' = [req EXCEPT ![t] = IF to = "idle" THEN NoOrder ELSE @]
  BY DEF Remove, Goto
<1>2. record' = [record EXCEPT ![x] = None] /\ UNCHANGED <<vars, seq, holder, hook, report>>
  BY <1>0 DEF Remove
<1>3. pc[t] \in Entering /\ pc[t] # "cancelling"
  BY <1>1 DEF Entering, Unannounced
<1>4. req[t] \in Order(Volumes) /\ x \in EdgeIds /\ orig[x] = 0
  BY <1>0, <1>3 DEF EdgeInv, OnItsWay
<1>5. record \in [EdgeIds -> Rec \cup {None}] /\ report \in [EdgeIds -> Rep \cup {None}]
      /\ pc'[t] = to /\ req'[t] = (IF to = "idle" THEN NoOrder ELSE req[t])
      /\ seq \in Nat /\ seq' = seq
  BY <1>1, <1>2 DEF EdgeInv, EdgeTypeOK
<1>6. record' \in [EdgeIds -> Rec \cup {None}] /\ record'[x] = None
      /\ \A id \in EdgeIds \ {x} : record'[id] = record[id] /\ report'[id] = report[id]
  BY <1>2, <1>4, <1>5
<1>7. OnItsWay(t)' /\ InTheBook(t)'
  BY <1>0, <1>4, <1>5 DEF OnItsWay, InTheBook, Entering, Unannounced, Cancelling
<1>8. \A u \in Threads \ {t} : pc[u] \in Entering => req[u].id # x
  BY <1>0, <1>3 DEF EdgeInv, Apart
<1>9. RecordFollows(x)' /\ ReportFollows(x)'
  BY <1>6 DEF RecordFollows, ReportFollows
<1>10. Known(x)'
  BY <1>2, <1>4, <1>5, <1>6 DEF Known, EdgeInv, vars, bookVars
<1>11. ClientIdsUnique'
  BY <1>4, <1>6 DEF ClientIdsUnique, Recorders, Recorded, EdgeInv
<1>12. to \in Places /\ to \notin Entering /\ to # "cancelling"
  BY DEF Places, Entering, Unannounced
<1>13. PICK r : req' = [req EXCEPT ![t] = r]
  BY <1>1
<1>14. report' \in [EdgeIds -> Rep \cup {None}] /\ seq' \in Nat /\ seq =< seq'
  BY <1>2, <1>5
<1>15. EdgeInv'
  BY <1>1, <1>2, <1>3, <1>4, <1>5, <1>6, <1>7, <1>8, <1>9, <1>10, <1>11, <1>12, <1>13,
     <1>14, EntryMoves
<1> QED
  BY <1>0, <1>4, <1>15

(* emitExecutionReport(NEW): the first report of an order, before any trade. *)
LEMMA AnnounceKeeps ==
    ASSUME EdgeInv, NEW t \in Threads, Announce(t)
    PROVE  /\ EdgeInv'
           /\ req[t].id \in EdgeIds /\ report[req[t].id] = None
           /\ record[req[t].id] \in Rec /\ orig[req[t].id] = 0
           /\ report' = [report EXCEPT ![req[t].id] = [exec |-> "NEW", status |-> "NEW", cum |-> 0]]
<1>0. PICK x : x = req[t].id
  OBVIOUS
<1> DEFINE rep == [exec |-> "NEW", status |-> "NEW", cum |-> 0]
<1>1. PICK to \in {"book", "refused"} :
         pc[t] = "announce" /\ pc' = [pc EXCEPT ![t] = to] /\ req' = [req EXCEPT ![t] = @]
  BY DEF Announce, Goto
<1>2. UNCHANGED <<vars, seq, holder, hook, record>>
  BY DEF Announce
<1>3. pc[t] \in Entering /\ pc[t] # "cancelling" /\ pc[t] \in Unannounced
  BY <1>1 DEF Entering, Unannounced
<1>4. /\ req[t] \in Order(Volumes) /\ x \in EdgeIds /\ orig[x] = 0 /\ report[x] = None
      /\ record[x] \in Rec /\ record[x].status = "NEW"
      /\ record[x].kind = req[t].kind /\ record[x].orig = req[t].vol
  BY <1>0, <1>3 DEF EdgeInv, OnItsWay
<1>5. /\ told[x] = 0 /\ dropped[x] = 0 /\ Ahead(1, x) = 0 /\ Ahead(2, x) = 0
  BY <1>4, Unused
<1>6. record[x] # None
  BY <1>4 DEF None
<1>7. record[x].executed = 0
  BY <1>4, <1>5, <1>6 DEF EdgeInv, RecordFollows
<1>8. report' = [report EXCEPT ![x] = rep]
  BY <1>0, <1>4, <1>7 DEF Announce
<1>9. record \in [EdgeIds -> Rec \cup {None}] /\ report \in [EdgeIds -> Rep \cup {None}]
      /\ pc'[t] = to /\ req'[t] = req[t] /\ seq \in Nat /\ seq' = seq
  BY <1>1, <1>2 DEF EdgeInv, EdgeTypeOK
<1>10. rep \in Rep /\ rep # None /\ rep.cum = 0 /\ rep.status = "NEW"
  BY DEF Rep, None, Statuses, Working
<1> HIDE DEF rep
<1>11. report' \in [EdgeIds -> Rep \cup {None}] /\ report'[x] = rep
       /\ \A id \in EdgeIds \ {x} : record'[id] = record[id] /\ report'[id] = report[id]
  BY <1>2, <1>4, <1>8, <1>9, <1>10
<1>12. OnItsWay(t)'
  BY <1>0, <1>2, <1>4, <1>9, <1>10, <1>11 DEF OnItsWay, Entering, Unannounced, vars, bookVars
<1>13. InTheBook(t)'
  BY <1>9 DEF InTheBook, Cancelling
<1>14. \A u \in Threads \ {t} : pc[u] \in Entering => req[u].id # x
  BY <1>0, <1>3 DEF EdgeInv, Apart
<1>15. RecordFollows(x)'
  <2>1. BeingCancelled(x)' <=> BeingCancelled(x)
    BY <1>1, <1>4, <1>9, Unused DEF BeingCancelled, EdgeInv, EdgeTypeOK
  <2>2. Ahead(1, x)' = Ahead(1, x)
    BY <1>2 DEF Ahead, vars, bookVars
  <2> QED
    BY <1>2, <1>4, <2>1, <2>2 DEF RecordFollows, EdgeInv, vars, bookVars
<1>16. ReportFollows(x)'
  <2>1. Ahead(2, x)' = Ahead(2, x) /\ told' = told
    BY <1>2 DEF Ahead, vars, bookVars
  <2>2. record[x].orig \in Nat /\ record[x].orig # 0
    BY <1>4, BookAssumption DEF Rec, BookAssumption
  <2> QED
    BY <1>2, <1>5, <1>10, <1>11, <2>1, <2>2 DEF ReportFollows
<1>17. Known(x)'
  BY <1>2, <1>4, <1>6, <1>9 DEF Known, EdgeInv, vars, bookVars
<1>18. ClientIdsUnique'
  BY <1>2 DEF ClientIdsUnique, Recorders, Recorded, EdgeInv
<1>19. to \in Places /\ to # "cancelling"
  BY DEF Places, Entering
<1>20. PICK r : req' = [req EXCEPT ![t] = r] /\ r.id = x
  BY <1>0, <1>1
<1>21. record' \in [EdgeIds -> Rec \cup {None}] /\ seq' \in Nat /\ seq =< seq'
  BY <1>2, <1>9
<1>22. EdgeInv'
  BY <1>1, <1>2, <1>3, <1>4, <1>9, <1>11, <1>12, <1>13, <1>14, <1>15, <1>16, <1>17, <1>18, <1>19,
     <1>20, <1>21, EntryMoves
<1> QED
  BY <1>0, <1>4, <1>8, <1>22 DEF rep

-----------------------------------------------------------------------------
(* The steps of the book.                                                    *)

(* As OrderFrame, when the book may have made progress that is not about the *)
(* order.                                                                    *)
LEMMA OrderSame ==
    ASSUME NEW id \in EdgeIds, Known(id), RecordFollows(id), ReportFollows(id), seq' = seq,
           record'[id] = record[id], report'[id] = report[id], orig'[id] = orig[id],
           told'[id] = told[id], dropped'[id] = dropped[id],
           Ahead(1, id)' = Ahead(1, id), Ahead(2, id)' = Ahead(2, id),
           BeingCancelled(id)' <=> BeingCancelled(id), BeingCancelled(id) => hook' = hook
    PROVE  Known(id)' /\ RecordFollows(id)' /\ ReportFollows(id)'
<1>1. Known(id)'
  BY DEF Known
<1>2. RecordFollows(id)'
  BY DEF RecordFollows
<1>3. ReportFollows(id)'
  BY DEF ReportFollows
<1> QED
  BY <1>1, <1>2, <1>3

(* As HandlerFrame, for a handler that is not in the book.                   *)
LEMMA OutsideFrame ==
    ASSUME NEW u \in Threads, OnItsWay(u), InTheBook(u), pc[u] \notin {"placing", "cancelling"},
           pc'[u] = pc[u], req'[u] = req[u],
           NEW id, id = req[u].id,
           record'[id] = record[id], report'[id] = report[id],
           pc[u] \in Entering => orig'[id] = orig[id]
    PROVE  OnItsWay(u)' /\ InTheBook(u)'
<1>1. OnItsWay(u)'
  BY DEF OnItsWay
<1>2. InTheBook(u)'
  BY DEF InTheBook
<1> QED
  BY <1>1, <1>2

(* While the instrument is free no handler is in it and no hook is due.      *)
LEMMA FreeBook ==
    ASSUME EdgeInv, phase = "free"
    PROVE  /\ trades = <<>> /\ hook = 1
           /\ \A u \in Threads : pc[u] \notin {"placing", "cancelling"}
           /\ \A id : ~BeingCancelled(id) /\ Ahead(1, id) = 0 /\ Ahead(2, id) = 0
<1>1. trades = <<>>
  BY DEF EdgeInv, AccountInv, ToldAll
<1>2. hook = 1
  BY DEF EdgeInv, HooksInTurn
<1>3. \A u \in Threads : pc[u] \notin {"placing", "cancelling"}
  BY DEF EdgeInv, InTheBook
<1> QED
  BY <1>1, <1>2, <1>3 DEF BeingCancelled, Ahead

(* The emulator's goroutine takes the instrument, for an order or a cancel   *)
(* of its own: the registry and the stream have no part in it.               *)
LEMMA EmulatorKeeps ==
    ASSUME EdgeInv,
           \/ \E o \in Order(Volumes) : EmulatorPlaces(o)
           \/ \E id \in EmuIds : EmulatorCancels(id)
    PROVE  EdgeInv'
<1> DEFINE Alone ==
      /\ phase = "free" /\ phase' # "free" /\ trades' = trades /\ told' = told
      /\ UNCHANGED <<seq, record, bal, debits, pc, req, hook, report>>
      /\ AccountInv'
      /\ \A id \in EdgeIds : orig'[id] = orig[id] /\ dropped'[id] = dropped[id]
      /\ phase' = "match" => taker'.id \notin EdgeIds
<1>1. Alone
  <2>1. ASSUME NEW o \in Order(Volumes), EmulatorPlaces(o) PROVE Alone
    <3>1. Submit(o) /\ o.id \in EmuIds /\ UNCHANGED <<seq, record, bal, debits, pc, req, hook, report>>
      BY <2>1 DEF EmulatorPlaces
    <3>2. AccountInv'
      BY <3>1, AccountStep DEF EdgeInv, Next
    <3>3. o.id \notin EdgeIds
      BY <3>1, EdgeAssumption DEF EdgeAssumption
    <3>4. orig \in [Ids -> Nat] /\ EdgeIds \subseteq Ids
      BY EdgeAssumption DEF EdgeAssumption, EdgeInv, AccountInv, BookInv, TypeOK
    <3> QED
      BY <3>1, <3>2, <3>3, <3>4 DEF Submit
  <2>2. ASSUME NEW x \in EmuIds, EmulatorCancels(x) PROVE Alone
    <3>1. CancelOrder(x) /\ UNCHANGED <<seq, record, bal, debits, pc, req, hook, report>>
      BY <2>2 DEF EmulatorCancels
    <3>2. x \in Ids /\ x \notin EdgeIds /\ EdgeIds \subseteq Ids
      BY <2>2, EdgeAssumption DEF EdgeAssumption
    <3>3. AccountInv'
      BY <3>1, <3>2, AccountStep DEF EdgeInv, Next
    <3>4. \A id \in Ids \ {x} : dropped'[id] = dropped[id]
      BY <3>1, <3>2, CancelMoves, BookAssumption DEF EdgeInv, AccountInv
    <3>5. phase = "free" /\ phase' = "fire" /\ UNCHANGED <<trades, told, orig>>
      BY <3>1 DEF CancelOrder
    <3>6. \A id \in EdgeIds : orig'[id] = orig[id] /\ dropped'[id] = dropped[id]
      BY <3>2, <3>4, <3>5
    <3>7. phase' # "free" /\ (phase' = "match" => taker'.id \notin EdgeIds)
      BY <3>5
    <3> QED
      BY ONLY <3>1, <3>3, <3>5, <3>6, <3>7
  <2> HIDE DEF Alone
  <2> QED
    BY <2>1, <2>2
<1>2. /\ trades = <<>> /\ hook = 1
      /\ \A u \in Threads : pc[u] \notin {"placing", "cancelling"}
  BY <1>1, FreeBook
<1>3. EdgeTypeOK' /\ Apart' /\ ClientIdsUnique'
  BY <1>1 DEF EdgeInv, EdgeTypeOK, Apart, ClientIdsUnique, Recorders, Recorded
<1>4. HooksInTurn' /\ TakerKind'
  BY <1>1, <1>2 DEF HooksInTurn, TakerKind
<1>5. \A u \in Threads : OnItsWay(u)' /\ InTheBook(u)'
  <2>1. ASSUME NEW u \in Threads PROVE OnItsWay(u)' /\ InTheBook(u)'
    <3>1. OnItsWay(u) /\ InTheBook(u)
      BY DEF EdgeInv
    <3>2. pc[u] \in Entering => orig'[req[u].id] = orig[req[u].id]
      BY <1>1, <3>1 DEF OnItsWay
    <3> QED
      BY <1>1, <1>2, <3>1, <3>2, OutsideFrame
  <2> QED
    BY <2>1
<1>6. \A id \in EdgeIds : Known(id)' /\ RecordFollows(id)' /\ ReportFollows(id)'
  <2>1. ASSUME NEW id \in EdgeIds PROVE Known(id)' /\ RecordFollows(id)' /\ ReportFollows(id)'
    <3>1. Known(id) /\ RecordFollows(id) /\ ReportFollows(id)
      BY DEF EdgeInv
    <3>2. /\ BeingCancelled(id)' <=> BeingCancelled(id)
          /\ Ahead(1, id)' = Ahead(1, id) /\ Ahead(2, id)' = Ahead(2, id)
      BY <1>1 DEF BeingCancelled, Ahead
    <3> QED
      BY <1>1, <3>1, <3>2, OrderSame
  <2> QED
    BY <2>1
<1> QED
  BY <1>1, <1>3, <1>4, <1>5, <1>6 DEF EdgeInv

(* engine.PlaceLimit enters the book: the order was recorded and announced,  *)
(* and its volume is the one the registry has.                               *)
LEMMA EnterKeeps ==
    ASSUME EdgeInv, NEW t \in Threads, EnterBook(t)
    PROVE  EdgeInv'
<1>1. PICK o : o = req[t]
  OBVIOUS
<1>2. PICK x : x = o.id
  OBVIOUS
<1>3. /\ pc[t] = "book" /\ pc' = [pc EXCEPT ![t] = "placing"] /\ req' = [req EXCEPT ![t] = @]
      /\ Submit(o) /\ holder' = t /\ UNCHANGED <<seq, record, hook, report>>
  BY <1>1 DEF EnterBook, Goto
<1>4. pc[t] \in Entering /\ pc[t] \notin Unannounced
  BY <1>3 DEF Entering, Unannounced
<1>5. /\ o \in Order(Volumes) /\ x \in EdgeIds /\ orig[x] = 0 /\ report[x] # None
      /\ record[x] \in Rec /\ record[x].status = "NEW"
      /\ record[x].kind = o.kind /\ record[x].orig = o.vol
  BY <1>1, <1>2, <1>4 DEF EdgeInv, OnItsWay
<1>6. AccountInv'
  BY <1>3, <1>5, AccountStep DEF EdgeInv, Next
<1>7. /\ phase = "free" /\ phase' = "match" /\ taker' = o
      /\ UNCHANGED <<trades, told, dropped>>
      /\ orig' = [orig EXCEPT ![x] = o.vol]
  BY <1>2, <1>3 DEF Submit
<1>8. /\ trades = <<>> /\ hook = 1
      /\ \A u \in Threads : pc[u] \notin {"placing", "cancelling"}
      /\ \A id : ~BeingCancelled(id) /\ Ahead(1, id) = 0 /\ Ahead(2, id) = 0
  BY <1>7, FreeBook
<1>9. orig'[x] = o.vol /\ o.vol # 0 /\ \A id \in EdgeIds \ {x} : orig'[id] = orig[id]
  <2>1. orig \in [Ids -> Nat] /\ EdgeIds \subseteq Ids
    BY EdgeAssumption DEF EdgeAssumption, EdgeInv, AccountInv, BookInv, TypeOK
  <2>2. o.vol # 0
    BY <1>5, BookAssumption DEF Order, BookAssumption
  <2> QED
    BY <1>5, <1>7, <2>1, <2>2
<1>10. EdgeTypeOK'
  BY <1>3 DEF EdgeInv, EdgeTypeOK
<1>11. /\ pc'[t] = "placing" /\ req'[t] = o
       /\ \A u \in Threads \ {t} : pc'[u] = pc[u] /\ req'[u] = req[u]
  BY <1>1, <1>3, <1>10 DEF EdgeInv, EdgeTypeOK
<1>12. Apart'
  BY <1>11 DEF EdgeInv, Apart, Entering, Unannounced
<1>13. HooksInTurn' /\ ClientIdsUnique'
  BY <1>3, <1>8 DEF EdgeInv, HooksInTurn, ClientIdsUnique, Recorders, Recorded
<1>14. TakerKind'
  BY <1>2, <1>3, <1>5, <1>7 DEF TakerKind
<1>15. OnItsWay(t)' /\ InTheBook(t)'
  BY <1>3, <1>7, <1>11 DEF OnItsWay, InTheBook, Entering, Unannounced, Cancelling
<1>16. ASSUME NEW u \in Threads, u # t PROVE OnItsWay(u)' /\ InTheBook(u)'
  <2>1. OnItsWay(u) /\ InTheBook(u)
    BY DEF EdgeInv
  <2>2. pc[u] \in Entering => req[u].id \in EdgeIds \ {x}
    BY <1>1, <1>2, <1>4, <1>16, <2>1 DEF EdgeInv, Apart, OnItsWay
  <2>3. pc[u] \in Entering => orig'[req[u].id] = orig[req[u].id]
    BY <1>9, <2>2
  <2>4. pc'[u] = pc[u] /\ req'[u] = req[u] /\ pc[u] \notin {"placing", "cancelling"}
    BY <1>8, <1>11, <1>16
  <2> QED
    BY <1>3, <2>1, <2>3, <2>4, OutsideFrame
<1>17. ASSUME NEW id \in EdgeIds PROVE Known(id)' /\ RecordFollows(id)' /\ ReportFollows(id)'
  <2>1. Known(id) /\ RecordFollows(id) /\ ReportFollows(id)
    BY DEF EdgeInv
  <2>2. /\ ~BeingCancelled(id)' /\ Ahead(1, id)' = 0 /\ Ahead(2, id)' = 0
        /\ ~BeingCancelled(id) /\ Ahead(1, id) = 0 /\ Ahead(2, id) = 0
    BY <1>3, <1>7, <1>8, <1>11 DEF BeingCancelled, Ahead
  <2>3. CASE id # x
    BY <1>3, <1>7, <1>9, <2>1, <2>2, <2>3, OrderSame
  <2>4. CASE id = x
    <3>1. record[x] # None /\ dropped[x] = 0
      BY <1>5, Unused DEF None
    <3>2. Known(x)'
      BY <1>3, <1>5, <1>9, <2>1, <2>4, <3>1 DEF Known
    <3>3. RecordFollows(x)'
      BY <1>3, <1>5, <1>7, <1>9, <2>1, <2>2, <2>4, <3>1 DEF RecordFollows
    <3>4. ReportFollows(x)'
      BY <1>3, <1>5, <1>7, <2>1, <2>2, <2>4 DEF ReportFollows
    <3> QED
      BY <2>4, <3>2, <3>3, <3>4
  <2> QED
    BY <2>3, <2>4
<1> QED
  BY <1>6, <1>10, <1>12, <1>13, <1>14, <1>15, <1>16, <1>17 DEF EdgeInv

(* CancelOrder found the order: what was told and what was taken out make up *)
(* the whole of it, and the hooks are still to be called.                    *)
LEMMA CancelInKeeps ==
    ASSUME EdgeInv, NEW t \in Threads, CancelInBook(t)
    PROVE  EdgeInv'
<1>1. PICK x : x = req[t].id
  OBVIOUS
<1>2. /\ pc[t] = "cancel" /\ pc' = [pc EXCEPT ![t] = "cancelling"] /\ req' = [req EXCEPT ![t] = @]
      /\ CancelOrder(x) /\ holder' = t /\ UNCHANGED <<seq, record, hook, report>>
  BY <1>1 DEF CancelInBook, Goto
<1>3. x \in EdgeIds /\ EdgeIds \subseteq Ids
  BY <1>1, <1>2, EdgeAssumption DEF EdgeAssumption, EdgeInv, InTheBook, Cancelling
<1>4. AccountInv /\ AccountInv'
  BY <1>2, <1>3, AccountStep DEF EdgeInv, Next
<1>5. phase = "free" /\ phase' = "fire" /\ UNCHANGED <<trades, told, orig>>
  BY <1>2 DEF CancelOrder
<1>6. /\ trades = <<>> /\ hook = 1
      /\ \A u \in Threads : pc[u] \notin {"placing", "cancelling"}
      /\ \A id : ~BeingCancelled(id) /\ Ahead(1, id) = 0 /\ Ahead(2, id) = 0
  BY <1>5, FreeBook
<1>7. /\ dropped'[x] > dropped[x] /\ AtRest(x)' = 0 /\ orig[x] > 0 /\ InHand(x)' = 0
      /\ \A id \in EdgeIds \ {x} : dropped'[id] = dropped[id]
  BY <1>2, <1>3, <1>4, CancelMoves, BookAssumption DEF AccountInv
<1>8. /\ orig[x] \in Nat /\ told[x] \in Nat /\ dropped[x] \in Nat /\ dropped'[x] \in Nat
      /\ told'[x] + dropped'[x] = orig'[x]
  <2>1. /\ told[x] \in Nat /\ dropped[x] \in Nat /\ orig[x] \in Nat
        /\ orig[x] = told[x] + dropped[x] + InHand(x) + AtRest(x)
    BY <1>3, <1>4, <1>6, Bound
  <2>2. /\ AtRest(x) \in Nat /\ InHand(x) = 0 /\ dropped'[x] + AtRest(x)' = dropped[x] + AtRest(x)
        /\ dropped' \in [Ids -> Nat]
    BY <1>2, <1>3, <1>4, CancelMoves, BookAssumption DEF AccountInv
  <2>3. dropped'[x] \in Nat
    BY <1>3, <2>2
  <2> QED
    BY <1>5, <1>7, <2>1, <2>2, <2>3
<1>9. EdgeTypeOK'
  BY <1>2 DEF EdgeInv, EdgeTypeOK, Cancelling
<1>10. /\ pc'[t] = "cancelling" /\ req'[t] = req[t]
       /\ \A u \in Threads \ {t} : pc'[u] = pc[u] /\ req'[u] = req[u]
  BY <1>2, <1>9 DEF EdgeInv, EdgeTypeOK
<1>11. Apart'
  BY <1>10 DEF EdgeInv, Apart, Entering, Unannounced
<1>12. HooksInTurn' /\ ClientIdsUnique' /\ TakerKind'
  BY <1>2, <1>5, <1>6 DEF EdgeInv, HooksInTurn, TakerKind, ClientIdsUnique, Recorders, Recorded
<1>13. OnItsWay(t)'
  BY <1>10 DEF OnItsWay, Entering, Unannounced
<1>14. InTheBook(t)'
  BY <1>1, <1>2, <1>3, <1>5, <1>6, <1>7, <1>8, <1>10 DEF InTheBook, Cancelling
<1>15. ASSUME NEW u \in Threads, u # t PROVE OnItsWay(u)' /\ InTheBook(u)'
  <2>1. OnItsWay(u) /\ InTheBook(u)
    BY DEF EdgeInv
  <2>2. pc'[u] = pc[u] /\ req'[u] = req[u] /\ pc[u] \notin {"placing", "cancelling"}
    BY <1>6, <1>10, <1>15
  <2> QED
    BY <1>2, <1>5, <2>1, <2>2, OutsideFrame
<1>16. ASSUME NEW id \in EdgeIds PROVE Known(id)' /\ RecordFollows(id)' /\ ReportFollows(id)'
  <2>1. Known(id) /\ RecordFollows(id) /\ ReportFollows(id)
    BY DEF EdgeInv
  <2>2. /\ BeingCancelled(id)' <=> id = x
        /\ Ahead(1, id)' = 0 /\ Ahead(2, id)' = 0
        /\ ~BeingCancelled(id) /\ Ahead(1, id) = 0 /\ Ahead(2, id) = 0
    BY <1>1, <1>2, <1>5, <1>6, <1>10 DEF BeingCancelled, Ahead
  <2>3. CASE id # x
    BY <1>2, <1>5, <1>7, <2>1, <2>2, <2>3, OrderSame
  <2>4. CASE id = x
    <3>1. Known(x)'
      BY <1>2, <1>5, <2>1, <2>4 DEF Known
    <3>2. record[x] # None => record[x].status # "CANCELED"
      BY <1>5, <1>7, <1>8, <2>1, <2>4 DEF RecordFollows
    <3>3. RecordFollows(x)'
      BY <1>2, <1>5, <1>6, <2>1, <2>2, <2>4, <3>2 DEF RecordFollows
    <3>4. ReportFollows(x)'
      BY <1>2, <1>5, <2>1, <2>2, <2>4, <3>2 DEF ReportFollows
    <3> QED
      BY <2>4, <3>1, <3>3, <3>4
  <2> QED
    BY <2>3, <2>4
<1> QED
  BY <1>4, <1>9, <1>11, <1>12, <1>13, <1>14, <1>15, <1>16 DEF EdgeInv

(* The matching loop and what follows it: no hook is called yet.  Only the   *)
(* rest of an order that is not a limit order is discarded.                  *)
LEMMA BookStepKeeps ==
    ASSUME EdgeInv, BookStep
    PROVE  EdgeInv'
<1>1. /\ phase = "match" /\ phase' # "free" /\ UNCHANGED <<told, orig>>
      /\ UNCHANGED edgeVars
  BY DEF BookStep, MatchOne, EnqueueLocked, Discard
<1>2. AccountInv /\ AccountInv' /\ taker \in Order(Nat) /\ hook = 1
  BY <1>1, AccountStep DEF EdgeInv, BookStep, Next, AccountInv, BookInv, TypeOK, HooksInTurn
<1>3. EdgeTypeOK' /\ Apart' /\ ClientIdsUnique'
  BY <1>1 DEF edgeVars, EdgeInv, EdgeTypeOK, Apart, ClientIdsUnique, Recorders, Recorded
<1>4. HooksInTurn'
  BY <1>1, <1>2 DEF edgeVars, HooksInTurn
<1>5. TakerKind'
  <2>1. CASE MatchOne
    <3>1. taker'.id = taker.id /\ taker'.kind = taker.kind
      BY <1>2, <2>1 DEF MatchOne, Order
    <3> QED
      BY <1>1, <3>1 DEF edgeVars, EdgeInv, TakerKind
  <2>2. CASE EnqueueLocked \/ Discard
    BY <2>2 DEF EnqueueLocked, Discard, TakerKind
  <2> QED
    BY <2>1, <2>2 DEF BookStep
<1>6. ASSUME NEW u \in Threads PROVE OnItsWay(u)' /\ InTheBook(u)'
  <2>1. OnItsWay(u) /\ InTheBook(u)
    BY DEF EdgeInv
  <2>2. OnItsWay(u)'
    BY <1>1, <2>1 DEF OnItsWay, edgeVars
  <2>3. InTheBook(u)'
    BY <1>1, <2>1 DEF InTheBook, edgeVars
  <2> QED
    BY <2>2, <2>3
<1>7. ASSUME NEW id \in EdgeIds PROVE Known(id)' /\ RecordFollows(id)' /\ ReportFollows(id)'
  <2>1. Known(id) /\ RecordFollows(id) /\ ReportFollows(id)
    BY DEF EdgeInv
  <2>2. id \in Ids /\ dropped \in [Ids -> Nat]
    BY EdgeAssumption DEF EdgeAssumption, EdgeInv, AccountInv, BookInv, TypeOK
  <2>3. /\ BeingCancelled(id)' <=> BeingCancelled(id)
        /\ Ahead(1, id)' = Ahead(1, id) /\ Ahead(2, id)' = Ahead(2, id)
        /\ record'[id] = record[id] /\ report'[id] = report[id] /\ seq' = seq /\ hook' = hook
    BY <1>1, <1>2 DEF edgeVars, BeingCancelled, Ahead
  <2>4. CASE dropped'[id] = dropped[id]
    BY <1>1, <2>1, <2>3, <2>4, OrderSame
  <2>5. CASE dropped'[id] # dropped[id]
    <3>1. Discard
      BY <2>5 DEF BookStep, MatchOne, EnqueueLocked
    <3>2. /\ id = taker.id /\ dropped'[id] = dropped[id] + taker.vol
          /\ ~(taker.vol > 0 /\ taker.kind = "limit")
      BY <2>2, <2>5, <3>1 DEF Discard
    <3>3. taker.vol \in Nat /\ taker.vol # 0
      BY <1>2, <2>2, <2>5, <3>2 DEF Order
    <3>4. record[id].kind # "limit"
      BY <1>1, <3>2, <3>3 DEF EdgeInv, TakerKind
    <3>5. told[id] + dropped[id] # orig[id]
      <4> DEFINE o == orig[id]
                 to == told[id]
                 dr == dropped[id]
                 h == InHand(id)
                 r == AtRest(id)
                 f == FirstDue(id)
      <4>1. /\ o \in Nat /\ to \in Nat /\ dr \in Nat /\ h \in Nat /\ r \in Nat /\ f \in Nat
            /\ to + dr + f + h + r =< o
        BY <1>2, <2>2, Bound
      <4>2. h # 0
        BY <1>1, <3>2, <3>3 DEF InHand
      <4> HIDE DEF o, to, dr, h, r, f
      <4>3. to + dr # o
        BY ONLY <4>1, <4>2
      <4> QED
        BY <4>3 DEF to, dr, o
    <3>6. record[id] # None => record[id].status # "CANCELED"
      BY <2>1, <3>5 DEF RecordFollows
    <3>7. Known(id)'
      BY <1>1, <2>1, <2>3 DEF Known
    <3>8. RecordFollows(id)'
      BY <1>1, <2>1, <2>3, <3>4, <3>6 DEF RecordFollows
    <3>9. ReportFollows(id)'
      BY <1>1, <2>1, <2>3, <3>6 DEF ReportFollows
    <3> QED
      BY <3>7, <3>8, <3>9
  <2> QED
    BY <2>4, <2>5
<1> QED
  BY <1>2, <1>3, <1>4, <1>5, <1>6, <1>7 DEF EdgeInv

-----------------------------------------------------------------------------
(* The hooks. *)

(* What the hooks are called with: either the first pending trade, and then  *)
(* nothing is being cancelled and it executes only orders that are not       *)
(* finished; or a cancel, and then no trade is pending.                      *)
LEMMA HookEvent ==
    ASSUME EdgeInv, NEW id \in EdgeIds
    PROVE  /\ Executed(Fired, id) \in Nat \/ trades = <<>>
           /\ trades # <<>> =>
                /\ ~CancelFired /\ CancelledId = 0 /\ ~BeingCancelled(id)
                /\ Executed(Fired, id) = FirstDue(id)
                /\ id \in {Fired.buy, Fired.sell} => FirstDue(id) = Fired.vol /\ Fired.vol > 0
                /\ id \notin {Fired.buy, Fired.sell} => FirstDue(id) = 0
           /\ trades = <<>> => Fired.buy = 0 /\ Fired.sell = 0 /\ FirstDue(id) = 0
           /\ record[id] # None => id # 0
           /\ FirstDue(id) \in Nat /\ told[id] \in Nat /\ orig[id] \in Nat /\ dropped[id] \in Nat
           /\ told[id] + dropped[id] + FirstDue(id) =< orig[id]
<1>1. /\ id \in Ids /\ AccountInv /\ trades \in Seq(Trade) /\ seq \in Nat
      /\ (\A u \in Threads : InTheBook(u)) /\ Known(id)
  BY EdgeAssumption DEF EdgeAssumption, EdgeInv, AccountInv, BookInv, TypeOK, EdgeTypeOK
<1>2. record[id] # None => id # 0
  BY <1>1 DEF Known
<1>3. /\ FirstDue(id) \in Nat /\ told[id] \in Nat /\ orig[id] \in Nat /\ dropped[id] \in Nat
      /\ told[id] + dropped[id] + FirstDue(id) =< orig[id]
  <2> DEFINE o == orig[id]
             to == told[id]
             dr == dropped[id]
             h == InHand(id)
             r == AtRest(id)
             f == FirstDue(id)
  <2>1. /\ o \in Nat /\ to \in Nat /\ dr \in Nat /\ h \in Nat /\ r \in Nat /\ f \in Nat
        /\ to + dr + f + h + r =< o
    BY <1>1, Bound
  <2> HIDE DEF o, to, dr, h, r, f
  <2>2. to + dr + f =< o
    BY ONLY <2>1
  <2> QED
    BY <2>1, <2>2 DEF o, to, dr, f
<1>4. CASE trades # <<>>
  <2>1. trades[1] \in Trade /\ Fired = trades[1]
    BY <1>1, <1>4 DEF Fired
  <2>2. Executed(Fired, id) = FirstDue(id)
    BY <1>4, <2>1 DEF FirstDue
  <2>3. ~CancelFired /\ CancelledId = 0 /\ ~BeingCancelled(id)
    BY <1>1, <1>4 DEF CancelFired, CancelledId, BeingCancelled, InTheBook
  <2>4. Fired.vol \in Nat \ {0}
    BY <2>1 DEF Trade
  <2> QED
    BY <1>2, <1>3, <1>4, <2>2, <2>3, <2>4 DEF Executed
<1>5. CASE trades = <<>>
  <2>1. Fired.buy = 0 /\ Fired.sell = 0 /\ FirstDue(id) = 0
    BY <1>5 DEF Fired, FirstDue
  <2> QED
    BY <1>2, <1>3, <1>5, <2>1
<1> QED
  BY <1>4, <1>5

(* What Registry.OnTrade and Registry.OnCancel do to one record: a finished  *)
(* order is not touched, a trade adds what it executed, a cancel of an order *)
(* ends in CANCELED.                                                         *)
LEMMA RegistryWrites ==
    ASSUME EdgeInv, RegistryHook, NEW id \in EdgeIds
    PROVE  /\ record[id] = None => record'[id] = None
           /\ record[id] # None =>
                /\ record'[id] \in Rec
                /\ record'[id].client = record[id].client /\ record'[id].kind = record[id].kind
                /\ record'[id].orig = record[id].orig /\ record'[id].side = record[id].side
                /\ record'[id].price = record[id].price
                /\ record'[id].executed = record[id].executed + FirstDue(id)
                /\ record[id].status \in Terminal => record'[id] = record[id]
                /\ orig[id] = 0 => record'[id] = record[id]
                /\ record[id].status # "CANCELED" =>
                     (record'[id].status = "CANCELED" <=> BeingCancelled(id))
                /\ record'[id].status = "FILLED" <=> record'[id].executed = record'[id].orig
<1>1. /\ phase = "fire" /\ hook = 1
      /\ record'[id] = IF record[id] = None THEN None
                       ELSE IF id \in {Fired.buy, Fired.sell} THEN Filled(record[id], Fired.vol)
                       ELSE IF id = CancelledId /\ record[id].status # "FILLED"
                       THEN [record[id] EXCEPT !.status = "CANCELED"]
                       ELSE record[id]
  BY WhichHook DEF RegistryHook, EdgeInv, EdgeTypeOK
<1>2. CASE record[id] = None
  BY <1>1, <1>2
<1>3. CASE record[id] # None
  <2> DEFINE rec == record[id]
             new == record'[id]
  <2>1. rec \in Rec /\ RecordFollows(id) /\ Known(id)
    BY <1>3 DEF EdgeInv, EdgeTypeOK
  <2>2. /\ rec.executed \in Nat /\ rec.orig \in Nat /\ rec.orig # 0 /\ rec.status \in Statuses
    BY <2>1, BookAssumption DEF Rec, BookAssumption
  <2>3. rec.executed = told[id]
    BY <1>1, <1>3, <2>1, HookEvent DEF RecordFollows, Ahead
  <2>4. /\ rec.status = "FILLED" <=> rec.executed = rec.orig
        /\ rec.status = "CANCELED" => dropped[id] > 0 /\ told[id] + dropped[id] = orig[id]
        /\ orig[id] # 0 => rec.orig = orig[id]
        /\ orig[id] = 0 => rec.status = "NEW"
    BY <1>3, <2>1 DEF RecordFollows, Known
  <2>5. /\ FirstDue(id) \in Nat /\ told[id] \in Nat /\ orig[id] \in Nat /\ dropped[id] \in Nat
        /\ told[id] + dropped[id] + FirstDue(id) =< orig[id]
    BY HookEvent
  <2>6. CASE id \in {Fired.buy, Fired.sell}
    <3>1. trades # <<>> /\ FirstDue(id) = Fired.vol /\ Fired.vol > 0 /\ ~BeingCancelled(id)
      BY <1>3, <2>6, HookEvent
    <3>2. /\ orig[id] # 0 /\ rec.status # "CANCELED" /\ rec.status # "FILLED"
          /\ rec.executed + Fired.vol =< rec.orig
      BY <2>2, <2>3, <2>4, <2>5, <3>1
    <3>3. new = [rec EXCEPT !.executed = rec.executed + Fired.vol,
                   !.status = IF rec.executed + Fired.vol >= rec.orig THEN "FILLED"
                              ELSE "PARTIALLY_FILLED"]
      BY <1>1, <1>3, <2>6, <3>2 DEF Filled
    <3>4. /\ new.client = rec.client /\ new.kind = rec.kind /\ new.orig = rec.orig
          /\ new.side = rec.side /\ new.price = rec.price
          /\ new.executed = rec.executed + Fired.vol /\ new.executed \in Nat
          /\ new.status = IF rec.executed + Fired.vol >= rec.orig THEN "FILLED"
                          ELSE "PARTIALLY_FILLED"
          /\ new \in Rec
      <4>1. rec.executed + Fired.vol \in Nat
        BY <2>2, <2>5, <3>1
      <4> QED
        BY <2>1, <3>3, <4>1 DEF Rec, Statuses, Working, Terminal
    <3>5. new.status = "FILLED" <=> new.executed = new.orig
      BY <2>2, <2>5, <3>1, <3>2, <3>4
    <3> QED
      BY <1>3, <3>1, <3>2, <3>4, <3>5 DEF Terminal
  <2>7. CASE id \notin {Fired.buy, Fired.sell} /\ BeingCancelled(id)
    <3>1. PICK u \in Threads : pc[u] = "cancelling" /\ req[u].id = id
      BY <2>7 DEF BeingCancelled
    <3>2. /\ trades = <<>> /\ told[id] + dropped[id] = orig[id] /\ dropped[id] > 0
      BY <3>1 DEF EdgeInv, InTheBook
    <3>3. CancelledId = id
      BY <2>7, WhoseCancel DEF EdgeInv
    <3>4. /\ rec.status # "FILLED" /\ orig[id] # 0 /\ FirstDue(id) = 0
          /\ rec.executed # rec.orig
      BY <2>2, <2>3, <2>4, <2>5, <3>2, HookEvent
    <3>5. new = [rec EXCEPT !.status = "CANCELED"]
      BY <1>1, <1>3, <2>7, <3>3, <3>4
    <3>6. /\ new.client = rec.client /\ new.kind = rec.kind /\ new.orig = rec.orig
          /\ new.side = rec.side /\ new.price = rec.price
          /\ new.executed = rec.executed /\ new.status = "CANCELED" /\ new \in Rec
      BY <2>1, <3>5 DEF Rec, Statuses, Terminal
    <3>7. rec.status = "CANCELED" => new = rec
      BY <2>1, <3>5 DEF Rec
    <3>8. new.executed = rec.executed + FirstDue(id)
      BY <2>2, <3>4, <3>6
    <3> QED
      BY <1>3, <2>7, <3>4, <3>6, <3>7, <3>8 DEF Terminal
  <2>8. CASE id \notin {Fired.buy, Fired.sell} /\ ~BeingCancelled(id)
    <3>1. id # 0 /\ FirstDue(id) = 0
      BY <1>3, <2>8, HookEvent
    <3>2. id # CancelledId
      BY <2>8, <3>1, WhoseCancel DEF EdgeInv
    <3>3. new = rec
      BY <1>1, <1>3, <2>8, <3>2
    <3>4. rec.executed = rec.executed + FirstDue(id)
      BY <2>2, <3>1
    <3> QED
      BY <1>3, <2>1, <2>4, <2>8, <3>3, <3>4
  <2> QED
    BY <2>6, <2>7, <2>8
<1> QED
  BY <1>2, <1>3

(* The registry's hook. *)
LEMMA RegistryKeeps ==
    ASSUME EdgeInv, RegistryHook
    PROVE  EdgeInv'
<1>1. /\ phase = "fire" /\ hook = 1 /\ hook' = 2
      /\ UNCHANGED <<vars, seq, pc, req, holder, report>>
  BY WhichHook DEF RegistryHook, EdgeInv, EdgeTypeOK
<1>2. AccountInv'
  BY <1>1, AccountStep DEF EdgeInv
<1>3. UNCHANGED <<phase, trades, told, dropped, orig>>
  BY <1>1 DEF vars, bookVars
<1>4. trades # <<>> \/ \E u \in Threads : pc[u] = "cancelling"
  BY WhoseCancel DEF EdgeInv, RegistryHook
<1>5. EdgeTypeOK'
  <2>1. record' = [id \in EdgeIds |-> record'[id]]
    BY DEF RegistryHook
  <2>2. \A id \in EdgeIds : record'[id] \in Rec \cup {None}
    BY RegistryWrites
  <2>3. record' \in [EdgeIds -> Rec \cup {None}]
    BY <2>1, <2>2
  <2> QED
    BY <1>1, <2>3 DEF EdgeInv, EdgeTypeOK
<1>6. Apart' /\ HooksInTurn' /\ TakerKind'
  BY <1>1, <1>3, <1>4 DEF EdgeInv, Apart, HooksInTurn, TakerKind
<1>7. ClientIdsUnique'
  <2>1. \A id \in EdgeIds : /\ record'[id] # None <=> record[id] # None
                            /\ record[id] # None => record'[id].client = record[id].client
    <3>1. None \notin Rec
      BY DEF None, Rec
    <3> QED
      BY <3>1, RegistryWrites
  <2> QED
    BY <2>1 DEF EdgeInv, ClientIdsUnique, Recorders, Recorded
<1>8. ASSUME NEW u \in Threads PROVE OnItsWay(u)' /\ InTheBook(u)'
  <2>1. OnItsWay(u) /\ InTheBook(u)
    BY DEF EdgeInv
  <2>2. OnItsWay(u)'
    <3>1. pc[u] \in Entering => record'[req[u].id] = record[req[u].id]
      <4>1. pc[u] \in Entering => /\ req[u].id \in EdgeIds /\ orig[req[u].id] = 0
                                   /\ record[req[u].id] \in Rec
        BY <2>1 DEF OnItsWay
      <4>2. None \notin Rec
        BY DEF None, Rec
      <4> QED
        BY <4>1, <4>2, RegistryWrites
    <3> QED
      BY <1>1, <1>3, <2>1, <3>1 DEF OnItsWay
  <2>3. InTheBook(u)'
    <3>1. CASE pc[u] = "cancelling"
      <4>1. PICK x : x = req[u].id
        OBVIOUS
      <4>2. x \in EdgeIds /\ orig[x] # 0 /\ BeingCancelled(x) /\ orig[x] \in Nat
        BY <2>1, <3>1, <4>1, HookEvent DEF InTheBook, Cancelling, BeingCancelled
      <4>3. record[x] # None
        BY <4>2 DEF EdgeInv, Known
      <4>4. record'[x].status = "CANCELED"
        BY <4>2, <4>3, RegistryWrites DEF Terminal
      <4> QED
        BY <1>1, <1>3, <2>1, <3>1, <4>1, <4>4 DEF InTheBook
    <3>2. CASE pc[u] = "mark"
      <4>1. req[u].id \in EdgeIds /\ record[req[u].id].status = "CANCELED"
        BY <2>1, <3>2 DEF InTheBook, Cancelling
      <4>2. record[req[u].id] # None
        BY <4>1 DEF None
      <4>3. record'[req[u].id] = record[req[u].id]
        BY <4>1, <4>2, RegistryWrites DEF Terminal
      <4> QED
        BY <1>1, <2>1, <3>2, <4>3 DEF InTheBook
    <3>3. CASE pc[u] \notin {"cancelling", "mark"}
      BY <1>1, <1>3, <2>1, <3>3 DEF InTheBook
    <3> QED
      BY <3>1, <3>2, <3>3
  <2> QED
    BY <2>2, <2>3
<1>9. ASSUME NEW id \in EdgeIds PROVE Known(id)' /\ RecordFollows(id)' /\ ReportFollows(id)'
  <2>1. Known(id) /\ RecordFollows(id) /\ ReportFollows(id)
    BY DEF EdgeInv
  <2>2. /\ BeingCancelled(id)' <=> BeingCancelled(id)
        /\ Ahead(1, id)' = FirstDue(id) /\ Ahead(2, id)' = Ahead(2, id)
        /\ Ahead(1, id) = 0
    BY <1>1, <1>3 DEF BeingCancelled, Ahead, FirstDue
  <2>3. CASE record[id] = None
    <3>1. record'[id] = None
      BY <2>3, RegistryWrites
    <3> QED
      BY <1>1, <1>3, <2>1, <2>3, <3>1 DEF Known, RecordFollows, ReportFollows
  <2>4. CASE record[id] # None
    <3> DEFINE rec == record[id]
               new == record'[id]
    <3>1. /\ new \in Rec /\ new.client = rec.client /\ new.kind = rec.kind /\ new.orig = rec.orig
          /\ new.executed = rec.executed + FirstDue(id)
          /\ rec.status \in Terminal => new = rec
          /\ orig[id] = 0 => new = rec
          /\ rec.status # "CANCELED" => (new.status = "CANCELED" <=> BeingCancelled(id))
          /\ new.status = "FILLED" <=> new.executed = new.orig
      BY <2>4, RegistryWrites
    <3>2. new # None
      BY <3>1 DEF None, Rec
    <3>3. /\ rec.executed = told[id] + Ahead(1, id)
          /\ orig[id] = 0 => rec.status = "NEW"
          /\ rec.status = "CANCELED" =>
               orig[id] # 0 /\ dropped[id] > 0 /\ told[id] + dropped[id] = orig[id]
          /\ rec.kind = "limit" /\ dropped[id] > 0 =>
               rec.status = "CANCELED" \/ (BeingCancelled(id) /\ hook = 1)
      BY <2>1, <2>4 DEF RecordFollows
    <3>4. told[id] \in Nat /\ FirstDue(id) \in Nat /\ dropped[id] \in Nat /\ orig[id] \in Nat
      BY HookEvent
    <3>5. BeingCancelled(id) =>
            /\ orig[id] # 0 /\ dropped[id] > 0 /\ told[id] + dropped[id] = orig[id]
            /\ new.status = "CANCELED"
      <4>1. BeingCancelled(id) =>
              dropped[id] > 0 /\ told[id] + dropped[id] = orig[id]
        BY DEF EdgeInv, InTheBook, BeingCancelled
      <4> QED
        BY <3>1, <3>4, <4>1 DEF Terminal
    <3>6. Known(id)'
      BY <1>1, <1>3, <2>1, <2>4, <3>1, <3>2 DEF Known
    <3>7. new.status = "CANCELED" => rec.status = "CANCELED" \/ BeingCancelled(id)
      BY <3>1
    <3> HIDE DEF rec, new
    <3>8. /\ new.executed = told[id] + Ahead(1, id)'
          /\ orig[id] = 0 => new.status = "NEW"
          /\ new.status = "FILLED" <=> new.executed = new.orig
          /\ new.status = "CANCELED" =>
               orig[id] # 0 /\ dropped[id] > 0 /\ told[id] + dropped[id] = orig[id]
          /\ new.kind = "limit" /\ dropped[id] > 0 => new.status = "CANCELED"
      BY <2>2, <3>1, <3>3, <3>4, <3>5, <3>7 DEF Terminal
    <3>9. RecordFollows(id)'
      BY <1>3, <3>8 DEF RecordFollows, new
    <3>10. report[id] # None /\ report[id].status = "CANCELED" => rec.status = "CANCELED" /\ ~BeingCancelled(id)
      BY <1>1, <2>1, <2>4 DEF ReportFollows, rec
    <3>11. report[id] # None => /\ report[id].cum = told[id] + Ahead(2, id)
                                /\ report[id].status = "FILLED" <=> report[id].cum = rec.orig
      BY <2>1, <2>4 DEF ReportFollows, rec
    <3>12. rec.status = "CANCELED" => new.status = "CANCELED"
      BY <3>1 DEF Terminal
    <3>13. ReportFollows(id)'
      BY <1>1, <1>3, <2>2, <3>1, <3>10, <3>11, <3>12 DEF ReportFollows, new
    <3> QED
      BY <3>6, <3>9, <3>13
  <2> QED
    BY <2>3, <2>4
<1> QED
  BY <1>2, <1>5, <1>6, <1>7, <1>8, <1>9 DEF EdgeInv

(* What the stream's hook publishes of one order: the registry's view of it, *)
(* if the trade or the cancel is about it, and nothing otherwise.            *)
LEMMA ReportWrites ==
    ASSUME EdgeInv, ReportHook, NEW id \in EdgeIds
    PROVE  /\ hook = 2 /\ phase = "fire"
           /\ report'[id] \in Rep \cup {None}
           /\ \/ report'[id] = report[id]
              \/ /\ report'[id] # None /\ orig[id] # 0 /\ record[id] # None
                 /\ report'[id].status = record[id].status /\ report'[id].cum = record[id].executed
                 /\ report'[id].exec = IF BeingCancelled(id) THEN "CANCELED" ELSE "TRADE"
                 /\ record[id].executed = told[id] + FirstDue(id)
                 /\ FirstDue(id) > 0 \/ BeingCancelled(id)
           /\ report'[id] = report[id] =>
                record[id] = None \/ FirstDue(id) = 0
<1>1. /\ phase = "fire" /\ hook = 2
      /\ trades # <<>> \/ CancelFired
      /\ report'[id] = IF id \in {Fired.buy, Fired.sell, CancelledId} /\ Recorded(id)
                       THEN [exec   |-> IF CancelFired THEN "CANCELED" ELSE "TRADE",
                             status |-> record[id].status, cum |-> record[id].executed]
                       ELSE report[id]
  BY WhichHook DEF ReportHook, EdgeInv, EdgeTypeOK
<1>2. report[id] \in Rep \cup {None}
  BY DEF EdgeInv, EdgeTypeOK
<1>3. CASE id \in {Fired.buy, Fired.sell, CancelledId} /\ record[id] # None
  <2>1. record[id] \in Rec /\ record[id].status \in Statuses /\ record[id].executed \in Nat
    BY <1>3 DEF EdgeInv, EdgeTypeOK, Rec
  <2>2. PICK kind \in {"CANCELED", "TRADE"} :
          /\ report'[id] = [exec |-> kind, status |-> record[id].status, cum |-> record[id].executed]
          /\ kind = IF CancelFired THEN "CANCELED" ELSE "TRADE"
    BY <1>1, <1>3 DEF Recorded
  <2>3. report'[id] \in Rep /\ report'[id] # None /\ report'[id].exec = kind
        /\ report'[id].status = record[id].status /\ report'[id].cum = record[id].executed
    BY <2>1, <2>2 DEF Rep, None
  <2>4. record[id].executed = told[id] + FirstDue(id)
    BY <1>1, <1>3 DEF EdgeInv, RecordFollows, Ahead, FirstDue
  <2>5. /\ FirstDue(id) > 0 \/ BeingCancelled(id)
        /\ CancelFired <=> BeingCancelled(id)
    <3>1. CASE trades # <<>>
      BY <1>3, <3>1, HookEvent
    <3>2. CASE trades = <<>>
      <4>1. id = CancelledId /\ CancelFired
        BY <1>1, <1>3, <3>2, HookEvent
      <4> QED
        BY <4>1, WhoseCancel DEF EdgeInv
    <3> QED
      BY <3>1, <3>2
  <2>6. orig[id] # 0
    <3>1. BeingCancelled(id) => dropped[id] > 0
      BY DEF EdgeInv, InTheBook, BeingCancelled
    <3> QED
      BY <2>5, <3>1, HookEvent
  <2>7. report'[id] = report[id] => FirstDue(id) = 0
    <3>1. report[id] # None => report[id].cum = told[id]
      BY <1>1, <1>3, HookEvent DEF EdgeInv, ReportFollows, Ahead
    <3>2. FirstDue(id) \in Nat /\ told[id] \in Nat
      BY HookEvent
    <3> QED
      BY <2>3, <2>4, <3>1, <3>2
  <2> QED
    BY <1>1, <1>3, <2>2, <2>3, <2>4, <2>5, <2>6, <2>7
<1>4. CASE ~(id \in {Fired.buy, Fired.sell, CancelledId} /\ record[id] # None)
  <2>1. report'[id] = report[id]
    BY <1>1, <1>4 DEF Recorded
  <2>2. record[id] = None \/ FirstDue(id) = 0
    BY <1>4, HookEvent
  <2> QED
    BY <1>1, <1>2, <2>1, <2>2
<1> QED
  BY <1>3, <1>4

(* The stream's hook. *)
LEMMA ReportKeeps ==
    ASSUME EdgeInv, ReportHook
    PROVE  EdgeInv'
<1>1. /\ phase = "fire" /\ hook = 2 /\ hook' = 3
      /\ UNCHANGED <<vars, seq, pc, req, holder, record>>
  BY WhichHook DEF ReportHook, EdgeInv, EdgeTypeOK
<1>2. AccountInv'
  BY <1>1, AccountStep DEF EdgeInv
<1>3. UNCHANGED <<phase, trades, told, dropped, orig>>
  BY <1>1 DEF vars, bookVars
<1>4. trades # <<>> \/ \E u \in Threads : pc[u] = "cancelling"
  BY WhoseCancel DEF EdgeInv, ReportHook
<1>5. EdgeTypeOK'
  <2>1. report' = [id \in EdgeIds |-> report'[id]]
    BY DEF ReportHook
  <2>2. \A id \in EdgeIds : report'[id] \in Rep \cup {None}
    BY ReportWrites
  <2>3. report' \in [EdgeIds -> Rep \cup {None}]
    BY <2>1, <2>2
  <2> QED
    BY <1>1, <2>3 DEF EdgeInv, EdgeTypeOK
<1>6. Apart' /\ HooksInTurn' /\ TakerKind' /\ ClientIdsUnique'
  BY <1>1, <1>3, <1>4 DEF EdgeInv, Apart, HooksInTurn, TakerKind, ClientIdsUnique,
                          Recorders, Recorded
<1>7. ASSUME NEW u \in Threads PROVE OnItsWay(u)' /\ InTheBook(u)'
  <2>1. OnItsWay(u) /\ InTheBook(u)
    BY DEF EdgeInv
  <2>2. OnItsWay(u)'
    <3>1. pc[u] \in Entering => report'[req[u].id] = report[req[u].id]
      <4>1. pc[u] \in Entering => req[u].id \in EdgeIds /\ orig[req[u].id] = 0
        BY <2>1 DEF OnItsWay
      <4> QED
        BY <4>1, ReportWrites
    <3> QED
      BY <1>1, <1>3, <2>1, <3>1 DEF OnItsWay
  <2>3. InTheBook(u)'
    BY <1>1, <1>3, <2>1 DEF InTheBook
  <2> QED
    BY <2>2, <2>3
<1>8. ASSUME NEW id \in EdgeIds PROVE Known(id)' /\ RecordFollows(id)' /\ ReportFollows(id)'
  <2>1. Known(id) /\ RecordFollows(id) /\ ReportFollows(id)
    BY DEF EdgeInv
  <2>2. /\ BeingCancelled(id)' <=> BeingCancelled(id)
        /\ Ahead(1, id)' = Ahead(1, id) /\ Ahead(2, id)' = FirstDue(id) /\ Ahead(2, id) = 0
    BY <1>1, <1>3 DEF BeingCancelled, Ahead, FirstDue
  <2>3. RecordFollows(id)'
    BY <1>1, <1>3, <2>1, <2>2 DEF RecordFollows
  <2>4. told[id] \in Nat
    BY HookEvent
  <2>5. CASE report'[id] = report[id]
    <3>1. record[id] = None \/ FirstDue(id) = 0
      BY <2>5, ReportWrites
    <3>2. Known(id)'
      BY <1>1, <1>3, <2>1, <2>5 DEF Known
    <3>3. ReportFollows(id)'
      BY <1>1, <1>3, <2>1, <2>2, <2>4, <2>5, <3>1 DEF ReportFollows
    <3> QED
      BY <2>3, <3>2, <3>3
  <2>6. CASE report'[id] # report[id]
    <3>1. /\ report'[id] # None /\ orig[id] # 0 /\ record[id] # None
          /\ report'[id].status = record[id].status /\ report'[id].cum = record[id].executed
          /\ record[id].executed = told[id] + FirstDue(id)
      BY <2>6, ReportWrites
    <3>2. Known(id)'
      BY <1>1, <1>3, <2>1, <3>1 DEF Known
    <3>3. record[id].status = "FILLED" <=> record[id].executed = record[id].orig
      BY <2>1, <3>1 DEF RecordFollows
    <3>4. ReportFollows(id)'
      BY <1>1, <1>3, <2>2, <3>1, <3>3 DEF ReportFollows
    <3> QED
      BY <2>3, <3>2, <3>4
  <2> QED
    BY <2>5, <2>6
<1> QED
  BY <1>2, <1>5, <1>6, <1>7, <1>8 DEF EdgeInv

(* The first of the ledger's two hooks. *)
LEMMA BuyerKeeps ==
    ASSUME EdgeInv, LedgerBuyer
    PROVE  EdgeInv'
<1>1. /\ phase = "fire" /\ hook = 3 /\ hook' = 4
      /\ UNCHANGED <<vars, seq, pc, req, holder, record, report>>
  BY WhichHook DEF LedgerBuyer, EdgeInv, EdgeTypeOK
<1>2. AccountInv'
  BY <1>1, AccountStep DEF EdgeInv
<1>3. UNCHANGED <<phase, trades, told, dropped, orig>>
  BY <1>1 DEF vars, bookVars
<1>4. trades # <<>> \/ \E u \in Threads : pc[u] = "cancelling"
  BY WhoseCancel DEF EdgeInv, LedgerBuyer
<1>5. EdgeTypeOK' /\ Apart' /\ HooksInTurn' /\ TakerKind' /\ ClientIdsUnique'
  BY <1>1, <1>3, <1>4 DEF EdgeInv, EdgeTypeOK, Apart, HooksInTurn, TakerKind, ClientIdsUnique,
                          Recorders, Recorded
<1>6. ASSUME NEW u \in Threads PROVE OnItsWay(u)' /\ InTheBook(u)'
  <2>1. OnItsWay(u) /\ InTheBook(u)
    BY DEF EdgeInv
  <2>2. OnItsWay(u)'
    BY <1>1, <1>3, <2>1 DEF OnItsWay
  <2>3. InTheBook(u)'
    BY <1>1, <1>3, <2>1 DEF InTheBook
  <2> QED
    BY <2>2, <2>3
<1>7. ASSUME NEW id \in EdgeIds PROVE Known(id)' /\ RecordFollows(id)' /\ ReportFollows(id)'
  <2>1. Known(id) /\ RecordFollows(id) /\ ReportFollows(id)
    BY DEF EdgeInv
  <2>2. /\ BeingCancelled(id)' <=> BeingCancelled(id)
        /\ Ahead(1, id)' = Ahead(1, id) /\ Ahead(2, id)' = Ahead(2, id)
    BY <1>1, <1>3 DEF BeingCancelled, Ahead
  <2>3. Known(id)'
    BY <1>1, <1>3, <2>1 DEF Known
  <2>4. RecordFollows(id)'
    BY <1>1, <1>3, <2>1, <2>2 DEF RecordFollows
  <2>5. ReportFollows(id)'
    BY <1>1, <1>3, <2>1, <2>2 DEF ReportFollows
  <2> QED
    BY <2>3, <2>4, <2>5
<1> QED
  BY <1>2, <1>5, <1>6, <1>7 DEF EdgeInv

(* The last hook of a trade: the trade is told, the next one is first.       *)
LEMMA SellerKeeps ==
    ASSUME EdgeInv, LedgerSeller
    PROVE  EdgeInv'
<1>1. /\ phase = "fire" /\ hook = 4 /\ hook' = 1 /\ Fire
      /\ UNCHANGED <<seq, pc, req, holder, record, report>>
  BY WhichHook DEF LedgerSeller, EdgeInv, EdgeTypeOK
<1>2. AccountInv'
  BY <1>1, AccountStep DEF EdgeInv, Next
<1>3. trades # <<>> /\ UNCHANGED <<phase, dropped, orig>>
  BY <1>1 DEF Fire
<1>4. \A u \in Threads : pc[u] # "cancelling"
  BY <1>3 DEF EdgeInv, InTheBook
<1>5. EdgeTypeOK' /\ Apart' /\ HooksInTurn' /\ TakerKind' /\ ClientIdsUnique'
  BY <1>1, <1>3 DEF EdgeInv, EdgeTypeOK, Apart, HooksInTurn, TakerKind, ClientIdsUnique,
                    Recorders, Recorded
<1>6. ASSUME NEW u \in Threads PROVE OnItsWay(u)' /\ InTheBook(u)'
  <2>1. OnItsWay(u) /\ InTheBook(u)
    BY DEF EdgeInv
  <2>2. OnItsWay(u)'
    BY <1>1, <1>3, <2>1 DEF OnItsWay
  <2>3. InTheBook(u)'
    BY <1>1, <1>3, <1>4, <2>1 DEF InTheBook
  <2> QED
    BY <2>2, <2>3
<1>7. ASSUME NEW id \in EdgeIds PROVE Known(id)' /\ RecordFollows(id)' /\ ReportFollows(id)'
  <2>1. Known(id) /\ RecordFollows(id) /\ ReportFollows(id)
    BY DEF EdgeInv
  <2>2. /\ ~BeingCancelled(id)' /\ ~BeingCancelled(id)
        /\ Ahead(1, id)' = 0 /\ Ahead(2, id)' = 0
        /\ Ahead(1, id) = FirstDue(id) /\ Ahead(2, id) = FirstDue(id)
    BY <1>1, <1>3, <1>4 DEF BeingCancelled, Ahead, FirstDue
  <2>3. /\ FirstDue(id) \in Nat /\ told[id] \in Nat /\ orig[id] \in Nat /\ dropped[id] \in Nat
        /\ told[id] + dropped[id] + FirstDue(id) =< orig[id]
    BY HookEvent
  <2>4. told'[id] = told[id] + FirstDue(id)
    <3>1. id \in Ids /\ trades \in Seq(Trade)
      BY EdgeAssumption DEF EdgeAssumption, EdgeInv, AccountInv, BookInv, TypeOK
    <3>2. Head(trades) = trades[1]
      BY <1>3, <3>1
    <3> QED
      BY <1>1, <1>3, <3>1, <3>2 DEF Fire, FirstDue, Executed
  <2>5. Known(id)'
    BY <1>1, <1>3, <2>1 DEF Known
  <2>6. told[id] + dropped[id] = orig[id] => told'[id] = told[id]
    BY <2>3, <2>4
  <2>7. told'[id] + Ahead(1, id)' = told[id] + Ahead(1, id)
        /\ told'[id] + Ahead(2, id)' = told[id] + Ahead(2, id)
    BY <2>2, <2>3, <2>4
  <2>8. RecordFollows(id)'
    BY <1>1, <1>3, <2>1, <2>2, <2>6, <2>7 DEF RecordFollows
  <2>9. ReportFollows(id)'
    BY <1>1, <1>3, <2>1, <2>2, <2>7 DEF ReportFollows
  <2> QED
    BY <2>5, <2>8, <2>9
<1> QED
  BY <1>2, <1>5, <1>6, <1>7 DEF EdgeInv

(* The call returns: whoever held the instrument is out of the book, and a   *)
(* cancel leaves it with the record marked by its own hook.                  *)
LEMMA LeaveKeeps ==
    ASSUME EdgeInv, LeaveBook
    PROVE  EdgeInv'
<1>1. /\ phase = "fire" /\ trades = <<>> /\ phase' = "free" /\ hook' = 1 /\ holder' = NoId
      /\ Return /\ UNCHANGED <<trades, told, orig, dropped, seq, record, report>>
  BY DEF LeaveBook, Return
<1>2. AccountInv'
  BY <1>1, AccountStep DEF EdgeInv, Next
<1>3. hook \in 1..4 /\ \A u \in Threads : OnItsWay(u) /\ InTheBook(u)
  BY DEF EdgeInv, EdgeTypeOK
<1>4. (\E u \in Threads : pc[u] = "cancelling") => hook = 4
  BY <1>3, WhoseCancel, WhichHook DEF LeaveBook
<1> DEFINE Out ==
      /\ pc' \in [Threads -> Places] /\ DOMAIN req' = Threads
      /\ \A u \in Threads :
           \/ pc'[u] = pc[u] /\ req'[u] = req[u] /\ pc[u] \notin {"placing", "cancelling"}
           \/ pc[u] = "placing" /\ pc'[u] = "idle"
           \/ pc[u] = "cancelling" /\ pc'[u] = "mark" /\ req'[u] = req[u]
<1>5. Out
  <2>1. pc \in [Threads -> Places] /\ DOMAIN req = Threads
    BY DEF EdgeInv, EdgeTypeOK, Places
  <2>2. \A u \in Threads : pc[u] \in {"placing", "cancelling"} => holder = u
    BY <1>3 DEF InTheBook
  <2>3. CASE holder = Emulator /\ UNCHANGED <<pc, req>>
    <3>1. \A u \in Threads : pc[u] \notin {"placing", "cancelling"}
      BY <2>2, <2>3, EdgeAssumption DEF EdgeAssumption
    <3> QED
      BY <2>1, <2>3, <3>1
  <2>4. ASSUME NEW t \in Threads, holder = t, Goto(t, "placing", "idle") PROVE Out
    <3>1. pc[t] = "placing" /\ pc' = [pc EXCEPT ![t] = "idle"] /\ req' = [req EXCEPT ![t] = NoOrder]
      BY <2>4 DEF Goto
    <3>2. \A u \in Threads \ {t} : pc[u] \notin {"placing", "cancelling"}
      BY <2>2, <2>4
    <3> QED
      BY <2>1, <3>1, <3>2 DEF Places
  <2>5. ASSUME NEW t \in Threads, holder = t, Goto(t, "cancelling", "mark") PROVE Out
    <3>1. pc[t] = "cancelling" /\ pc' = [pc EXCEPT ![t] = "mark"] /\ req' = [req EXCEPT ![t] = @]
      BY <2>5 DEF Goto
    <3>2. \A u \in Threads \ {t} : pc[u] \notin {"placing", "cancelling"}
      BY <2>2, <2>5
    <3> QED
      BY <2>1, <3>1, <3>2 DEF Places, Cancelling
  <2> QED
    BY <2>3, <2>4, <2>5 DEF LeaveBook
<1>6. EdgeTypeOK'
  BY <1>1, <1>5 DEF EdgeInv, EdgeTypeOK, Places
<1>7. Apart'
  BY <1>5 DEF EdgeInv, Apart, Entering, Unannounced
<1>8. HooksInTurn' /\ TakerKind' /\ ClientIdsUnique'
  BY <1>1 DEF EdgeInv, HooksInTurn, TakerKind, ClientIdsUnique, Recorders, Recorded
<1>9. ASSUME NEW u \in Threads PROVE OnItsWay(u)' /\ InTheBook(u)'
  <2>1. OnItsWay(u) /\ InTheBook(u)
    BY <1>3
  <2>2. CASE pc'[u] = pc[u] /\ req'[u] = req[u] /\ pc[u] \notin {"placing", "cancelling"}
    BY <1>1, <2>1, <2>2, OutsideFrame
  <2>3. CASE pc[u] = "placing" /\ pc'[u] = "idle"
    BY <2>3 DEF OnItsWay, InTheBook, Entering, Unannounced, Cancelling
  <2>4. CASE pc[u] = "cancelling" /\ pc'[u] = "mark" /\ req'[u] = req[u]
    <3>1. req[u].id \in EdgeIds /\ record[req[u].id].status = "CANCELED"
      BY <1>4, <2>1, <2>4 DEF InTheBook, Cancelling
    <3> QED
      BY <1>1, <2>4, <3>1 DEF OnItsWay, InTheBook, Entering, Unannounced, Cancelling
  <2> QED
    BY <1>5, <2>2, <2>3, <2>4
<1>10. ASSUME NEW id \in EdgeIds PROVE Known(id)' /\ RecordFollows(id)' /\ ReportFollows(id)'
  <2>1. Known(id) /\ RecordFollows(id) /\ ReportFollows(id)
    BY DEF EdgeInv
  <2>2. /\ ~BeingCancelled(id)' /\ Ahead(1, id)' = 0 /\ Ahead(2, id)' = 0
        /\ Ahead(1, id) = 0 /\ Ahead(2, id) = 0
    BY <1>1, <1>5 DEF BeingCancelled, Ahead
  <2>3. BeingCancelled(id) => hook = 4
    BY <1>4 DEF BeingCancelled
  <2>4. Known(id)'
    BY <1>1, <2>1 DEF Known
  <2>5. RecordFollows(id)'
    BY <1>1, <2>1, <2>2, <2>3 DEF RecordFollows
  <2>6. ReportFollows(id)'
    BY <1>1, <2>1, <2>2 DEF ReportFollows
  <2> QED
    BY <2>4, <2>5, <2>6
<1> QED
  BY <1>2, <1>6, <1>7, <1>8, <1>9, <1>10 DEF EdgeInv

-----------------------------------------------------------------------------
(* EdgeInv is inductive.                                                     *)

(* Initially nothing is recorded and nobody is anywhere. *)
LEMMA EdgeInvInit == EdgeInit => EdgeInv
<1> SUFFICES ASSUME EdgeInit PROVE EdgeInv
  OBVIOUS
<1> USE DEF EdgeInit
<1>1. AccountInv
  BY AccountInit
<1>2. EdgeTypeOK
  BY DEF EdgeTypeOK
<1>3. /\ \A t \in Threads : pc[t] = "idle"
      /\ \A id \in EdgeIds : record[id] = None /\ report[id] = None /\ orig[id] = 0
      /\ phase = "free" /\ hook = 1
  BY EdgeAssumption DEF EdgeAssumption, Init
<1>4. Apart /\ HooksInTurn /\ TakerKind /\ ClientIdsUnique
  BY <1>3 DEF Apart, HooksInTurn, TakerKind, ClientIdsUnique, Recorders, Recorded,
              Entering, Unannounced
<1>5. \A t \in Threads : OnItsWay(t) /\ InTheBook(t)
  BY <1>3 DEF OnItsWay, InTheBook, Entering, Unannounced, Cancelling
<1>6. \A id \in EdgeIds : Known(id) /\ RecordFollows(id) /\ ReportFollows(id)
  BY <1>3 DEF Known, RecordFollows, ReportFollows
<1> QED
  BY <1>1, <1>2, <1>4, <1>5, <1>6 DEF EdgeInv

(* Every step of every goroutine keeps it. *)
LEMMA EdgeInvStep == EdgeInv /\ [EdgeNext]_allVars => EdgeInv'
<1> SUFFICES ASSUME EdgeInv, [EdgeNext]_allVars PROVE EdgeInv'
  OBVIOUS
<1>1. ASSUME NEW t \in Threads, NEW o \in Order(Volumes), NEW client \in Clients, Record(t, o, client)
      PROVE  EdgeInv'
  BY <1>1, RecordKeeps
<1>2. ASSUME NEW t \in Threads, NEW id \in EdgeIds, Lookup(t, id) PROVE EdgeInv'
  BY <1>2, LookupKeeps
<1>3. ASSUME NEW t \in Threads, Step(t) PROVE EdgeInv'
  BY <1>3, ReserveKeeps, RemoveKeeps, AnnounceKeeps, ReleaseKeeps, EnterKeeps, CancelInKeeps,
     MissKeeps, MarkKeeps DEF Step
<1>4. CASE HolderStep
  BY <1>4, BookStepKeeps, RegistryKeeps, ReportKeeps, BuyerKeeps, SellerKeeps, LeaveKeeps
     DEF HolderStep
<1>5. CASE \/ \E o \in Order(Volumes) : EmulatorPlaces(o)
           \/ \E id \in EmuIds : EmulatorCancels(id)
  BY <1>5, EmulatorKeeps
<1>6. ASSUME NEW asset \in Assets, Withdraw(asset) PROVE EdgeInv'
  <2>1. UNCHANGED <<vars, seq, record, report, pc, req, holder, hook>>
    BY <1>6 DEF Withdraw
  <2>2. seq \in Nat
    BY DEF EdgeInv, EdgeTypeOK
  <2> QED
    BY <2>1, <2>2, LedgerAlone
<1>7. CASE UNCHANGED allVars
  <2>1. UNCHANGED <<vars, seq, record, report, pc, req, holder, hook>>
    BY <1>7 DEF allVars, edgeVars
  <2>2. seq \in Nat
    BY DEF EdgeInv, EdgeTypeOK
  <2> QED
    BY <2>1, <2>2, LedgerAlone
<1> QED
  BY <1>1, <1>2, <1>3, <1>4, <1>5, <1>6, <1>7 DEF EdgeNext

(* The invariant of the edge, of every behaviour. *)
LEMMA EdgeInductive == EdgeSpec => []EdgeInv
BY EdgeInvInit, EdgeInvStep, PTL DEF EdgeSpec

-----------------------------------------------------------------------------
(* The edge's handlers and hooks, and the emulator, use the book only        *)
(* through its operations: what the book does under them is a behaviour of   *)
(* the book.                                                                 *)
THEOREM EdgeUsesBook == EdgeSpec => Init /\ [][Next]_vars
<1>1. EdgeInit => Init
  BY DEF EdgeInit
<1> QED
  BY <1>1, EdgeInductive, EdgeBookStep, PTL DEF EdgeSpec

(* So the book is in price-time order, uncrossed and accounted for, however  *)
(* requests, hooks and the emulator interleave.                              *)
THEOREM EdgeKeepsBook == EdgeSpec => [](QueuesOrdered /\ Uncrossed /\ HooksAccountForBook)
<1>1. EdgeInv => QueuesOrdered /\ Uncrossed /\ HooksAccountForBook
  BY AccountsSettle DEF EdgeInv, AccountInv, BookInv
<1> QED
  BY <1>1, EdgeInductive, PTL

(* No two accepted orders share a client id: RecordUnique looks for it and   *)
(* inserts the record in one critical section.                               *)
THEOREM EdgeClientIds == EdgeSpec => []ClientIdsUnique
<1>1. EdgeInv => ClientIdsUnique
  BY DEF EdgeInv
<1> QED
  BY <1>1, EdgeInductive, PTL

(* An order has volume at rest exactly when it is in a queue.                *)
LEMMA RestsIsAtRest ==
    ASSUME AccountInv, NEW id
    PROVE  AtRest(id) \in Nat /\ (Rests(id) <=> AtRest(id) # 0)
<1>1. /\ queue["buy"] \in Seq(Resting) /\ queue["sell"] \in Seq(Resting)
      /\ OnceIn(queue["buy"]) /\ OnceIn(queue["sell"])
  BY DEF AccountInv, BookInv, TypeOK, IdsOnce, Sides
<1> DEFINE b == RestingVolume(queue["buy"], id)
           s == RestingVolume(queue["sell"], id)
<1>2. b \in Nat /\ s \in Nat
  BY <1>1, RestingVolumeNat
<1>3. ASSUME NEW side \in Sides, NEW k \in 1..Len(queue[side]), queue[side][k].id = id
      PROVE  RestingVolume(queue[side], id) # 0
  <2>1. queue[side] \in Seq(Resting) /\ OnceIn(queue[side])
    BY <1>1 DEF Sides
  <2>2. queue[side][k] \in Resting
    BY <2>1
  <2>3. RestingVolume(queue[side], id) = queue[side][k].vol
    BY <1>3, <2>1, RestingVolumeIs
  <2> QED
    BY <2>2, <2>3 DEF Resting
<1>4. Rests(id) => b # 0 \/ s # 0
  BY <1>3 DEF Rests, Sides
<1>5. ASSUME ~Rests(id) PROVE b = 0 /\ s = 0
  <2>1. Absent(queue["buy"], id) /\ Absent(queue["sell"], id)
    BY <1>5 DEF Rests, Sides, Absent
  <2> QED
    BY <1>1, <2>1, RestingVolumeNone
<1>6. AtRest(id) = b + s
  BY DEF AtRest
<1> HIDE DEF b, s
<1> QED
  BY <1>2, <1>4, <1>5, <1>6

(* When no call is in the book, the registry and the book agree on every     *)
(* order: the hooks told the registry each execution and each cancel once,   *)
(* and no handler wrote over what they said.                                 *)
THEOREM EdgeRegistry == EdgeSpec => []RegistryMatchesBook
<1>1. EdgeInv => RegistryMatchesBook
  <2> SUFFICES ASSUME EdgeInv, phase = "free", NEW id \in Recorders, orig[id] # 0
               PROVE  /\ record[id].executed = told[id]
                      /\ record[id].status = "FILLED" <=> told[id] = record[id].orig
                      /\ record[id].kind = "limit" =>
                           (record[id].status \in Working <=> Rests(id))
    BY DEF RegistryMatchesBook
  <2> DEFINE rec == record[id]
             to == told[id]
             dr == dropped[id]
             r == AtRest(id)
             o == orig[id]
  <2>1. id \in EdgeIds /\ rec # None /\ id \in Ids
    BY EdgeAssumption DEF EdgeAssumption, Recorders, Recorded
  <2>2. Known(id) /\ RecordFollows(id) /\ AccountInv /\ rec \in Rec
    BY <2>1 DEF EdgeInv, EdgeTypeOK
  <2>3. trades = <<>> /\ ~BeingCancelled(id) /\ Ahead(1, id) = 0 /\ InHand(id) = 0
    BY FreeBook DEF InHand
  <2>4. to \in Nat /\ dr \in Nat /\ r \in Nat /\ o \in Nat /\ o = to + dr + r
    BY <2>1, <2>2, <2>3, Bound
  <2>5. rec.executed = to /\ rec.orig = o
        /\ (rec.status = "FILLED" <=> to = o)
        /\ (rec.status = "CANCELED" => dr > 0 /\ to + dr = o)
        /\ (rec.kind = "limit" /\ dr > 0 => rec.status = "CANCELED")
    BY <2>1, <2>2, <2>3, <2>4 DEF RecordFollows, Known
  <2>6. Rests(id) <=> r # 0
    BY <2>2, RestsIsAtRest
  <2>7. rec.status \in Working <=> rec.status \notin {"FILLED", "CANCELED"}
    BY <2>2 DEF Rec, Statuses, Working, Terminal
  <2>8. rec.kind = "limit" => (rec.status \in Working <=> r # 0)
    <3> HIDE DEF to, dr, r, o
    <3> QED
      BY <2>4, <2>5, <2>7
  <2> QED
    BY <2>5, <2>6, <2>8
<1> QED
  BY <1>1, EdgeInductive, PTL

-----------------------------------------------------------------------------
(* What a step of the edge may never do.                                     *)

\* A step that leaves the records alone, but for the registry's hook and for
\* one order that is new or not in the book yet.
WritesFew ==
    \/ record' = record
    \/ RegistryHook
    \/ \E x \in EdgeIds : /\ \A id \in EdgeIds \ {x} : record'[id] = record[id]
                          /\ orig[x] = 0 /\ (record[x] = None \/ record[x].status = "NEW")

(* Only RecordUnique, Remove and the registry's hook change a record.        *)
LEMMA WhoWritesRecords == EdgeInv /\ [EdgeNext]_allVars => WritesFew
<1> SUFFICES ASSUME EdgeInv, [EdgeNext]_allVars PROVE WritesFew
  OBVIOUS
<1> USE DEF WritesFew
<1>1. ASSUME NEW t \in Threads, NEW o \in Order(Volumes), NEW client \in Clients, Record(t, o, client)
      PROVE  WritesFew
  <2>1. CASE Duplicate(o, client)
    BY <1>1, <2>1 DEF Record
  <2>2. CASE ~Duplicate(o, client)
    <3>1. /\ o.id \in EdgeIds /\ o.id = seq + 1
          /\ record' = [record EXCEPT ![o.id] =
                          [client |-> ClientName(o, client), side |-> o.side, kind |-> o.kind,
                           price |-> o.price, orig |-> o.vol, executed |-> 0, status |-> "NEW"]]
      BY <1>1, <2>2 DEF Record
    <3>2. record[o.id] = None /\ orig[o.id] = 0
      BY <3>1 DEF EdgeInv, EdgeTypeOK, Known
    <3>3. \A id \in EdgeIds \ {o.id} : record'[id] = record[id]
      BY <3>1 DEF EdgeInv, EdgeTypeOK
    <3> QED
      BY <3>1, <3>2, <3>3
  <2> QED
    BY <2>1, <2>2
<1>2. ASSUME NEW t \in Threads, Remove(t) PROVE WritesFew
  <2>1. pc[t] \in Entering /\ record' = [record EXCEPT ![req[t].id] = None]
    BY <1>2 DEF Remove, Goto, Entering, Unannounced
  <2>2. req[t].id \in EdgeIds /\ record[req[t].id].status = "NEW" /\ orig[req[t].id] = 0
    BY <2>1 DEF EdgeInv, OnItsWay
  <2>3. \A id \in EdgeIds \ {req[t].id} : record'[id] = record[id]
    BY <2>1 DEF EdgeInv, EdgeTypeOK
  <2> QED
    BY <2>2, <2>3
<1>3. ASSUME NEW t \in Threads, MarkCanceled(t) PROVE WritesFew
  BY <1>3, MarkKeeps
<1>4. ASSUME NEW t \in Threads, Step(t) PROVE WritesFew
  <2>1. CASE Reserve(t) \/ Announce(t) \/ Release(t) \/ EnterBook(t) \/ CancelInBook(t)
             \/ CancelMisses(t) \/ AnswerMissed(t)
    BY <2>1 DEF Reserve, Announce, Release, EnterBook, CancelInBook, CancelMisses, AnswerMissed
  <2> QED
    BY <1>2, <1>3, <1>4, <2>1 DEF Step
<1>5. CASE HolderStep
  BY <1>5 DEF HolderStep, BookStep, ReportHook, LedgerBuyer, LedgerSeller, LeaveBook, edgeVars
<1>6. CASE \/ \E o \in Order(Volumes) : EmulatorPlaces(o)
           \/ \E id \in EmuIds : EmulatorCancels(id)
           \/ \E asset \in Assets : Withdraw(asset)
           \/ UNCHANGED allVars
  BY <1>6 DEF EmulatorPlaces, EmulatorCancels, Withdraw, allVars, edgeVars
<1>7. ASSUME NEW t \in Threads, NEW id \in EdgeIds, Lookup(t, id) PROVE WritesFew
  BY <1>7 DEF Lookup
<1> HIDE DEF WritesFew
<1> QED
  BY <1>1, <1>4, <1>5, <1>6, <1>7 DEF EdgeNext

(* FILLED and CANCELED are final, although the hooks, the cancel handler and *)
(* fills of the account's other orders all write the records.                *)
THEOREM EdgeTerminal == EdgeSpec => TerminalIsFinal
<1> DEFINE Final == \A id \in Recorders :
             record[id].status \in Terminal => record'[id].status = record[id].status
<1>1. EdgeInv /\ [EdgeNext]_allVars => [Final]_allVars
  <2> SUFFICES ASSUME EdgeInv, [EdgeNext]_allVars, NEW id \in Recorders,
                      record[id].status \in Terminal
               PROVE  record'[id].status = record[id].status
    OBVIOUS
  <2>1. id \in EdgeIds /\ record[id] # None /\ record[id].status # "NEW"
    BY DEF Recorders, Recorded, Terminal
  <2>2. CASE RegistryHook
    BY <2>1, <2>2, RegistryWrites
  <2>3. CASE ~RegistryHook
    <3>1. record'[id] = record[id]
      BY <2>1, <2>3, WhoWritesRecords DEF WritesFew
    <3> QED
      BY <3>1
  <2> QED
    BY <2>2, <2>3
<1> QED
  BY <1>1, EdgeInductive, PTL DEF EdgeSpec, TerminalIsFinal

(* Only Announce and the stream's hook publish. *)
LEMMA WhoReports ==
    ASSUME EdgeInv, [EdgeNext]_allVars
    PROVE  report' = report \/ ReportHook \/ \E t \in Threads : Announce(t)
<1>1. ASSUME NEW t \in Threads, Step(t) PROVE report' = report \/ Announce(t)
  BY <1>1 DEF Step, Reserve, Remove, Release, EnterBook, CancelInBook, CancelMisses, AnswerMissed,
              MarkCanceled
<1>2. CASE HolderStep
  BY <1>2 DEF HolderStep, BookStep, RegistryHook, LedgerBuyer, LedgerSeller, LeaveBook, edgeVars
<1>3. CASE \/ \E t \in Threads : \E o \in Order(Volumes), client \in Clients : Record(t, o, client)
           \/ \E t \in Threads : \E id \in EdgeIds : Lookup(t, id)
           \/ \E o \in Order(Volumes) : EmulatorPlaces(o)
           \/ \E id \in EmuIds : EmulatorCancels(id)
           \/ \E asset \in Assets : Withdraw(asset)
           \/ UNCHANGED allVars
  BY <1>3 DEF Record, Lookup, EmulatorPlaces, EmulatorCancels, Withdraw, allVars, edgeVars
<1> QED
  BY <1>1, <1>2, <1>3 DEF EdgeNext

\* What ReportsInOrder says of one step and one order.
NextReport(id) == report'[id] # report[id] =>
    /\ report'[id].exec = "NEW" <=> report[id] = None
    /\ report[id].status \notin Terminal
    /\ report'[id].exec = "TRADE" => report'[id].cum > report[id].cum
    /\ report'[id].cum = record[id].orig <=> report'[id].status = "FILLED"

(* emitExecutionReport(NEW) is the first report of the order. *)
LEMMA AnnounceReports ==
    ASSUME EdgeInv, NEW t \in Threads, Announce(t), NEW id \in EdgeIds
    PROVE  NextReport(id)
<1>1. PICK x : x = req[t].id
  OBVIOUS
<1>2. /\ x \in EdgeIds /\ report[x] = None /\ record[x] \in Rec
      /\ report' = [report EXCEPT ![x] = [exec |-> "NEW", status |-> "NEW", cum |-> 0]]
  BY <1>1, AnnounceKeeps
<1>3. report \in [EdgeIds -> Rep \cup {None}] /\ record[x].orig # 0
  BY <1>2, BookAssumption DEF EdgeInv, EdgeTypeOK, Rec, BookAssumption
<1>4. CASE id # x
  BY <1>2, <1>3, <1>4 DEF NextReport
<1>5. CASE id = x
  <2>1. /\ report'[id].exec = "NEW" /\ report'[id].status = "NEW" /\ report'[id].cum = 0
        /\ report[id] = None /\ report[id].status = "none"
    BY <1>2, <1>3, <1>5 DEF None
  <2> QED
    BY <1>3, <1>5, <2>1 DEF NextReport, Terminal
<1> QED
  BY <1>4, <1>5

(* The stream's hook reports progress on an order that is not finished.      *)
LEMMA HookReports ==
    ASSUME EdgeInv, ReportHook, NEW id \in EdgeIds
    PROVE  NextReport(id)
<1> SUFFICES ASSUME report'[id] # report[id] PROVE NextReport(id)
  BY DEF NextReport
<1>1. /\ hook = 2
      /\ report'[id] # None /\ orig[id] # 0 /\ record[id] # None
      /\ report'[id].status = record[id].status /\ report'[id].cum = record[id].executed
      /\ report'[id].exec = IF BeingCancelled(id) THEN "CANCELED" ELSE "TRADE"
      /\ record[id].executed = told[id] + FirstDue(id)
      /\ FirstDue(id) > 0 \/ BeingCancelled(id)
  BY ReportWrites
<1>2. Known(id) /\ RecordFollows(id) /\ ReportFollows(id)
  BY DEF EdgeInv
<1>3. report[id] # None /\ record[id].orig = orig[id]
  BY <1>1, <1>2 DEF Known
<1>4. /\ FirstDue(id) \in Nat /\ told[id] \in Nat /\ orig[id] \in Nat /\ dropped[id] \in Nat
      /\ told[id] + dropped[id] + FirstDue(id) =< orig[id]
  BY HookEvent
<1>5. BeingCancelled(id) => dropped[id] > 0 /\ told[id] + dropped[id] = orig[id]
  BY DEF EdgeInv, InTheBook, BeingCancelled
<1>6. report[id].cum = told[id]
  BY <1>1, <1>2, <1>3, <1>4 DEF ReportFollows, Ahead
<1>7. report[id].status # "FILLED"
  BY <1>1, <1>2, <1>3, <1>4, <1>5, <1>6 DEF ReportFollows
<1>8. report[id].status # "CANCELED"
  <2>1. ASSUME report[id].status = "CANCELED" PROVE FALSE
    <3>1. record[id].status = "CANCELED" /\ ~BeingCancelled(id)
      BY <1>1, <1>2, <1>3, <2>1 DEF ReportFollows
    <3>2. told[id] + dropped[id] = orig[id]
      BY <1>1, <1>2, <3>1 DEF RecordFollows
    <3> QED
      BY <1>1, <1>4, <3>1, <3>2
  <2> QED
    BY <2>1
<1>9. report'[id].exec = "TRADE" => report'[id].cum > report[id].cum
  BY <1>1, <1>4, <1>6
<1>10. report'[id].cum = record[id].orig <=> report'[id].status = "FILLED"
  BY <1>1, <1>2 DEF RecordFollows
<1> QED
  BY <1>1, <1>3, <1>7, <1>8, <1>9, <1>10 DEF NextReport, Terminal

(* The user-data stream tells each order's story in order: the handler's NEW *)
(* before any trade, then what the hooks report, and nothing after the end.  *)
THEOREM EdgeReports == EdgeSpec => ReportsInOrder
<1> DEFINE InOrder == \A id \in EdgeIds : report'[id] # report[id] =>
             /\ report'[id].exec = "NEW" <=> report[id] = None
             /\ report[id].status \notin Terminal
             /\ report'[id].exec = "TRADE" => report'[id].cum > report[id].cum
             /\ report'[id].cum = record[id].orig <=> report'[id].status = "FILLED"
<1>1. EdgeInv /\ [EdgeNext]_allVars => [InOrder]_allVars
  <2> SUFFICES ASSUME EdgeInv, [EdgeNext]_allVars PROVE \A id \in EdgeIds : NextReport(id)
    BY DEF NextReport
  <2>1. CASE report' = report
    BY <2>1 DEF NextReport
  <2>2. CASE ReportHook
    BY <2>2, HookReports
  <2>3. ASSUME NEW t \in Threads, Announce(t) PROVE \A id \in EdgeIds : NextReport(id)
    BY <2>3, AnnounceReports
  <2> QED
    BY <2>1, <2>2, <2>3, WhoReports
<1> QED
  BY <1>1, EdgeInductive, PTL DEF EdgeSpec, ReportsInOrder

-----------------------------------------------------------------------------
(* The expiry sweep.                                                         *)

\* A pass that holds the claim and has not yet recorded the settlement.
Settling == {"price", "unclaim", "settle", "cancel"}
Stages == Settling \cup {"idle", "position", "credit", "burn", "drain", "drainCancel"}

SettleTypes ==
    /\ sweep \in [Sweepers -> Stages]
    /\ settlements \in Nat
    /\ claimed \in BOOLEAN

(* The claim belongs to one pass, and while it does nothing is settled yet:  *)
(* SettledOnce alone does not say who may record or give back.               *)
ClaimOwned ==
    \A s \in Sweepers : sweep[s] \in Settling =>
        /\ claimed
        /\ settlements = 0
        /\ \A z \in Sweepers : sweep[z] \in Settling => z = s

SettleInv == SettleTypes /\ ClaimOwned /\ SettledOnce

-----------------------------------------------------------------------------
(* The invariant holds before anything has been claimed.                     *)
LEMMA SettleInit == OptInit => SettleInv
<1> SUFFICES ASSUME OptInit PROVE SettleInv
  OBVIOUS
<1>1. /\ sweep = [s \in Sweepers |-> "idle"]
      /\ settlements = 0 /\ claimed = FALSE
  BY DEF OptInit
<1>2. SettleTypes
  BY <1>1 DEF SettleTypes, Stages
<1>3. ClaimOwned
  BY <1>1 DEF ClaimOwned, Settling
<1>4. SettledOnce
  BY <1>1 DEF SettledOnce
<1> QED
  BY <1>2, <1>3, <1>4 DEF SettleInv

(* A step that leaves the claim and the passes where they are keeps it.      *)
LEMMA RestKeeps ==
    ASSUME SettleInv, UNCHANGED <<claimed, settlements, sweep>>
    PROVE  SettleInv'
  BY DEF SettleInv, SettleTypes, ClaimOwned, SettledOnce

(* A pass that moves between stages that do not hold the claim, or holds it  *)
(* all along, keeps the invariant.                                           *)
LEMMA MoveKeeps ==
    ASSUME SettleInv, NEW s \in Sweepers, NEW to \in Stages,
           sweep' = [sweep EXCEPT ![s] = to],
           UNCHANGED <<claimed, settlements>>,
           to \in Settling => sweep[s] \in Settling
    PROVE  SettleInv'
<1>1. SettleTypes'
  BY DEF SettleInv, SettleTypes
<1>2. \A z \in Sweepers : sweep'[z] \in Settling => sweep[z] \in Settling
  BY DEF SettleInv, SettleTypes
<1>3. ClaimOwned'
  BY <1>2 DEF SettleInv, ClaimOwned
<1> QED
  BY <1>1, <1>3 DEF SettleInv, SettledOnce

(* Claiming: nobody had it, and nothing was settled.                         *)
LEMMA BeginKeeps ==
    ASSUME SettleInv, NEW s \in Sweepers, Begin(s)
    PROVE  SettleInv'
<1>1. CASE NotClaimed(s)
  <2>1. sweep' = [sweep EXCEPT ![s] = "drain"] /\ UNCHANGED <<claimed, settlements>>
    BY <1>1 DEF Begin, NotClaimed, Pass
  <2> QED
    BY <2>1, MoveKeeps DEF Stages, Settling
<1>2. CASE Claim(s)
  <2>1. /\ sweep' = [sweep EXCEPT ![s] = "price"]
        /\ ~claimed /\ claimed' = TRUE /\ settlements' = settlements
    BY <1>2 DEF Begin, Claim, Pass
  <2>2. settlements = 0
    BY <2>1 DEF SettleInv, SettleTypes, SettledOnce
  <2>3. \A z \in Sweepers : sweep[z] \notin Settling
    BY <2>1 DEF SettleInv, ClaimOwned
  <2>4. \A z \in Sweepers : sweep'[z] \in Settling => z = s
    BY <2>1, <2>3 DEF SettleInv, SettleTypes
  <2>5. ClaimOwned'
    BY <2>1, <2>2, <2>4 DEF ClaimOwned
  <2>6. SettleTypes' /\ SettledOnce'
    BY <2>1, <2>2 DEF SettleInv, SettleTypes, SettledOnce, Stages, Settling
  <2> QED
    BY <2>5, <2>6 DEF SettleInv
<1> QED
  BY <1>1, <1>2 DEF Begin

(* The pass that holds the claim gives it back, or records the settlement:   *)
(* nobody else holds it, so nobody is left settling.                         *)
LEMMA EndOfClaimKeeps ==
    ASSUME SettleInv, NEW s \in Sweepers, Unclaim(s) \/ RecordSettlement(s)
    PROVE  SettleInv'
<1>1. SettleTypes /\ sweep[s] \in Settling
  BY DEF SettleInv, Unclaim, RecordSettlement, Pass, Settling
<1>2. /\ settlements = 0 /\ claimed
      /\ \A z \in Sweepers : sweep[z] \in Settling => z = s
  BY <1>1 DEF SettleInv, ClaimOwned
<1>3. CASE Unclaim(s)
  <2>1. /\ sweep' = [sweep EXCEPT ![s] = "drain"]
        /\ settlements' = 0 /\ claimed' = FALSE
    BY <1>2, <1>3 DEF Unclaim, Pass
  <2>2. \A z \in Sweepers : sweep'[z] \notin Settling
    BY <1>1, <1>2, <2>1 DEF SettleTypes, Settling
  <2>3. SettleTypes'
    BY <1>1, <2>1 DEF SettleTypes, Stages
  <2>4. ClaimOwned' /\ SettledOnce'
    BY <2>1, <2>2 DEF ClaimOwned, SettledOnce
  <2> QED
    BY <2>3, <2>4 DEF SettleInv
<1>4. CASE RecordSettlement(s)
  <2>1. /\ sweep' = [sweep EXCEPT ![s] = "position"]
        /\ settlements' = 1 /\ claimed' = claimed
    BY <1>2, <1>4 DEF RecordSettlement, Pass
  <2>2. \A z \in Sweepers : sweep'[z] \notin Settling
    BY <1>1, <1>2, <2>1 DEF SettleTypes, Settling
  <2>3. SettleTypes'
    BY <1>1, <2>1 DEF SettleTypes, Stages
  <2>4. ClaimOwned' /\ SettledOnce'
    BY <1>2, <2>1, <2>2 DEF ClaimOwned, SettledOnce
  <2> QED
    BY <2>3, <2>4 DEF SettleInv
<1> QED
  BY <1>3, <1>4

(* Every step of a pass keeps the invariant.                                 *)
LEMMA SweepKeeps ==
    ASSUME SettleInv, NEW s \in Sweepers, SweepStep(s)
    PROVE  SettleInv'
<1>1. CASE Begin(s)
  BY <1>1, BeginKeeps
<1>2. CASE Unclaim(s) \/ RecordSettlement(s)
  BY <1>2, EndOfClaimKeeps
<1>3. CASE PickRest(s) \/ CancelRest(s) \/ NextRest(s)
  <2>1. UNCHANGED <<claimed, settlements, sweep>>
    BY <1>3 DEF PickRest, CancelRest, NextRest, settleVars
  <2> QED
    BY <2>1, RestKeeps
<1>4. CASE Priced(s) \/ NotPriced(s) \/ ListRests(s) \/ ReadPosition(s)
           \/ PayCash(s) \/ BurnUnits(s) \/ EndPass(s)
  <2>1. UNCHANGED <<claimed, settlements>>
    BY <1>4 DEF Priced, NotPriced, ListRests, ReadPosition, PayCash, BurnUnits, EndPass
  <2>2. PICK to \in Stages : /\ sweep' = [sweep EXCEPT ![s] = to]
                             /\ to \in Settling => sweep[s] \in Settling
    BY <1>4 DEF Priced, NotPriced, ListRests, ReadPosition, PayCash, BurnUnits, EndPass,
                Pass, Stages, Settling
  <2> QED
    BY <2>1, <2>2, MoveKeeps
<1> QED
  BY <1>1, <1>2, <1>3, <1>4 DEF SweepStep

(* So does every other step: none of them touches the sweep.                 *)
LEMMA SettleStep == SettleInv /\ [OptNext]_optVars => SettleInv'
<1> SUFFICES ASSUME SettleInv, [OptNext]_optVars PROVE SettleInv'
  OBVIOUS
<1>1. CASE \E s \in Sweepers : SweepStep(s)
  BY <1>1, SweepKeeps
<1>2. CASE ~\E s \in Sweepers : SweepStep(s)
  <2>1. UNCHANGED <<claimed, settlements, sweep>>
    BY <1>2 DEF OptNext, optVars, settleVars, Expire, FindOpen, OptionPlace, OptionStep, OptionCancel
  <2> QED
    BY <2>1, RestKeeps
<1> QED
  BY <1>1, <1>2

(* A settled symbol never settles twice, and stays claimed (Market.Settle):  *)
(* for any number of concurrent passes and requests.                         *)
THEOREM OptionSettlesOnce == OptSpec => []SettledOnce
<1>1. SettleInv => SettledOnce
  BY DEF SettleInv
<1> QED
  BY <1>1, SettleInit, SettleStep, PTL DEF OptSpec

-----------------------------------------------------------------------------
(* What the registry has of the orders the book and its hooks work on.       *)

\* An order of the account has the side and the price it was recorded with.
RecordedAs(id, side, price) == id \in EdgeIds =>
    orig[id] # 0 /\ record[id].side = side /\ record[id].price = price

\* A trade is between a buy and a sell, and no limit order of the account got
\* a price beyond its own.
Sound(t) ==
    /\ t.buy \in EdgeIds => /\ orig[t.buy] # 0 /\ record[t.buy].side = "buy"
                            /\ record[t.buy].kind = "limit" => t.price =< record[t.buy].price
    /\ t.sell \in EdgeIds => /\ orig[t.sell] # 0 /\ record[t.sell].side = "sell"
                             /\ record[t.sell].kind = "limit" => t.price >= record[t.sell].price

BookAsRecorded ==
    /\ \A side \in Sides : \A k \in 1..Len(queue[side]) :
          RecordedAs(queue[side][k].id, side, queue[side][k].price)
    /\ phase = "match" => RecordedAs(taker.id, taker.side, taker.price)
    /\ \A n \in 1..Len(trades) : Sound(trades[n])

\* Where an order is its handler's alone: on its way into the book, or being
\* undone.  Only a LIMIT order reserves.
InHands(t) == pc[t] \in Entering \cup {"release"}

AsAsked(t) ==
    /\ pc[t] \in Entering => /\ record[req[t].id].side = req[t].side
                             /\ record[req[t].id].price = req[t].price
    /\ pc[t] = "reserve" => req[t].kind = "limit"
    /\ pc[t] = "release" => /\ record[req[t].id] = None /\ orig[req[t].id] = 0
                            /\ req[t].id \in 1..seq

OneHandEach == \A t, u \in Threads : t # u /\ InHands(t) /\ InHands(u) => req[t].id # req[u].id

PricedByKind == \A id \in EdgeIds : record[id] # None =>
    record[id].kind \in {"limit", "market"} /\ (record[id].kind = "market" <=> record[id].price = 0)

SideInv ==
    /\ EdgeInv /\ BookAsRecorded /\ OneHandEach /\ PricedByKind
    /\ \A t \in Threads : AsAsked(t)

(* What the registry has of an order the book knows never changes.           *)
LEMMA RecordsStay ==
    ASSUME EdgeInv, [EdgeNext]_allVars, NEW id \in EdgeIds, orig[id] # 0
    PROVE  /\ orig'[id] = orig[id] /\ record[id] \in Rec /\ record'[id] \in Rec
           /\ record'[id].side = record[id].side /\ record'[id].price = record[id].price
           /\ record'[id].kind = record[id].kind /\ record'[id].orig = record[id].orig
<1>1. orig'[id] = orig[id]
  <2>1. [Next]_vars
    BY EdgeBookStep
  <2>2. orig \in [Ids -> Nat] /\ id \in Ids
    BY EdgeAssumption DEF EdgeAssumption, EdgeInv, AccountInv, BookInv, TypeOK
  <2>3. ASSUME NEW o \in Order(Volumes), Submit(o) PROVE orig'[id] = orig[id]
    BY <2>2, <2>3 DEF Submit
  <2>4. CASE UNCHANGED orig
    BY <2>4
  <2> QED
    BY <2>1, <2>3, <2>4 DEF Next, vars, bookVars, Register, MatchOne, EnqueueLocked, Discard, Fire,
                            Return, CancelOrder
<1>2. record[id] # None /\ record[id] \in Rec
  BY DEF EdgeInv, EdgeTypeOK, Known
<1>3. CASE RegistryHook
  BY <1>1, <1>2, <1>3, RegistryWrites
<1>4. CASE ~RegistryHook
  <2>1. record'[id] = record[id]
    BY <1>4, WhoWritesRecords DEF WritesFew
  <2> QED
    BY <1>1, <1>2, <2>1
<1> QED
  BY <1>3, <1>4

(* Whatever comes to rest, is matched or traded in a step was there before   *)
(* it or is as recorded.                                                     *)
LEMMA BookStaysAsRecorded ==
    ASSUME SideInv, [EdgeNext]_allVars,
           \A side \in Sides : \A k \in 1..Len(queue'[side]) :
              \/ \E j \in 1..Len(queue[side]) : /\ queue'[side][k].id = queue[side][j].id
                                                /\ queue'[side][k].price = queue[side][j].price
              \/ RecordedAs(queue'[side][k].id, side, queue'[side][k].price),
           phase' = "match" =>
              \/ phase = "match" /\ taker'.id = taker.id /\ taker'.side = taker.side
                                 /\ taker'.price = taker.price
              \/ RecordedAs(taker.id, taker.side, taker.price)',
           \A n \in 1..Len(trades') : \/ \E m \in 1..Len(trades) : trades'[n] = trades[m]
                                      \/ Sound(trades'[n])
    PROVE  BookAsRecorded'
<1>1. ASSUME NEW id, NEW side, NEW price, RecordedAs(id, side, price)
      PROVE  RecordedAs(id, side, price)'
  BY <1>1, RecordsStay DEF SideInv, RecordedAs
<1>2. ASSUME NEW x, Sound(x) PROVE Sound(x)'
  BY <1>2, RecordsStay DEF SideInv, Sound
<1>3. ASSUME NEW side \in Sides, NEW k \in 1..Len(queue'[side])
      PROVE  RecordedAs(queue[side][k].id, side, queue[side][k].price)'
  <2>1. RecordedAs(queue'[side][k].id, side, queue'[side][k].price)
    BY DEF SideInv, BookAsRecorded
  <2>2. PICK r : r = queue'[side][k]
    OBVIOUS
  <2>3. RecordedAs(r.id, side, r.price)
    BY <2>1, <2>2
  <2>4. RecordedAs(r.id, side, r.price)'
    BY <2>3, <1>1
  <2> QED
    BY <2>2, <2>4 DEF RecordedAs
<1>4. ASSUME phase' = "match" PROVE RecordedAs(taker.id, taker.side, taker.price)'
  <2>1. CASE phase = "match" /\ taker'.id = taker.id /\ taker'.side = taker.side
                             /\ taker'.price = taker.price
    <3>1. RecordedAs(taker.id, taker.side, taker.price)
      BY <2>1 DEF SideInv, BookAsRecorded
    <3>2. RecordedAs(taker.id, taker.side, taker.price) =>
            (taker.id \in EdgeIds => /\ orig'[taker.id] # 0 /\ record'[taker.id].side = taker.side
                                     /\ record'[taker.id].price = taker.price)
      BY <1>1 DEF RecordedAs
    <3> QED
      BY <2>1, <3>1, <3>2 DEF RecordedAs
  <2> QED
    BY <1>4, <2>1
<1>5. ASSUME NEW n \in 1..Len(trades') PROVE Sound(trades[n])'
  <2>1. Sound(trades'[n])
    BY DEF SideInv, BookAsRecorded
  <2> QED
    BY <2>1, <1>2 DEF Sound
<1> QED
  BY <1>3, <1>4, <1>5 DEF BookAsRecorded

(* The loop trades the taker with an order it crosses, so a limit order of   *)
(* the account pays no more and gets no less than its price.                 *)
LEMMA MatchAsRecorded ==
    ASSUME SideInv, [EdgeNext]_allVars, MatchOne
    PROVE  BookAsRecorded'
<1> DEFINE side == Opposite(taker.side)
           q == queue[side]
           r == q[1]
           v == IF taker.vol =< r.vol THEN taker.vol ELSE r.vol
<1>1. /\ side \in Sides /\ q \in Seq(Resting) /\ 1 \in 1..Len(q) /\ r \in Resting
      /\ taker \in Order(Nat) /\ queue'[Opposite(side)] = queue[Opposite(side)]
      /\ taker' = [taker EXCEPT !.vol = @ - v]
      /\ \/ /\ Len(queue'[side]) = Len(q) - 1
            /\ \A i \in 1..(Len(q) - 1) : queue'[side][i] = q[i + 1]
         \/ /\ Len(queue'[side]) = Len(q)
            /\ queue'[side][1] = [r EXCEPT !.vol = @ - v]
            /\ \A i \in 2..Len(q) : queue'[side][i] = q[i]
  BY MatchOneQueue, BookAssumption DEF SideInv, EdgeInv, AccountInv
<1>2. /\ phase = "match" /\ Crosses(taker, r.price) /\ trades' = Append(trades, TradeWith(r, v))
  BY DEF MatchOne, LoopGoesOn
<1>3. taker'.id = taker.id /\ taker'.side = taker.side /\ taker'.price = taker.price
  BY <1>1 DEF Order
<1>4. Sound(TradeWith(r, v))
  <2>1. /\ RecordedAs(taker.id, taker.side, taker.price) /\ RecordedAs(r.id, side, r.price)
        /\ taker.id \in EdgeIds => record[taker.id].kind = taker.kind
    BY <1>1, <1>2 DEF SideInv, BookAsRecorded, EdgeInv, TakerKind
  <2>2. taker.price \in Nat /\ r.price \in Nat /\ taker.side \in Sides
    BY <1>1, BookAssumption DEF BookAssumption, Order, Resting
  <2> HIDE DEF r, v
  <2>3. CASE taker.side = "buy"
    <3>1. side = "sell"
      BY <2>3 DEF Opposite
    <3>2. /\ TradeWith(r, v).buy = taker.id /\ TradeWith(r, v).sell = r.id
          /\ TradeWith(r, v).price = r.price
      BY <2>3 DEF TradeWith
    <3>3. taker.kind = "limit" => r.price =< taker.price
      BY <1>2, <2>2, <2>3 DEF Crosses
    <3> QED
      BY <2>1, <2>2, <2>3, <3>1, <3>2, <3>3 DEF Sound, RecordedAs
  <2>4. CASE taker.side = "sell"
    <3>1. side = "buy"
      BY <2>4 DEF Opposite
    <3>2. /\ TradeWith(r, v).buy = r.id /\ TradeWith(r, v).sell = taker.id
          /\ TradeWith(r, v).price = r.price
      BY <2>4 DEF TradeWith
    <3>3. taker.kind = "limit" => r.price >= taker.price
      BY <1>2, <2>2, <2>4 DEF Crosses
    <3> QED
      BY <2>1, <2>2, <2>4, <3>1, <3>2, <3>3 DEF Sound, RecordedAs
  <2> QED
    BY <2>2, <2>3, <2>4 DEF Sides
<1>5. ASSUME NEW s \in Sides, NEW k \in 1..Len(queue'[s])
      PROVE  \E j \in 1..Len(queue[s]) : /\ queue'[s][k].id = queue[s][j].id
                                         /\ queue'[s][k].price = queue[s][j].price
  <2>1. CASE s = side
    <3> DEFINE j == IF Len(queue'[side]) = Len(q) THEN k ELSE k + 1
    <3>1. j \in 1..Len(q)
      BY <1>1, <2>1
    <3>2. queue'[s][k].id = q[j].id /\ queue'[s][k].price = q[j].price
      <4>1. CASE Len(queue'[side]) = Len(q) /\ k = 1
        <5>1. queue'[s][k] = [r EXCEPT !.vol = @ - v]
          BY <1>1, <2>1, <4>1
        <5> QED
          BY <1>1, <4>1, <5>1 DEF Resting
      <4>2. CASE ~(Len(queue'[side]) = Len(q) /\ k = 1)
        <5>1. queue'[s][k] = q[j]
          BY <1>1, <2>1, <4>2
        <5> QED
          BY <5>1
      <4> QED
        BY <4>1, <4>2
    <3> QED
      BY <2>1, <3>1, <3>2
  <2>2. CASE s # side
    <3>1. s = Opposite(side)
      BY <1>1, <2>2 DEF Opposite, Sides
    <3> QED
      BY <1>1, <3>1
  <2> QED
    BY <2>1, <2>2
<1>6. ASSUME NEW n \in 1..Len(trades')
      PROVE  \/ \E m \in 1..Len(trades) : trades'[n] = trades[m]
             \/ Sound(trades'[n])
  <2>1. trades \in Seq(Trade)
    BY DEF SideInv, EdgeInv, AccountInv, BookInv, TypeOK
  <2>2. CASE n = Len(trades) + 1
    <3>1. trades'[n] = TradeWith(r, v)
      BY <1>2, <2>1, <2>2
    <3> QED
      BY <1>4, <3>1
  <2>3. CASE n # Len(trades) + 1
    <3>1. n \in 1..Len(trades) /\ trades'[n] = trades[n]
      BY <1>2, <2>1, <2>3
    <3> QED
      BY <3>1
  <2> QED
    BY <2>2, <2>3
<1> QED
  BY <1>2, <1>3, <1>5, <1>6, BookStaysAsRecorded

(* The other steps of the book: an order comes to rest as it was matched, a  *)
(* trade is told, an order leaves, or one comes that was recorded.           *)
LEMMA BookAsRecordedStep ==
    ASSUME SideInv, [EdgeNext]_allVars
    PROVE  BookAsRecorded'
<1>0. /\ BookInv /\ trades \in Seq(Trade) /\ \A side \in Sides : queue[side] \in Seq(Resting)
  BY DEF SideInv, EdgeInv, AccountInv, BookInv, TypeOK
<1>1. CASE MatchOne
  BY <1>1, MatchAsRecorded
<1>2. CASE UNCHANGED <<queue, taker, trades>> /\ (phase' = "match" => phase = "match")
  BY <1>2, BookStaysAsRecorded
<1>3. CASE EnqueueLocked
  <2>1. RecordedAs(taker.id, taker.side, taker.price) /\ phase' = "fire" /\ trades' = trades
    BY <1>3 DEF EnqueueLocked, SideInv, BookAsRecorded
  <2>0. \E i \in 0..Len(queue[taker.side]) :
           /\ Len(queue'[taker.side]) = Len(queue[taker.side]) + 1
           /\ \A n \in 1..(Len(queue[taker.side]) + 1) : queue'[taker.side][n] =
                 IF n =< i THEN queue[taker.side][n]
                 ELSE IF n = i + 1 THEN [id |-> taker.id, price |-> taker.price,
                                         vol |-> taker.vol, at |-> arrivals]
                 ELSE queue[taker.side][n - 1]
    BY <1>0, <1>3, EnqueueQueue, BookAssumption
  <2>2. ASSUME NEW side \in Sides, NEW k \in 1..Len(queue'[side])
        PROVE  \/ \E j \in 1..Len(queue[side]) : /\ queue'[side][k].id = queue[side][j].id
                                                  /\ queue'[side][k].price = queue[side][j].price
               \/ RecordedAs(queue'[side][k].id, side, queue'[side][k].price)
    <3> DEFINE q == queue[side]
    <3>1. CASE side = taker.side
      <4>1. PICK i \in 0..Len(q) :
               /\ Len(queue'[side]) = Len(q) + 1
               /\ \A n \in 1..(Len(q) + 1) : queue'[side][n] =
                     IF n =< i THEN q[n]
                     ELSE IF n = i + 1 THEN [id |-> taker.id, price |-> taker.price,
                                             vol |-> taker.vol, at |-> arrivals]
                     ELSE q[n - 1]
        BY <2>0, <3>1
      <4>2. CASE k =< i
        <5>1. queue'[side][k] = q[k] /\ k \in 1..Len(q)
          BY <1>0, <4>1, <4>2
        <5> QED
          BY <5>1
      <4>3. CASE k = i + 1
        <5>1. queue'[side][k].id = taker.id /\ queue'[side][k].price = taker.price
          BY <1>0, <4>1, <4>3
        <5> QED
          BY <2>1, <3>1, <5>1
      <4>4. CASE k > i + 1
        <5>1. queue'[side][k] = q[k - 1] /\ k - 1 \in 1..Len(q)
          BY <1>0, <4>1, <4>4
        <5> QED
          BY <5>1
      <4>5. k \in Nat /\ i \in Nat
        BY <1>0
      <4> QED
        BY <4>2, <4>3, <4>4, <4>5
    <3>2. CASE side # taker.side
      <4>1. side = Opposite(taker.side) /\ queue'[Opposite(taker.side)] = queue[Opposite(taker.side)]
        <5>1. taker.side \in Sides
          BY <1>0, <1>3, EnqueueQueue, BookAssumption
        <5>2. queue'[Opposite(taker.side)] = queue[Opposite(taker.side)]
          BY <1>0, <1>3, EnqueueQueue, BookAssumption
        <5> QED
          BY <3>2, <5>1, <5>2 DEF Opposite, Sides
      <4> QED
        BY <4>1
    <3> QED
      BY <3>1, <3>2
  <2> QED
    BY <2>1, <2>2, BookStaysAsRecorded
<1>4. CASE Discard \/ Return
  <2>1. UNCHANGED <<queue, trades>> /\ phase' # "match"
    BY <1>4 DEF Discard, Return
  <2> QED
    BY <2>1, BookStaysAsRecorded
<1>5. CASE Fire
  <2>1. UNCHANGED queue /\ phase' # "match" /\ trades # <<>> /\ trades' = Tail(trades)
    BY <1>5 DEF Fire
  <2>2. ASSUME NEW n \in 1..Len(trades') PROVE \E m \in 1..Len(trades) : trades'[n] = trades[m]
    <3>1. n + 1 \in 1..Len(trades) /\ trades'[n] = trades[n + 1]
      BY <1>0, <2>1
    <3> QED
      BY <3>1
  <2> QED
    BY <2>1, <2>2, BookStaysAsRecorded
<1>6. ASSUME NEW x \in Ids, CancelOrder(x) PROVE BookAsRecorded'
  <2>1. phase' # "match" /\ trades' = trades
    BY <1>6 DEF CancelOrder
  <2>0. PICK side \in Sides : \E k \in 1..Len(queue[side]) :
           /\ queue'[Opposite(side)] = queue[Opposite(side)]
           /\ Len(queue'[side]) = Len(queue[side]) - 1
           /\ \A i \in 1..(Len(queue[side]) - 1) :
                 queue'[side][i] = IF i < k THEN queue[side][i] ELSE queue[side][i + 1]
    BY <1>0, <1>6, CancelQueue, BookAssumption
  <2>2. PICK k \in 1..Len(queue[side]) :
           /\ queue'[Opposite(side)] = queue[Opposite(side)]
           /\ Len(queue'[side]) = Len(queue[side]) - 1
           /\ \A i \in 1..(Len(queue[side]) - 1) :
                 queue'[side][i] = IF i < k THEN queue[side][i] ELSE queue[side][i + 1]
    BY <2>0
  <2>3. ASSUME NEW s \in Sides, NEW i \in 1..Len(queue'[s])
        PROVE  \E j \in 1..Len(queue[s]) : queue'[s][i] = queue[s][j]
    <3>1. CASE s = side
      <4>1. i \in 1..(Len(queue[s]) - 1)
        BY <1>0, <2>2, <3>1
      <4>2. queue'[s][i] = IF i < k THEN queue[s][i] ELSE queue[s][i + 1]
        BY <2>2, <3>1, <4>1
      <4>3. i \in 1..Len(queue[s]) /\ i + 1 \in 1..Len(queue[s])
        BY <1>0, <4>1
      <4> QED
        BY <4>2, <4>3
    <3>2. CASE s # side
      <4>1. s = Opposite(side)
        BY <3>2 DEF Opposite, Sides
      <4> QED
        BY <2>2, <4>1
    <3> QED
      BY <3>1, <3>2
  <2> QED
    BY <2>1, <2>3, BookStaysAsRecorded
<1>7. ASSUME NEW o, Submit(o), RecordedAs(o.id, o.side, o.price)' PROVE BookAsRecorded'
  <2>1. UNCHANGED <<queue, trades>> /\ taker' = o
    BY <1>7 DEF Submit
  <2>2. RecordedAs(taker.id, taker.side, taker.price)'
    BY <1>7, <2>1 DEF RecordedAs
  <2> QED
    BY <2>1, <2>2, BookStaysAsRecorded
<1>8. ASSUME NEW t \in Threads, EnterBook(t) PROVE BookAsRecorded'
  <2>0. PICK o : o = req[t]
    OBVIOUS
  <2>1. pc[t] \in Entering /\ Submit(o) /\ record' = record
    BY <1>8, <2>0 DEF EnterBook, Goto, Entering
  <2>2. /\ o \in Order(Volumes) /\ o.id \in EdgeIds
        /\ record[o.id].side = o.side /\ record[o.id].price = o.price
    BY <2>0, <2>1 DEF SideInv, EdgeInv, OnItsWay, AsAsked
  <2>3. orig'[o.id] # 0
    <3>1. orig \in [Ids -> Nat] /\ o.id \in Ids /\ o.vol # 0
      BY <1>0, <2>2, BookAssumption DEF BookInv, TypeOK, Order, BookAssumption
    <3> QED
      BY <2>1, <3>1 DEF Submit
  <2>4. RecordedAs(o.id, o.side, o.price)'
    BY <2>1, <2>2, <2>3 DEF RecordedAs
  <2> QED
    BY <1>7, <2>1, <2>4
<1>9. ASSUME NEW o \in Order(Volumes), EmulatorPlaces(o) PROVE BookAsRecorded'
  <2>1. Submit(o) /\ o.id \notin EdgeIds
    BY <1>9, EdgeAssumption DEF EmulatorPlaces, EdgeAssumption
  <2>2. RecordedAs(o.id, o.side, o.price)'
    BY <2>1 DEF RecordedAs
  <2> QED
    BY <1>7, <2>1, <2>2
<1>10. ASSUME NEW x \in EmuIds, EmulatorCancels(x) PROVE BookAsRecorded'
  BY <1>6, <1>10, EdgeAssumption DEF EmulatorCancels, EdgeAssumption
<1>11. ASSUME NEW t \in Threads, CancelInBook(t) PROVE BookAsRecorded'
  <2>1. CancelOrder(req[t].id) /\ req[t].id \in EdgeIds
    BY <1>11 DEF CancelInBook, Goto, SideInv, EdgeInv, InTheBook, Cancelling
  <2> QED
    BY <1>6, <2>1, EdgeAssumption DEF EdgeAssumption
<1>12. CASE UNCHANGED vars
  BY <1>2, <1>12 DEF vars, bookVars
<1>13. ASSUME NEW t \in Threads, Step(t) PROVE BookAsRecorded'
  BY <1>8, <1>11, <1>12, <1>13 DEF Step, Reserve, Remove, Announce, Release, CancelMisses,
                                   AnswerMissed, MarkCanceled
<1>14. CASE HolderStep
  BY <1>1, <1>3, <1>4, <1>5, <1>12, <1>14 DEF HolderStep, BookStep, RegistryHook, ReportHook,
                                              LedgerBuyer, LedgerSeller, LeaveBook
<1>15. CASE \/ \E t \in Threads, o \in Order(Volumes), client \in Clients : Record(t, o, client)
            \/ \E t \in Threads, id \in EdgeIds : Lookup(t, id)
            \/ \E asset \in Assets : Withdraw(asset)
            \/ UNCHANGED allVars
  BY <1>12, <1>15 DEF Record, Lookup, Withdraw, allVars
<1> QED
  BY <1>9, <1>10, <1>13, <1>14, <1>15 DEF EdgeNext

-----------------------------------------------------------------------------
(* Which handler has which order in hand.                                    *)

(* An order that a handler has in hand has had an id for some time.          *)
LEMMA InHandsIsOld ==
    ASSUME SideInv, NEW t \in Threads, InHands(t)
    PROVE  req[t] \in Order(Volumes) /\ req[t].id \in EdgeIds /\ req[t].id \in 1..seq
           /\ orig[req[t].id] = 0
<1>1. OnItsWay(t) /\ AsAsked(t)
  BY DEF SideInv, EdgeInv
<1>2. req[t] \in Order(Volumes) /\ req[t].id \in EdgeIds /\ Known(req[t].id)
  BY <1>1 DEF InHands, OnItsWay, SideInv, EdgeInv
<1>3. CASE pc[t] \in Entering
  <2>1. record[req[t].id] \in Rec /\ orig[req[t].id] = 0
    BY <1>1, <1>3 DEF OnItsWay
  <2>2. record[req[t].id] # None
    BY <2>1 DEF Rec, None
  <2> QED
    BY <1>2, <2>1, <2>2 DEF Known
<1>4. CASE pc[t] = "release"
  BY <1>1, <1>2, <1>4 DEF AsAsked
<1> QED
  BY <1>3, <1>4 DEF InHands

(* A step that takes no order in hand, and leaves alone what is in hand.     *)
LEMMA HandsKept ==
    ASSUME SideInv,
           \A u \in Threads : pc'[u] \in Entering =>
              /\ pc[u] \in Entering /\ req'[u] = req[u]
              /\ record'[req[u].id].side = record[req[u].id].side
              /\ record'[req[u].id].price = record[req[u].id].price,
           \A u \in Threads : pc'[u] = "reserve" => pc[u] = "reserve",
           \A u \in Threads : pc'[u] = "release" =>
              /\ InHands(u) /\ req'[u] = req[u] /\ req[u].id \in 1..seq'
              /\ record'[req[u].id] = None /\ orig'[req[u].id] = 0
    PROVE  OneHandEach' /\ \A u \in Threads : AsAsked(u)'
<1>1. \A u \in Threads : InHands(u)' => InHands(u) /\ req'[u] = req[u]
  BY DEF InHands
<1>2. OneHandEach'
  BY <1>1 DEF SideInv, OneHandEach
<1>3. ASSUME NEW u \in Threads PROVE AsAsked(u)'
  <2>1. AsAsked(u)
    BY DEF SideInv
  <2>2. pc'[u] = "reserve" => req'[u].kind = "limit"
    <3>1. "reserve" \in Entering
      BY DEF Entering, Unannounced
    <3> QED
      BY <2>1, <3>1 DEF AsAsked
  <2>3. pc'[u] \in Entering => /\ record'[req'[u].id].side = req'[u].side
                              /\ record'[req'[u].id].price = req'[u].price
    BY <2>1 DEF AsAsked
  <2>4. pc'[u] = "release" => /\ record'[req'[u].id] = None /\ orig'[req'[u].id] = 0
                             /\ req'[u].id \in 1..seq'
    OBVIOUS
  <2> QED
    BY <2>2, <2>3, <2>4 DEF AsAsked
<1> QED
  BY <1>2, <1>3

(* A step of a handler of its own, that changes no record of another order,  *)
(* or of nobody, that changes no record before its order is in the book.     *)
LEMMA HandsOfOthers ==
    ASSUME SideInv, seq \in Nat, seq' \in Nat, seq =< seq',
           \A u \in Threads : InHands(u) /\ pc'[u] = pc[u] =>
              req'[u] = req[u] /\ record'[req[u].id] = record[req[u].id]
                /\ orig'[req[u].id] = orig[req[u].id],
           \A u \in Threads : pc'[u] # pc[u] =>
              /\ pc'[u] \in Entering => /\ pc[u] \in Entering /\ req'[u] = req[u] /\ record' = record
                                        /\ pc'[u] # "reserve"
              /\ pc'[u] = "release" => /\ pc[u] \in Entering /\ req'[u] = req[u]
                                       /\ record'[req[u].id] = None /\ orig' = orig
    PROVE  OneHandEach' /\ \A u \in Threads : AsAsked(u)'
<1>1. \A u \in Threads : pc'[u] \in Entering =>
              /\ pc[u] \in Entering /\ req'[u] = req[u]
              /\ record'[req[u].id].side = record[req[u].id].side
              /\ record'[req[u].id].price = record[req[u].id].price
  BY DEF InHands
<1>2. \A u \in Threads : pc'[u] = "reserve" => pc[u] = "reserve"
  BY DEF Entering, Unannounced
<1>3. ASSUME NEW u \in Threads, pc'[u] = "release"
      PROVE  /\ InHands(u) /\ req'[u] = req[u] /\ req[u].id \in 1..seq'
             /\ record'[req[u].id] = None /\ orig'[req[u].id] = 0
  <2>1. InHands(u) /\ req'[u] = req[u]
    BY <1>3 DEF InHands
  <2>2. req[u].id \in 1..seq' /\ orig[req[u].id] = 0
    BY <2>1, InHandsIsOld
  <2>3. AsAsked(u)
    BY DEF SideInv
  <2> QED
    BY <1>3, <2>1, <2>2, <2>3 DEF AsAsked
<1> QED
  BY <1>1, <1>2, <1>3, HandsKept

(* No step of the edge puts one order into two hands, or makes of an order   *)
(* something else than was asked for.                                        *)
LEMMA HandsStep ==
    ASSUME SideInv, [EdgeNext]_allVars
    PROVE  OneHandEach' /\ \A u \in Threads : AsAsked(u)'
<1> DEFINE Goal == OneHandEach' /\ \A u \in Threads : AsAsked(u)'
<1>0. /\ EdgeInv /\ seq \in Nat /\ pc \in [Threads -> Places] /\ DOMAIN req = Threads
      /\ record \in [EdgeIds -> Rec \cup {None}]
  BY DEF SideInv, EdgeInv, EdgeTypeOK, Places
<1>1. ASSUME NEW t \in Threads, NEW from, NEW to \in Places, Goto(t, from, to),
             UNCHANGED <<record, orig, seq>>, from # to, to # "reserve", to # "release",
             to \in Entering => from \in Entering
      PROVE  Goal
  <2>1. \A u \in Threads \ {t} : pc'[u] = pc[u] /\ req'[u] = req[u]
    BY <1>0, <1>1 DEF Goto
  <2>2. pc[t] = from /\ pc'[t] = to /\ (to # "idle" => req'[t] = req[t])
    BY <1>0, <1>1 DEF Goto
  <2>3. "idle" \notin Entering
    BY DEF Entering, Unannounced
  <2>4. seq' \in Nat /\ seq =< seq'
    BY <1>0, <1>1
  <2> QED
    BY <1>0, <1>1, <2>1, <2>2, <2>3, <2>4, HandsOfOthers
<1>2. CASE UNCHANGED <<record, seq, pc, req>> /\ \A id \in EdgeIds : orig'[id] = orig[id]
  <2>1. \A u \in Threads : InHands(u) => req[u].id \in EdgeIds
    BY InHandsIsOld
  <2>2. seq' \in Nat /\ seq =< seq'
    BY <1>0, <1>2
  <2> QED
    BY <1>0, <1>2, <2>1, <2>2, HandsOfOthers
<1>3. CASE RegistryHook
  <2>1. UNCHANGED <<vars, seq, pc, req>>
    BY <1>3 DEF RegistryHook
  <2>2. ASSUME NEW u \in Threads, InHands(u) PROVE record'[req[u].id] = record[req[u].id]
    BY <1>0, <1>3, <2>2, InHandsIsOld, RegistryWrites
  <2>3. seq' \in Nat /\ seq =< seq' /\ orig' = orig
    BY <1>0, <2>1 DEF vars, bookVars
  <2> QED
    BY <1>0, <2>1, <2>2, <2>3, HandsOfOthers
<1>4. ASSUME NEW t \in Threads, Remove(t) PROVE Goal
  <2>1. PICK x : x = req[t].id
    OBVIOUS
  <2>2. /\ pc[t] \in {"unfunded", "refused"} /\ pc'[t] \in {"idle", "release"}
        /\ (pc'[t] = "release" => req'[t] = req[t])
        /\ \A u \in Threads \ {t} : pc'[u] = pc[u] /\ req'[u] = req[u]
    BY <1>0, <1>4 DEF Remove, Goto
  <2>3. pc[t] \in Entering /\ InHands(t)
    BY <2>2 DEF InHands, Entering, Unannounced
  <2>4. /\ x \in EdgeIds /\ UNCHANGED <<vars, seq>> /\ record' = [record EXCEPT ![x] = None]
    BY <1>4, <2>1, <2>3, InHandsIsOld DEF Remove
  <2>5. record'[x] = None /\ \A id \in EdgeIds \ {x} : record'[id] = record[id]
    BY <1>0, <2>4
  <2>6. \A u \in Threads \ {t} : InHands(u) => req[u].id \in EdgeIds \ {x}
    BY <2>1, <2>3, InHandsIsOld DEF SideInv, OneHandEach
  <2>7. seq' \in Nat /\ seq =< seq' /\ orig' = orig
    BY <1>0, <2>4 DEF vars, bookVars
  <2>8. pc'[t] # pc[t] /\ pc'[t] \notin Entering
    BY <2>2 DEF Entering, Unannounced
  <2> QED
    BY <1>0, <2>1, <2>2, <2>3, <2>5, <2>6, <2>7, <2>8, HandsOfOthers
<1>5. ASSUME NEW t \in Threads, EnterBook(t) PROVE Goal
  <2>1. PICK o : o = req[t]
    OBVIOUS
  <2>2. /\ pc[t] = "book" /\ pc'[t] = "placing" /\ UNCHANGED <<seq, record>> /\ Submit(o)
        /\ \A u \in Threads \ {t} : pc'[u] = pc[u] /\ req'[u] = req[u]
    BY <1>0, <1>5, <2>1 DEF EnterBook, Goto
  <2>3. InHands(t) /\ "placing" \notin Entering
    BY <2>2 DEF InHands, Entering, Unannounced
  <2>4. \A u \in Threads \ {t} : InHands(u) => req[u].id # o.id
    BY <2>1, <2>3 DEF SideInv, OneHandEach
  <2>5. \A u \in Threads \ {t} : InHands(u) => orig'[req[u].id] = orig[req[u].id]
    <3>1. orig \in [Ids -> Nat] /\ EdgeIds \subseteq Ids
      BY <1>0, EdgeAssumption DEF EdgeAssumption, EdgeInv, AccountInv, BookInv, TypeOK
    <3> QED
      BY <2>2, <2>4, <3>1, InHandsIsOld DEF Submit
  <2>6. seq' \in Nat /\ seq =< seq'
    BY <1>0, <2>2
  <2> QED
    BY <2>2, <2>3, <2>5, <2>6, HandsOfOthers
<1>6. ASSUME NEW t \in Threads, NEW o \in Order(Volumes), NEW client \in Clients, Record(t, o, client)
      PROVE  Goal
  <2>1. /\ o.id \in EdgeIds /\ o.id = seq + 1 /\ seq' = seq + 1 /\ pc[t] = "idle"
        /\ UNCHANGED vars
    BY <1>6 DEF Record
  <2>2. seq' \in Nat /\ seq =< seq' /\ orig' = orig
    BY <1>0, <2>1 DEF vars, bookVars
  <2>3. CASE Duplicate(o, client)
    <3>1. UNCHANGED <<record, pc, req>>
      BY <1>6, <2>3 DEF Record
    <3> QED
      BY <1>0, <2>2, <3>1, HandsOfOthers
  <2>4. CASE ~Duplicate(o, client)
    <3>1. /\ pc'[t] = (IF o.kind = "limit" THEN "reserve" ELSE "announce") /\ req'[t] = o
          /\ \A u \in Threads \ {t} : pc'[u] = pc[u] /\ req'[u] = req[u]
          /\ record'[o.id].side = o.side /\ record'[o.id].price = o.price
          /\ \A id \in EdgeIds \ {o.id} : record'[id] = record[id]
      BY <1>0, <1>6, <2>1, <2>4 DEF Record
    <3>2. \A u \in Threads : InHands(u) => req[u].id \in 1..seq /\ req[u].id \in EdgeIds \ {o.id}
                                          /\ orig[req[u].id] = 0 /\ u # t
      BY <1>0, <2>1, InHandsIsOld DEF InHands, Entering, Unannounced
    <3>3. \A u \in Threads \ {t} : InHands(u)' <=> InHands(u)
      BY <3>1 DEF InHands
    <3>4. OneHandEach'
      BY <3>1, <3>2, <3>3 DEF SideInv, OneHandEach
    <3>5. ASSUME NEW u \in Threads, u # t PROVE AsAsked(u)'
      <4>1. AsAsked(u)
        BY DEF SideInv
      <4>2. pc'[u] = pc[u] /\ req'[u] = req[u]
        BY <3>1, <3>5
      <4>3. InHands(u) => record'[req[u].id] = record[req[u].id] /\ req[u].id \in 1..seq'
        BY <1>0, <2>2, <3>1, <3>2
      <4> QED
        BY <2>2, <3>1, <4>1, <4>2, <4>3 DEF AsAsked, InHands, Entering, Unannounced
    <3>6. AsAsked(t)'
      BY <3>1 DEF AsAsked
    <3> QED
      BY <3>4, <3>5, <3>6
  <2> QED
    BY <2>3, <2>4
<1>7. ASSUME NEW t \in Threads, Step(t) PROVE Goal
  <2>1. CASE Reserve(t)
    <3>1. PICK to \in {"announce", "unfunded"} : Goto(t, "reserve", to)
      BY <2>1 DEF Reserve
    <3>2. UNCHANGED <<record, orig, seq>>
      BY <2>1 DEF Reserve, vars, bookVars
    <3> QED
      BY <1>1, <3>1, <3>2 DEF Places, Entering, Unannounced
  <2>2. CASE Announce(t)
    <3>1. PICK to \in {"book", "refused"} : Goto(t, "announce", to)
      BY <2>2 DEF Announce
    <3>2. UNCHANGED <<record, orig, seq>>
      BY <2>2 DEF Announce, vars, bookVars
    <3> QED
      BY <1>1, <3>1, <3>2 DEF Places, Entering, Unannounced
  <2>3. CASE Release(t)
    <3>1. Goto(t, "release", "idle") /\ UNCHANGED <<record, orig, seq>>
      BY <2>3 DEF Release, vars, bookVars
    <3> QED
      BY <1>1, <3>1 DEF Places, Entering, Unannounced
  <2>4. CASE CancelInBook(t)
    <3>1. Goto(t, "cancel", "cancelling") /\ UNCHANGED <<record, orig, seq>>
      BY <2>4 DEF CancelInBook, CancelOrder
    <3> QED
      BY <1>1, <3>1 DEF Places, Entering, Unannounced, Cancelling
  <2>5. CASE CancelMisses(t)
    <3>1. Goto(t, "cancel", "missed") /\ UNCHANGED <<record, orig, seq>>
      BY <2>5 DEF CancelMisses, vars, bookVars
    <3> QED
      BY <1>1, <3>1 DEF Places, Entering, Unannounced, Cancelling
  <2>6. CASE AnswerMissed(t)
    <3>1. Goto(t, "missed", "idle") /\ UNCHANGED <<record, orig, seq>>
      BY <2>6 DEF AnswerMissed, vars, bookVars
    <3> QED
      BY <1>1, <3>1 DEF Places, Entering, Unannounced
  <2>7. CASE MarkCanceled(t)
    <3>1. Goto(t, "mark", "idle") /\ UNCHANGED <<record, orig, seq>>
      BY <1>0, <2>7, MarkKeeps DEF MarkCanceled, vars, bookVars
    <3> QED
      BY <1>1, <3>1 DEF Places, Entering, Unannounced
  <2> QED
    BY <1>4, <1>5, <1>7, <2>1, <2>2, <2>3, <2>4, <2>5, <2>6, <2>7 DEF Step
<1>8. ASSUME NEW t \in Threads, NEW id \in EdgeIds, Lookup(t, id) PROVE Goal
  <2>1. /\ pc[t] = "idle" /\ pc'[t] = "cancel" /\ UNCHANGED <<vars, record, seq>>
        /\ \A u \in Threads \ {t} : pc'[u] = pc[u] /\ req'[u] = req[u]
    BY <1>0, <1>8 DEF Lookup
  <2>2. seq' \in Nat /\ seq =< seq' /\ orig' = orig /\ "cancel" \notin Entering
    BY <1>0, <2>1 DEF vars, bookVars, Entering, Unannounced
  <2> QED
    BY <2>1, <2>2, <1>0, HandsOfOthers
<1>9. CASE LeaveBook
  <2>1. UNCHANGED <<record, orig, seq>>
    BY <1>9 DEF LeaveBook, Return
  <2>2. CASE UNCHANGED <<pc, req>>
    BY <1>2, <2>1, <2>2
  <2>3. ASSUME NEW t \in Threads, Goto(t, "placing", "idle") \/ Goto(t, "cancelling", "mark")
        PROVE  Goal
    BY <1>1, <2>1, <2>3 DEF Places, Entering, Unannounced, Cancelling
  <2> QED
    BY <1>9, <2>2, <2>3 DEF LeaveBook
<1>10. CASE BookStep \/ ReportHook \/ LedgerBuyer \/ LedgerSeller
  BY <1>2, <1>10 DEF BookStep, MatchOne, EnqueueLocked, Discard, ReportHook, LedgerBuyer,
                     LedgerSeller, Fire, edgeVars, vars, bookVars
<1>11. CASE \/ \E o \in Order(Volumes) : EmulatorPlaces(o)
            \/ \E id \in EmuIds : EmulatorCancels(id)
  <2>1. UNCHANGED <<record, seq, pc, req>>
    BY <1>11 DEF EmulatorPlaces, EmulatorCancels
  <2>2. \A id \in EdgeIds : orig'[id] = orig[id]
    BY <1>0, <1>11, EdgeAssumption DEF EdgeAssumption, EmulatorPlaces, EmulatorCancels, Submit,
                    CancelOrder, EdgeInv, AccountInv, BookInv, TypeOK
  <2> QED
    BY <1>2, <2>1, <2>2
<1>12. CASE (\E asset \in Assets : Withdraw(asset)) \/ UNCHANGED allVars
  BY <1>2, <1>12 DEF Withdraw, allVars, edgeVars, vars, bookVars
<1>13. CASE HolderStep
  BY <1>3, <1>9, <1>10, <1>13 DEF HolderStep
<1> QED
  BY <1>6, <1>7, <1>8, <1>11, <1>12, <1>13 DEF EdgeNext

(* The clients send LIMIT and MARKET orders, and only the former have a      *)
(* price.                                                                    *)
LEMMA PricedStep ==
    ASSUME SideInv, [EdgeNext]_allVars
    PROVE  PricedByKind'
<1>1. record \in [EdgeIds -> Rec \cup {None}] /\ PricedByKind /\ EdgeInv
  BY DEF SideInv, EdgeInv, EdgeTypeOK
<1>2. ASSUME NEW x \in EdgeIds, \A id \in EdgeIds \ {x} : record'[id] = record[id],
             record'[x] = None \/ (record'[x].kind \in {"limit", "market"}
                                   /\ (record'[x].kind = "market" <=> record'[x].price = 0))
      PROVE  PricedByKind'
  BY <1>1, <1>2 DEF PricedByKind
<1>3. ASSUME NEW t \in Threads, NEW o \in Order(Volumes), NEW client \in Clients,
             o.kind \in EdgeKinds, Record(t, o, client)
      PROVE  PricedByKind'
  <2>1. CASE Duplicate(o, client)
    BY <1>1, <1>3, <2>1 DEF Record, PricedByKind
  <2>2. CASE ~Duplicate(o, client)
    <3>1. /\ o.id \in EdgeIds /\ \A id \in EdgeIds \ {o.id} : record'[id] = record[id]
          /\ record'[o.id].kind = o.kind /\ record'[o.id].price = o.price
      BY <1>1, <1>3, <2>2 DEF Record
    <3>2. o.kind \in {"limit", "market"} /\ (o.kind = "market" <=> o.price = 0)
      BY <1>3, EdgeAssumption DEF EdgeAssumption, Order
    <3> QED
      BY <1>2, <3>1, <3>2
  <2> QED
    BY <2>1, <2>2
<1>4. ASSUME NEW t \in Threads, Remove(t) PROVE PricedByKind'
  <2>1. req[t].id \in EdgeIds
    BY <1>4 DEF Remove, Goto, SideInv, EdgeInv, OnItsWay, Entering, Unannounced
  <2> QED
    BY <1>1, <1>2, <1>4, <2>1 DEF Remove
<1>5. CASE RegistryHook
  <2> SUFFICES ASSUME NEW id \in EdgeIds, record'[id] # None
               PROVE  /\ record'[id].kind \in {"limit", "market"}
                      /\ record'[id].kind = "market" <=> record'[id].price = 0
    BY DEF PricedByKind
  <2>1. record[id] # None /\ record'[id].kind = record[id].kind /\ record'[id].price = record[id].price
    BY <1>1, <1>5, RegistryWrites
  <2> QED
    BY <1>1, <2>1 DEF PricedByKind
<1>6. CASE record' = record
  BY <1>1, <1>6 DEF PricedByKind
<1>7. ASSUME NEW t \in Threads, Step(t) PROVE PricedByKind'
  BY <1>1, <1>4, <1>6, <1>7, MarkKeeps DEF Step, Reserve, Announce, Release, EnterBook, CancelInBook,
                                           CancelMisses, AnswerMissed
<1>8. CASE HolderStep
  BY <1>5, <1>6, <1>8 DEF HolderStep, BookStep, edgeVars, ReportHook, LedgerBuyer, LedgerSeller,
                          LeaveBook
<1>9. CASE \/ \E t \in Threads, id \in EdgeIds : Lookup(t, id)
           \/ \E o \in Order(Volumes) : EmulatorPlaces(o)
           \/ \E id \in EmuIds : EmulatorCancels(id)
           \/ \E asset \in Assets : Withdraw(asset)
           \/ UNCHANGED allVars
  BY <1>6, <1>9 DEF Lookup, EmulatorPlaces, EmulatorCancels, Withdraw, allVars, edgeVars
<1> QED
  BY <1>3, <1>7, <1>8, <1>9 DEF EdgeNext

(* No step breaks what the two agree on. *)
LEMMA SideStep == SideInv /\ [EdgeNext]_allVars => SideInv'
<1> SUFFICES ASSUME SideInv, [EdgeNext]_allVars PROVE SideInv'
  OBVIOUS
<1>1. EdgeInv'
  BY EdgeInvStep DEF SideInv
<1>2. BookAsRecorded' /\ OneHandEach' /\ PricedByKind' /\ \A t \in Threads : AsAsked(t)'
  BY BookAsRecordedStep, HandsStep, PricedStep
<1> QED
  BY <1>1, <1>2 DEF SideInv

(* At first nothing is recorded and the book is empty.                       *)
LEMMA SideInit == EdgeInit => SideInv
<1> SUFFICES ASSUME EdgeInit PROVE SideInv
  OBVIOUS
<1>1. EdgeInv
  BY EdgeInvInit
<1>2. /\ \A t \in Threads : pc[t] = "idle"
      /\ \A id \in EdgeIds : record[id] = None
      /\ phase = "free" /\ trades = <<>> /\ \A side \in Sides : queue[side] = <<>>
  BY DEF EdgeInit, Init
<1>3. BookAsRecorded
  BY <1>2 DEF BookAsRecorded
<1>4. OneHandEach /\ PricedByKind /\ \A t \in Threads : AsAsked(t)
  BY <1>2 DEF OneHandEach, PricedByKind, AsAsked, InHands, Entering, Unannounced
<1> QED
  BY <1>1, <1>3, <1>4 DEF SideInv

-----------------------------------------------------------------------------
(* What the ledger has reserved.                                             *)

\* What an order of the account, or what is left of it, reserves on a side.
Own(o, side, qty) == IF o.kind = "limit" /\ o.side = side THEN LockAmount(o, qty) ELSE 0

Reserving == {"announce", "book", "refused", "release"}

\* The handler that has reserved for an order which is not yet in the book.
HoldsFor(t, id) == pc[t] \in Reserving /\ req[t].id = id

\* The buyer's side of a trade is settled before its seller's.
Paid(id) == IF trades # <<>> /\ hook = 4 /\ trades[1].buy = id THEN trades[1].vol ELSE 0

(* The cost of a quantity, truncated: a natural number, greater at a greater *)
(* price, and what two fills cost falls short of the cost of both in one by  *)
(* at most the unit of the last place.                                       *)
LEMMA MulNat ==
    ASSUME NEW a \in Nat, NEW p \in Nat
    PROVE  Mul(a, p) \in Nat
<1>1. a * p \in Nat
  OBVIOUS
<1>2. ASSUME NEW x \in Nat PROVE x \div Scale \in Nat
  BY LedgerAssumption DEF LedgerAssumption
<1> QED
  BY <1>1, <1>2 DEF Mul

LEMMA MulSplit ==
    ASSUME NEW a \in Nat, NEW b \in Nat, NEW p \in Nat
    PROVE  /\ Mul(a, p) + Mul(b, p) =< Mul(a + b, p)
           /\ Mul(a + b, p) =< Mul(a, p) + Mul(b, p) + 1
<1>1. ASSUME NEW x \in Nat, NEW y \in Nat
      PROVE  /\ (x \div Scale) + (y \div Scale) =< (x + y) \div Scale
             /\ (x + y) \div Scale =< (x \div Scale) + (y \div Scale) + 1
  BY LedgerAssumption DEF LedgerAssumption
<1>2. a * p \in Nat /\ b * p \in Nat /\ (a + b) * p = a * p + b * p
  OBVIOUS
<1> QED
  BY <1>1, <1>2 DEF Mul

LEMMA MulMonotonic ==
    ASSUME NEW a \in Nat, NEW p \in Nat, NEW q \in Nat, p =< q
    PROVE  Mul(a, p) =< Mul(a, q)
<1>1. ASSUME NEW x \in Nat, NEW y \in Nat, x =< y
      PROVE  x \div Scale =< y \div Scale
  BY <1>1, LedgerAssumption DEF LedgerAssumption
<1>2. a * p \in Nat /\ a * q \in Nat /\ a * p =< a * q
  OBVIOUS
<1> QED
  BY <1>1, <1>2 DEF Mul

(* Once the buyer's side of a trade, or the cancel, is settled only the      *)
(* last hook is left.                                                        *)
LEMMA BuyerDone ==
    ASSUME hook \in 1..4
    PROVE  HookDone("buyer") <=> hook = 4
<1>1. Hooks[1] # "buyer" /\ Hooks[2] # "buyer" /\ Hooks[3] = "buyer"
  BY DEF Hooks
<1>2. \A i \in 1..(hook - 1) : i = 1 \/ i = 2 \/ (i = 3 /\ hook = 4)
  OBVIOUS
<1>3. hook = 4 => 3 \in 1..(hook - 1)
  OBVIOUS
<1> QED
  BY <1>1, <1>2, <1>3 DEF HookDone

(* An order is in the book's hands until a cancel of it has been settled.    *)
LEMMA WhenInBook ==
    ASSUME SideInv, NEW id \in EdgeIds
    PROVE  /\ InBook(id) <=> /\ record[id] # None /\ orig[id] # 0
                             /\ record[id].status = "CANCELED" => BeingCancelled(id) /\ hook # 4
           /\ BeforeBook(id) => orig[id] = 0
           /\ SettledVolume(id) = told[id] + Paid(id)
           /\ Paid(id) \in Nat /\ told[id] \in Nat /\ orig[id] \in Nat
           /\ told[id] + Paid(id) =< orig[id]
<1>1. EdgeInv /\ hook \in 1..4 /\ trades \in Seq(Trade) /\ \A t \in Threads : InTheBook(t)
  BY DEF SideInv, EdgeInv, EdgeTypeOK, AccountInv, BookInv, TypeOK
<1>2. HookDone("buyer") <=> hook = 4
  BY <1>1, BuyerDone
<1>3. ASSUME record[id] # None PROVE BeingCancelled(id) <=> CancelledId = id
  BY <1>1, <1>3, WhoseCancel, HookEvent
<1>4. InBook(id) <=> /\ record[id] # None /\ orig[id] # 0
                     /\ record[id].status = "CANCELED" => BeingCancelled(id) /\ hook # 4
  BY <1>2, <1>3 DEF InBook, Recorded
<1>5. BeforeBook(id) => orig[id] = 0
  BY InHandsIsOld DEF BeforeBook, InHands, Entering, Unannounced
<1>6. SettledVolume(id) = told[id] + Paid(id)
  <2>1. trades # <<>> => Fired = trades[1]
    BY DEF Fired
  <2> QED
    BY <1>2, <2>1 DEF SettledVolume, Paid
<1>7. /\ Paid(id) \in Nat /\ told[id] \in Nat /\ orig[id] \in Nat
      /\ told[id] + Paid(id) =< orig[id]
  <2>1. /\ FirstDue(id) \in Nat /\ told[id] \in Nat /\ orig[id] \in Nat /\ dropped[id] \in Nat
        /\ told[id] + dropped[id] + FirstDue(id) =< orig[id]
    BY <1>1, HookEvent
  <2>2. Paid(id) = 0 \/ Paid(id) = FirstDue(id)
    BY DEF Paid, FirstDue, Executed
  <2> QED
    BY <2>1, <2>2
<1> QED
  BY <1>4, <1>5, <1>6, <1>7

(* Until its order is in the book, a handler needs all that it reserved.     *)
LEMMA NeedBefore ==
    ASSUME SideInv, NEW id \in EdgeIds, NEW side \in Sides, NEW t \in Threads, HoldsFor(t, id)
    PROVE  /\ ReservedAmount(id, side) = Own(req[t], side, req[t].vol)
           /\ req[t] \in Order(Volumes)
<1>1. BeforeBook(id) /\ InHands(t) /\ req[t].id = id
  BY DEF BeforeBook, HoldsFor, Reserving, InHands, Entering, Unannounced
<1>2. OnItsWay(t) /\ AsAsked(t) /\ record[id] \in Rec \cup {None}
  BY DEF SideInv, EdgeInv, EdgeTypeOK
<1>3. CASE pc[t] \in Entering
  <2>1. record[id] \in Rec /\ record[id].kind = req[t].kind /\ record[id].orig = req[t].vol
    BY <1>1, <1>2, <1>3 DEF OnItsWay
  <2>2. record[id] # None
    BY <2>1 DEF Rec, None
  <2>3. record[id].side = req[t].side /\ record[id].price = req[t].price
    BY <1>1, <1>2, <1>3 DEF AsAsked
  <2>4. Recorded(id) /\ OrderOf(id) = record[id]
    BY <2>2 DEF Recorded, OrderOf
  <2>5. ReservedAmount(id, side) = Own(record[id], side, record[id].orig)
    BY <1>1, <2>4 DEF ReservedAmount, Own
  <2> QED
    BY <1>1, <2>1, <2>3, <2>5, InHandsIsOld DEF Own, LockAmount
<1>4. CASE pc[t] = "release"
  <2>1. ~Recorded(id)
    BY <1>1, <1>2, <1>4 DEF AsAsked, Recorded
  <2>2. \A u \in Threads : pc[u] = "release" /\ req[u].id = id => u = t
    BY <1>1 DEF SideInv, OneHandEach, InHands
  <2>3. (CHOOSE u \in Threads : pc[u] = "release" /\ req[u].id = id) = t
    BY <1>1, <1>4, <2>2
  <2>4. OrderOf(id) = req[t]
    BY <2>1, <2>3 DEF OrderOf
  <2> QED
    BY <1>1, <2>1, <2>4, InHandsIsOld DEF ReservedAmount, Own
<1> QED
  BY <1>1, <1>3, <1>4 DEF InHands

(* In the book an order needs what has not been settled of it, and an order  *)
(* that is nowhere needs nothing.                                            *)
LEMMA NeedAfter ==
    ASSUME SideInv, NEW id \in EdgeIds, NEW side \in Sides
    PROVE  /\ InBook(id) => ReservedAmount(id, side)
                             = Own(record[id], side, record[id].orig - SettledVolume(id))
           /\ ~InBook(id) /\ ~BeforeBook(id) => ReservedAmount(id, side) = 0
<1>1. InBook(id) => ~BeforeBook(id) /\ Recorded(id)
  BY WhenInBook DEF Recorded
<1> QED
  BY <1>1 DEF ReservedAmount, Own, OrderOf

(* Needs are natural numbers. *)
LEMMA NeedNat ==
    ASSUME SideInv, NEW id \in EdgeIds, NEW side \in Sides
    PROVE  ReservedAmount(id, side) \in Nat
<1>1. ASSUME NEW o, NEW qty \in Nat, o.price \in Nat
      PROVE  Own(o, side, qty) \in Nat
  BY <1>1, MulNat DEF Own, LockAmount
<1>2. Prices \cup {0} \subseteq Nat /\ Volumes \subseteq Nat
  BY BookAssumption DEF BookAssumption
<1>3. CASE BeforeBook(id)
  <2>1. PICK t \in Threads : HoldsFor(t, id)
    BY <1>3 DEF BeforeBook, HoldsFor, Reserving
  <2>2. /\ ReservedAmount(id, side) = Own(req[t], side, req[t].vol)
        /\ req[t] \in Order(Volumes)
    BY <2>1, NeedBefore
  <2>3. req[t].vol \in Nat /\ req[t].price \in Nat
    BY <1>2, <2>2 DEF Order
  <2> QED
    BY <1>1, <2>2, <2>3
<1>4. CASE InBook(id)
  <2>1. record[id] \in Rec /\ record[id].orig = orig[id]
    BY <1>4, WhenInBook DEF SideInv, EdgeInv, EdgeTypeOK, Known
  <2>2. record[id].price \in Nat
    BY <1>2, <2>1 DEF Rec
  <2>3. record[id].orig - SettledVolume(id) \in Nat
    BY <2>1, WhenInBook
  <2> QED
    BY <1>1, <1>4, <2>2, <2>3, NeedAfter
<1> QED
  BY <1>3, <1>4, NeedAfter

(* What is needed for one order, in one place.                               *)
NeedIs(id) ==
    /\ InBook(id) <=> /\ record[id] # None /\ orig[id] # 0
                      /\ record[id].status = "CANCELED" => BeingCancelled(id) /\ hook # 4
    /\ BeforeBook(id) => orig[id] = 0
    /\ SettledVolume(id) = told[id] + Paid(id)
    /\ Paid(id) \in Nat /\ told[id] \in Nat /\ orig[id] \in Nat
    /\ told[id] + Paid(id) =< orig[id]
    /\ \A side \in Sides :
         /\ ReservedAmount(id, side) \in Nat
         /\ \A t \in Threads :
              HoldsFor(t, id) => ReservedAmount(id, side) = Own(req[t], side, req[t].vol)
         /\ InBook(id) => ReservedAmount(id, side)
                            = Own(record[id], side, record[id].orig - SettledVolume(id))
         /\ ~InBook(id) /\ ~BeforeBook(id) => ReservedAmount(id, side) = 0

LEMMA NeedsAre == SideInv => \A id \in EdgeIds : NeedIs(id)
BY WhenInBook, NeedNat, NeedBefore, NeedAfter DEF NeedIs

(* The same of the next state.                                               *)
LEMMA NeedsAreNext == SideInv' => \A id \in EdgeIds : NeedIs(id)'
<1>1. (SideInv => \A id \in EdgeIds : NeedIs(id))'
  BY NeedsAre, PTL
<1> QED
  BY <1>1

(* A step that leaves alone who holds for an order, whether the book has it  *)
(* and what is settled of it, leaves alone what it needs.                    *)
LEMMA NeedSame ==
    ASSUME SideInv, SideInv', [EdgeNext]_allVars, NEW id \in EdgeIds,
           \A t \in Threads : HoldsFor(t, id) => HoldsFor(t, id)' /\ req'[t] = req[t],
           \A t \in Threads : HoldsFor(t, id)' => HoldsFor(t, id),
           InBook(id)' <=> InBook(id),
           SettledVolume(id)' = SettledVolume(id)
    PROVE  \A side \in Sides : ReservedAmount(id, side)' = ReservedAmount(id, side)
<1> SUFFICES ASSUME NEW side \in Sides
             PROVE  ReservedAmount(id, side)' = ReservedAmount(id, side)
  OBVIOUS
<1>1. NeedIs(id) /\ NeedIs(id)'
  BY NeedsAre, NeedsAreNext
<1>2. CASE BeforeBook(id)
  <2>1. PICK t \in Threads : HoldsFor(t, id)
    BY <1>2 DEF BeforeBook, HoldsFor, Reserving
  <2>2. HoldsFor(t, id)' /\ req'[t] = req[t]
    BY <2>1
  <2>3. ReservedAmount(id, side) = Own(req[t], side, req[t].vol)
    BY <1>1, <2>1 DEF NeedIs
  <2>4. ReservedAmount(id, side)' = Own(req'[t], side, req'[t].vol)
    BY <1>1, <2>2 DEF NeedIs, Own, LockAmount
  <2> QED
    BY <2>2, <2>3, <2>4
<1>3. CASE InBook(id)
  <2>1. orig[id] # 0
    BY <1>1, <1>3 DEF NeedIs
  <2>2. /\ record'[id].side = record[id].side /\ record'[id].price = record[id].price
        /\ record'[id].kind = record[id].kind /\ record'[id].orig = record[id].orig
    BY <2>1, RecordsStay DEF SideInv
  <2>3. ReservedAmount(id, side) = Own(record[id], side, record[id].orig - SettledVolume(id))
    BY <1>1, <1>3 DEF NeedIs
  <2>4. ReservedAmount(id, side)' = Own(record'[id], side, record'[id].orig - SettledVolume(id)')
    BY <1>1, <1>3 DEF NeedIs, Own, LockAmount
  <2> QED
    BY <2>2, <2>3, <2>4 DEF Own, LockAmount
<1>4. CASE ~BeforeBook(id) /\ ~InBook(id)
  <2>1. ~BeforeBook(id)'
    BY <1>4 DEF BeforeBook, HoldsFor, Reserving
  <2> QED
    BY <1>1, <1>4, <2>1 DEF NeedIs
<1> QED
  BY <1>2, <1>3, <1>4

ReserveInv == SideInv /\ bal \in [Assets -> Holding] /\ ReservationsHeld

(* A step that moves neither what is locked nor any order's need.            *)
LEMMA HeldSame ==
    ASSUME ReserveInv, SideInv',
           \A id \in EdgeIds :
              /\ SettledVolume(id)' = SettledVolume(id)
              /\ \A side \in Sides : ReservedAmount(id, side)' = ReservedAmount(id, side),
           \A asset \in Assets : bal'[asset].locked = bal[asset].locked
    PROVE  ReservationsHeld'
<1>1. Needs("buy")' = Needs("buy") /\ Needs("sell")' = Needs("sell") /\ Fills' = Fills
  BY DEF Needs, Fills, Sides
<1>2. bal'["base"].locked = bal["base"].locked /\ bal'["quote"].locked = bal["quote"].locked
  BY DEF Assets
<1> QED
  BY <1>1, <1>2 DEF ReserveInv, ReservationsHeld

(* A step that moves what is locked along with what one order needs.         *)
LEMMA HeldMoves ==
    ASSUME ReserveInv, SideInv', NEW it \in EdgeIds,
           bal' \in [Assets -> Holding],
           \A id \in EdgeIds \ {it} :
              /\ SettledVolume(id)' = SettledVolume(id)
              /\ \A side \in Sides : ReservedAmount(id, side)' = ReservedAmount(id, side),
           bal'["base"].locked + ReservedAmount(it, "sell")
              = bal["base"].locked + ReservedAmount(it, "sell")',
           bal'["quote"].locked + ReservedAmount(it, "buy")
              >= bal["quote"].locked + ReservedAmount(it, "buy")',
           bal'["quote"].locked + ReservedAmount(it, "buy") + SettledVolume(it)
              =< bal["quote"].locked + ReservedAmount(it, "buy")' + SettledVolume(it)'
    PROVE  ReservationsHeld'
<1>1. \A id \in EdgeIds : NeedIs(id) /\ NeedIs(id)'
  BY NeedsAre, NeedsAreNext DEF ReserveInv
<1>2. IsFiniteSet(EdgeIds)
  BY EdgeAssumption DEF EdgeAssumption
<1>3. ASSUME NEW side \in Sides
      PROVE  /\ SumOf(Needs(side)) \in Nat /\ SumOf(Needs(side)') \in Nat
             /\ SumOf(Needs(side)') + ReservedAmount(it, side)
                  = SumOf(Needs(side)) + ReservedAmount(it, side)'
  <2> DEFINE f == [id \in EdgeIds |-> ReservedAmount(id, side)]
             g == [id \in EdgeIds |-> ReservedAmount(id, side)']
  <2>1. f \in [EdgeIds -> Nat] /\ g \in [EdgeIds -> Nat]
    BY <1>1 DEF NeedIs
  <2>2. f[it] = ReservedAmount(it, side) /\ g[it] = ReservedAmount(it, side)'
    OBVIOUS
  <2>3. \A x \in EdgeIds \ {it} : g[x] = f[x]
    OBVIOUS
  <2>4. Needs(side) = f /\ Needs(side)' = g
    BY DEF Needs
  <2> HIDE DEF f, g
  <2>5. SumOf(f) \in Nat /\ SumOf(g) \in Nat /\ SumOf(g) + f[it] = SumOf(f) + g[it]
    BY <1>2, <2>1, <2>3, SumChanges
  <2> QED
    BY <2>2, <2>4, <2>5
<1>4. /\ SumOf(Fills) \in Nat /\ SumOf(Fills') \in Nat
      /\ SumOf(Fills') + SettledVolume(it) = SumOf(Fills) + SettledVolume(it)'
  <2> DEFINE f == [id \in EdgeIds |-> SettledVolume(id)]
             g == [id \in EdgeIds |-> SettledVolume(id)']
  <2>1. f \in [EdgeIds -> Nat] /\ g \in [EdgeIds -> Nat]
    BY <1>1 DEF NeedIs
  <2>2. f[it] = SettledVolume(it) /\ g[it] = SettledVolume(it)'
    OBVIOUS
  <2>3. \A x \in EdgeIds \ {it} : g[x] = f[x]
    OBVIOUS
  <2>4. Fills = f /\ Fills' = g
    BY DEF Fills
  <2> HIDE DEF f, g
  <2>5. SumOf(f) \in Nat /\ SumOf(g) \in Nat /\ SumOf(g) + f[it] = SumOf(f) + g[it]
    BY <1>2, <2>1, <2>3, SumChanges
  <2> QED
    BY <2>2, <2>4, <2>5
<1>5. /\ bal["base"].locked \in Nat /\ bal["quote"].locked \in Nat
      /\ bal'["base"].locked \in Nat /\ bal'["quote"].locked \in Nat
  BY DEF ReserveInv, Assets, Holding
<1>6. /\ ReservedAmount(it, "sell") \in Nat /\ ReservedAmount(it, "sell")' \in Nat
      /\ ReservedAmount(it, "buy") \in Nat /\ ReservedAmount(it, "buy")' \in Nat
      /\ SettledVolume(it) \in Nat /\ SettledVolume(it)' \in Nat
  BY <1>1 DEF NeedIs, Sides
<1>7. /\ bal["base"].locked = SumOf(Needs("sell"))
      /\ bal["quote"].locked >= SumOf(Needs("buy"))
      /\ bal["quote"].locked =< SumOf(Needs("buy")) + SumOf(Fills)
  BY DEF ReserveInv, ReservationsHeld
<1>8. bal'["base"].locked = SumOf(Needs("sell")')
  BY <1>3, <1>5, <1>6, <1>7 DEF Sides
<1>9. bal'["quote"].locked >= SumOf(Needs("buy")')
  BY <1>3, <1>5, <1>6, <1>7 DEF Sides
<1>10. bal'["quote"].locked =< SumOf(Needs("buy")') + SumOf(Fills')
  BY <1>3, <1>4, <1>5, <1>6, <1>7 DEF Sides
<1> QED
  BY <1>8, <1>9, <1>10 DEF ReservationsHeld

(* What an order needs is locked.                                            *)
LEMMA NeedIsLocked ==
    ASSUME ReserveInv, NEW id \in EdgeIds
    PROVE  /\ ReservedAmount(id, "sell") =< bal["base"].locked
           /\ ReservedAmount(id, "buy") =< bal["quote"].locked
<1>1. IsFiniteSet(EdgeIds)
  BY EdgeAssumption DEF EdgeAssumption
<1>2. ASSUME NEW side \in Sides
      PROVE  SumOf(Needs(side)) \in Nat /\ ReservedAmount(id, side) =< SumOf(Needs(side))
  <2> DEFINE f == [x \in EdgeIds |-> ReservedAmount(x, side)]
  <2>1. f \in [EdgeIds -> Nat] /\ f[id] = ReservedAmount(id, side) /\ f = Needs(side)
    BY NeedsAre DEF NeedIs, Needs, ReserveInv
  <2> HIDE DEF f
  <2> QED
    BY <1>1, <2>1, PartOfSum
<1>3. /\ bal["base"].locked = SumOf(Needs("sell")) /\ bal["quote"].locked >= SumOf(Needs("buy"))
      /\ bal["quote"].locked \in Nat
  BY DEF ReserveInv, ReservationsHeld, Assets, Holding
<1>4. ReservedAmount(id, "buy") \in Nat
  BY NeedsAre DEF NeedIs, ReserveInv, Sides
<1> QED
  BY <1>2, <1>3, <1>4 DEF Sides

Ledgers == [Assets -> Holding]

(* What each method of the ledger does to the asset it is called for, and to *)
(* no other; amounts never become negative.                                  *)
LEMMA LockMoves ==
    ASSUME NEW b \in Ledgers, NEW asset \in Assets, NEW amt \in Nat, Lockable(b, asset, amt)
    PROVE  /\ Lock(b, asset, amt) \in Ledgers
           /\ Lock(b, asset, amt)[asset].free = b[asset].free - amt
           /\ Lock(b, asset, amt)[asset].locked = b[asset].locked + amt
           /\ \A other \in Assets \ {asset} : Lock(b, asset, amt)[other] = b[other]
<1>1. /\ b[asset].free \in Nat /\ b[asset].locked \in Nat /\ b[asset] \in Holding
      /\ DOMAIN b = Assets /\ b = [x \in Assets |-> b[x]]
      /\ b[asset] = [free |-> b[asset].free, locked |-> b[asset].locked]
  BY DEF Ledgers, Holding
<1>2. CASE amt =< 0
  BY <1>1, <1>2 DEF Lock, Holding
<1>3. CASE ~(amt =< 0)
  <2>1. amt =< b[asset].free
    BY <1>3 DEF Lockable
  <2>2. [free |-> b[asset].free - amt, locked |-> b[asset].locked + amt] \in Holding
    BY <1>1, <2>1 DEF Holding
  <2>3. Lock(b, asset, amt)[asset]
         = [free |-> b[asset].free - amt, locked |-> b[asset].locked + amt]
    BY <1>1, <1>3 DEF Lock, Holding
  <2>4. Lock(b, asset, amt) = [b EXCEPT ![asset] =
           [free |-> b[asset].free - amt, locked |-> b[asset].locked + amt]]
    BY <1>1, <1>3, <2>3 DEF Lock
  <2> QED
    BY <2>2, <2>3, <2>4 DEF Ledgers
<1> QED
  BY <1>2, <1>3

LEMMA UnlockMoves ==
    ASSUME NEW b \in Ledgers, NEW asset \in Assets, NEW amt \in Nat, amt =< b[asset].locked
    PROVE  /\ Unlock(b, asset, amt) \in Ledgers
           /\ Unlock(b, asset, amt)[asset].free = b[asset].free + amt
           /\ Unlock(b, asset, amt)[asset].locked = b[asset].locked - amt
           /\ \A other \in Assets \ {asset} : Unlock(b, asset, amt)[other] = b[other]
<1>1. /\ b[asset].free \in Nat /\ b[asset].locked \in Nat /\ b[asset] \in Holding
      /\ DOMAIN b = Assets /\ b = [x \in Assets |-> b[x]]
      /\ b[asset] = [free |-> b[asset].free, locked |-> b[asset].locked]
  BY DEF Ledgers, Holding
<1>2. CASE amt =< 0
  BY <1>1, <1>2 DEF Unlock, Holding
<1>3. CASE ~(amt =< 0)
  <2>1. AtMost(amt, b[asset].locked) = amt
    BY <1>1 DEF AtMost
  <2>2. [free |-> b[asset].free + amt, locked |-> b[asset].locked - amt] \in Holding
    BY <1>1 DEF Holding
  <2>3. Unlock(b, asset, amt)[asset]
         = [free |-> b[asset].free + amt, locked |-> b[asset].locked - amt]
    BY <1>1, <1>3, <2>1 DEF Unlock, Holding
  <2>4. Unlock(b, asset, amt) = [b EXCEPT ![asset] =
           [free |-> b[asset].free + amt, locked |-> b[asset].locked - amt]]
    BY <1>1, <1>3, <2>1, <2>3 DEF Unlock
  <2> QED
    BY <2>2, <2>3, <2>4 DEF Ledgers
<1> QED
  BY <1>2, <1>3

LEMMA CreditAdds ==
    ASSUME NEW b \in Ledgers, NEW asset \in Assets, NEW amt \in Nat
    PROVE  /\ Credit(b, asset, amt) \in Ledgers
           /\ Credit(b, asset, amt)[asset].free = b[asset].free + amt
           /\ Credit(b, asset, amt)[asset].locked = b[asset].locked
           /\ \A other \in Assets \ {asset} : Credit(b, asset, amt)[other] = b[other]
<1>1. /\ b[asset].free \in Nat /\ b[asset].locked \in Nat /\ b[asset] \in Holding
      /\ DOMAIN b = Assets /\ b = [x \in Assets |-> b[x]]
      /\ b[asset] = [free |-> b[asset].free, locked |-> b[asset].locked]
  BY DEF Ledgers, Holding
<1>2. CASE amt =< 0
  BY <1>1, <1>2 DEF Credit, Holding
<1>3. CASE ~(amt =< 0)
  <2>1. [free |-> b[asset].free + amt, locked |-> b[asset].locked] \in Holding
    BY <1>1 DEF Holding
  <2>2. Credit(b, asset, amt)[asset] = [free |-> b[asset].free + amt, locked |-> b[asset].locked]
    BY <1>1, <1>3 DEF Credit, Holding
  <2>3. Credit(b, asset, amt) = [b EXCEPT ![asset] =
           [free |-> b[asset].free + amt, locked |-> b[asset].locked]]
    BY <1>1, <1>3, <2>2 DEF Credit
  <2> QED
    BY <2>1, <2>2, <2>3 DEF Ledgers
<1> QED
  BY <1>2, <1>3

LEMMA BurnTakes ==
    ASSUME NEW b \in Ledgers, NEW asset \in Assets, NEW amt \in Nat
    PROVE  /\ Burn(b, asset, amt) \in Ledgers
           /\ Burn(b, asset, amt)[asset].free = b[asset].free - AtMost(amt, b[asset].free)
           /\ Burn(b, asset, amt)[asset].locked = b[asset].locked
           /\ \A other \in Assets \ {asset} : Burn(b, asset, amt)[other] = b[other]
<1>1. /\ b[asset].free \in Nat /\ b[asset].locked \in Nat /\ b[asset] \in Holding
      /\ DOMAIN b = Assets /\ b = [x \in Assets |-> b[x]]
      /\ b[asset] = [free |-> b[asset].free, locked |-> b[asset].locked]
  BY DEF Ledgers, Holding
<1>2. CASE amt =< 0
  <2>1. AtMost(amt, b[asset].free) = 0
    BY <1>1, <1>2 DEF AtMost
  <2> QED
    BY <1>1, <1>2, <2>1 DEF Burn, Holding
<1>3. CASE ~(amt =< 0)
  <2>1. b[asset].free - AtMost(amt, b[asset].free) \in Nat
    BY <1>1 DEF AtMost
  <2>2. [free |-> b[asset].free - AtMost(amt, b[asset].free), locked |-> b[asset].locked] \in Holding
    BY <1>1, <2>1 DEF Holding
  <2>3. Burn(b, asset, amt)[asset]
         = [free |-> b[asset].free - AtMost(amt, b[asset].free), locked |-> b[asset].locked]
    BY <1>1, <1>3 DEF Burn, Holding
  <2>4. Burn(b, asset, amt) = [b EXCEPT ![asset] =
           [free |-> b[asset].free - AtMost(amt, b[asset].free), locked |-> b[asset].locked]]
    BY <1>1, <1>3, <2>3 DEF Burn
  <2> QED
    BY <2>2, <2>3, <2>4 DEF Ledgers
<1> QED
  BY <1>2, <1>3

LEMMA DebitTakes ==
    ASSUME NEW b \in Ledgers, NEW asset \in Assets, Lockable(b, asset, 1)
    PROVE  /\ Debit(b, asset, 1) \in Ledgers
           /\ Debit(b, asset, 1)[asset].free = b[asset].free - 1
           /\ Debit(b, asset, 1)[asset].locked = b[asset].locked
           /\ \A other \in Assets \ {asset} : Debit(b, asset, 1)[other] = b[other]
<1>1. /\ b[asset].free \in Nat /\ b[asset].locked \in Nat /\ b[asset] \in Holding
      /\ DOMAIN b = Assets /\ b = [x \in Assets |-> b[x]]
      /\ b[asset] = [free |-> b[asset].free, locked |-> b[asset].locked]
  BY DEF Ledgers, Holding
<1>2. [free |-> b[asset].free - 1, locked |-> b[asset].locked] \in Holding
  BY <1>1 DEF Lockable, Holding
<1>3. Debit(b, asset, 1)[asset] = [free |-> b[asset].free - 1, locked |-> b[asset].locked]
  BY <1>1 DEF Debit, Holding
<1>4. Debit(b, asset, 1) = [b EXCEPT ![asset] =
           [free |-> b[asset].free - 1, locked |-> b[asset].locked]]
  BY <1>1, <1>3 DEF Debit
<1> QED
  BY <1>2, <1>3, <1>4 DEF Ledgers

(* A step that reserves nothing, settles nothing and gives nothing back.     *)
LEMMA QuietStep ==
    ASSUME ReserveInv, [EdgeNext]_allVars,
           \A t \in Threads : pc[t] \in Reserving \/ pc'[t] \in Reserving =>
              pc[t] \in Reserving /\ pc'[t] \in Reserving /\ req'[t] = req[t],
           \A id \in EdgeIds : /\ InBook(id)' <=> InBook(id)
                               /\ told'[id] + Paid(id)' = told[id] + Paid(id),
           \A asset \in Assets : bal'[asset].locked = bal[asset].locked
    PROVE  ReservationsHeld'
<1>1. SideInv /\ SideInv'
  BY SideStep DEF ReserveInv
<1>2. \A id \in EdgeIds : SettledVolume(id)' = SettledVolume(id)
  BY <1>1, NeedsAre, NeedsAreNext DEF NeedIs
<1>3. ASSUME NEW id \in EdgeIds
      PROVE  \A side \in Sides : ReservedAmount(id, side)' = ReservedAmount(id, side)
  <2>1. \A t \in Threads : HoldsFor(t, id) => HoldsFor(t, id)' /\ req'[t] = req[t]
    BY DEF HoldsFor
  <2>2. \A t \in Threads : HoldsFor(t, id)' => HoldsFor(t, id)
    BY DEF HoldsFor
  <2> QED
    BY <1>1, <1>2, <2>1, <2>2, NeedSame
<1> QED
  BY <1>1, <1>2, <1>3, HeldSame

(* Whether the book has an order is up to its record, its cancel and the     *)
(* hooks.                                                                    *)
LEMMA BookHoldsOn ==
    ASSUME SideInv, SideInv', NEW id \in EdgeIds,
           record'[id] = record[id], orig'[id] = orig[id],
           (BeingCancelled(id)' /\ hook' # 4) <=> (BeingCancelled(id) /\ hook # 4)
    PROVE  InBook(id)' <=> InBook(id)
<1>1. /\ InBook(id) <=> /\ record[id] # None /\ orig[id] # 0
                        /\ record[id].status = "CANCELED" => BeingCancelled(id) /\ hook # 4
      /\ InBook(id)' <=> /\ record'[id] # None /\ orig'[id] # 0
                         /\ record'[id].status = "CANCELED" => BeingCancelled(id)' /\ hook' # 4
  BY NeedsAre, NeedsAreNext DEF NeedIs
<1> QED
  BY <1>1

(* A handler's step outside the book and the ledger.                         *)
LEMMA OutsideHolds ==
    ASSUME ReserveInv, [EdgeNext]_allVars, UNCHANGED <<record, bal, hook, trades, told>>,
           \A id \in EdgeIds : orig'[id] = orig[id],
           \A t \in Threads :
              /\ pc'[t] = "cancelling" <=> pc[t] = "cancelling"
              /\ pc'[t] = "cancelling" => req'[t] = req[t]
              /\ pc[t] \in Reserving \/ pc'[t] \in Reserving =>
                   pc[t] \in Reserving /\ pc'[t] \in Reserving /\ req'[t] = req[t]
    PROVE  ReservationsHeld'
<1>1. SideInv /\ SideInv'
  BY SideStep DEF ReserveInv
<1>2. \A id \in EdgeIds : BeingCancelled(id)' <=> BeingCancelled(id)
  BY DEF BeingCancelled
<1>3. \A id \in EdgeIds : InBook(id)' <=> InBook(id)
  BY <1>1, <1>2, BookHoldsOn
<1>4. \A id \in EdgeIds : told'[id] + Paid(id)' = told[id] + Paid(id)
  BY DEF Paid
<1> QED
  BY <1>3, <1>4, QuietStep

(* Steps that end in another handler's turn: nothing is reserved or given    *)
(* back by a lookup, an answer, an announcement or a withdrawal.             *)
LEMMA TalkHolds ==
    ASSUME ReserveInv, [EdgeNext]_allVars, NEW t \in Threads,
           \/ Announce(t) \/ CancelMisses(t) \/ AnswerMissed(t) \/ MarkCanceled(t)
           \/ \E id \in EdgeIds : Lookup(t, id)
    PROVE  ReservationsHeld'
<1>1. /\ pc \in [Threads -> Places] /\ DOMAIN req = Threads /\ EdgeInv
  BY DEF ReserveInv, SideInv, EdgeInv, EdgeTypeOK, Places
<1>2. UNCHANGED <<record, bal, hook, trades, told, orig>>
  BY <1>1, MarkKeeps DEF Announce, CancelMisses, AnswerMissed, MarkCanceled, Lookup, vars, bookVars
<1>3. ASSUME NEW u \in Threads
      PROVE  /\ pc'[u] = "cancelling" <=> pc[u] = "cancelling"
             /\ pc'[u] = "cancelling" => req'[u] = req[u]
             /\ pc[u] \in Reserving \/ pc'[u] \in Reserving =>
                  pc[u] \in Reserving /\ pc'[u] \in Reserving /\ req'[u] = req[u]
  <2>1. CASE Announce(t)
    BY <1>1, <2>1 DEF Announce, Goto, Reserving
  <2>2. CASE CancelMisses(t) \/ AnswerMissed(t) \/ MarkCanceled(t)
    BY <1>1, <2>2 DEF CancelMisses, AnswerMissed, MarkCanceled, Goto, Reserving
  <2>3. CASE \E id \in EdgeIds : Lookup(t, id)
    BY <1>1, <2>3 DEF Lookup, Reserving
  <2> QED
    BY <2>1, <2>2, <2>3
<1> QED
  BY <1>2, <1>3, OutsideHolds

(* Emulated orders and withdrawals concern no reservation; a step that       *)
(* changes nothing does not either.                                          *)
LEMMA ElsewhereHolds ==
    ASSUME ReserveInv, [EdgeNext]_allVars,
           \/ \E o \in Order(Volumes) : EmulatorPlaces(o)
           \/ \E id \in EmuIds : EmulatorCancels(id)
           \/ \E asset \in Assets : Withdraw(asset)
           \/ UNCHANGED allVars
    PROVE  ReservationsHeld'
<1>1. UNCHANGED <<record, hook, trades, told, pc, req>>
  BY DEF EmulatorPlaces, EmulatorCancels, Withdraw, Submit, CancelOrder, allVars, edgeVars, vars, bookVars
<1>2. \A id \in EdgeIds : orig'[id] = orig[id]
  <2>1. orig \in [Ids -> Nat] /\ EdgeIds \cap EmuIds = {} /\ EdgeIds \subseteq Ids
    BY EdgeAssumption DEF EdgeAssumption, ReserveInv, SideInv, EdgeInv, AccountInv, BookInv, TypeOK
  <2>2. ASSUME NEW o \in Order(Volumes), EmulatorPlaces(o) PROVE \A id \in EdgeIds : orig'[id] = orig[id]
    BY <2>1, <2>2 DEF EmulatorPlaces, Submit
  <2> QED
    BY <2>2 DEF EmulatorCancels, Withdraw, CancelOrder, allVars, vars, bookVars
<1>3. \A asset \in Assets : bal'[asset].locked = bal[asset].locked
  <2>1. bal \in Ledgers
    BY DEF ReserveInv, Ledgers
  <2>2. ASSUME NEW asset \in Assets, Withdraw(asset), NEW other \in Assets
        PROVE  bal'[other].locked = bal[other].locked
    <3>1. bal' = Debit(bal, asset, 1) /\ Lockable(bal, asset, 1)
      BY <2>2 DEF Withdraw
    <3>2. asset \in Assets
      BY <2>2
    <3>3. /\ Debit(bal, asset, 1)[asset].locked = bal[asset].locked
          /\ \A x \in Assets \ {asset} : Debit(bal, asset, 1)[x] = bal[x]
      BY <2>1, <3>1, <3>2, DebitTakes
    <3> QED
      BY <2>2, <3>1, <3>3
  <2> QED
    BY <2>2 DEF EmulatorPlaces, EmulatorCancels, allVars, edgeVars
<1>4. SideInv /\ SideInv'
  BY SideStep DEF ReserveInv
<1>5. \A id \in EdgeIds : InBook(id)' <=> InBook(id)
  BY <1>1, <1>2, <1>4, BookHoldsOn DEF BeingCancelled
<1>6. \A id \in EdgeIds : told'[id] + Paid(id)' = told[id] + Paid(id)
  BY <1>1 DEF Paid
<1> QED
  BY <1>1, <1>3, <1>5, <1>6, QuietStep

(* Recording an order reserves nothing yet, and never will for a MARKET one. *)
LEMMA RecordHolds ==
    ASSUME ReserveInv, [EdgeNext]_allVars, NEW t \in Threads, NEW o \in Order(Volumes),
           NEW client \in Clients, Record(t, o, client), o.kind \in EdgeKinds
    PROVE  ReservationsHeld'
<1>1. /\ SideInv /\ SideInv' /\ EdgeInv /\ pc \in [Threads -> Places] /\ DOMAIN req = Threads /\ seq \in Nat
      /\ record \in [EdgeIds -> Rec \cup {None}]
  BY SideStep DEF ReserveInv, SideInv, EdgeInv, EdgeTypeOK, Places
<1>2. /\ pc[t] = "idle" /\ o.id = seq + 1 /\ o.id \in EdgeIds
      /\ UNCHANGED <<vars, bal, hook>>
  BY DEF Record
<1>3. CASE Duplicate(o, client)
  <2>1. UNCHANGED <<record, pc, req>>
    BY <1>3 DEF Record
  <2> QED
    BY <1>2, <2>1, OutsideHolds DEF vars, bookVars
<1>4. CASE ~Duplicate(o, client)
  <2>1. /\ pc' = [pc EXCEPT ![t] = IF o.kind = "limit" THEN "reserve" ELSE "announce"]
        /\ req' = [req EXCEPT ![t] = o]
        /\ \A id \in EdgeIds \ {o.id} : record'[id] = record[id]
    BY <1>1, <1>4 DEF Record
  <2>2. UNCHANGED <<trades, told, orig, hook, bal>>
    BY <1>2 DEF vars, bookVars
  <2>3. \A id \in EdgeIds : BeingCancelled(id)' <=> BeingCancelled(id)
    BY <1>1, <1>2, <2>1 DEF BeingCancelled
  <2>4. \A id \in EdgeIds : SettledVolume(id)' = SettledVolume(id)
    BY <1>1, <2>2, NeedsAre, NeedsAreNext DEF NeedIs, Paid
  <2>5. \A u \in Threads, id \in EdgeIds \ {o.id} :
           /\ HoldsFor(u, id) => HoldsFor(u, id)' /\ req'[u] = req[u]
           /\ HoldsFor(u, id)' => HoldsFor(u, id)
    BY <1>1, <1>2, <2>1 DEF HoldsFor, Reserving
  <2>6. ASSUME NEW id \in EdgeIds \ {o.id}
        PROVE  \A side \in Sides : ReservedAmount(id, side)' = ReservedAmount(id, side)
    <3>1. InBook(id)' <=> InBook(id)
      BY <1>1, <2>1, <2>2, <2>3, BookHoldsOn
    <3> QED
      BY <1>1, <2>4, <2>5, <3>1, NeedSame
  <2>7. orig[o.id] = 0 /\ ~BeforeBook(o.id)
    <3>1. Known(o.id) /\ o.id \notin 1..seq
      BY <1>1, <1>2 DEF EdgeInv
    <3>2. \A u \in Threads : ~HoldsFor(u, o.id)
      BY <1>1, <3>1, InHandsIsOld DEF HoldsFor, Reserving, InHands, Entering, Unannounced
    <3> QED
      BY <3>1, <3>2 DEF Known, BeforeBook, HoldsFor, Reserving
  <2>8. /\ \A side \in Sides : ReservedAmount(o.id, side) = 0
        /\ ~InBook(o.id)'
    BY <1>1, <1>2, <2>2, <2>7, NeedsAre, NeedsAreNext DEF NeedIs
  <2>9. \A side \in Sides : ReservedAmount(o.id, side)' = 0
    <3>1. CASE o.kind = "limit"
      <4>1. ~BeforeBook(o.id)'
        BY <1>1, <2>1, <2>7, <3>1 DEF BeforeBook
      <4> QED
        BY <1>1, <1>2, <2>8, <4>1, NeedsAreNext DEF NeedIs
    <3>2. CASE o.kind # "limit"
      <4>1. HoldsFor(t, o.id)' /\ req'[t] = o
        BY <1>1, <2>1, <3>2 DEF HoldsFor, Reserving
      <4>2. \A side \in Sides : ReservedAmount(o.id, side)' = Own(req'[t], side, req'[t].vol)
        BY <1>1, <1>2, <4>1, NeedsAreNext DEF NeedIs, Own, LockAmount
      <4> QED
        BY <3>2, <4>1, <4>2 DEF Own
    <3> QED
      BY <3>1, <3>2
  <2>10. \A id \in EdgeIds : /\ SettledVolume(id)' = SettledVolume(id)
                            /\ \A side \in Sides : ReservedAmount(id, side)' = ReservedAmount(id, side)
    BY <2>4, <2>6, <2>8, <2>9
  <2> QED
    BY <1>1, <2>2, <2>10, HeldSame
<1> QED
  BY <1>3, <1>4

(* Matching, the registry's hook and the stream's hook settle nothing yet.   *)
LEMMA BookStepHolds ==
    ASSUME ReserveInv, [EdgeNext]_allVars, BookStep \/ RegistryHook \/ ReportHook
    PROVE  ReservationsHeld'
<1>1. SideInv /\ SideInv' /\ EdgeInv /\ hook \in 1..4
  BY SideStep DEF ReserveInv, SideInv, EdgeInv, EdgeTypeOK
<1>2. hook # 4 /\ hook' # 4
  <2>1. CASE BookStep
    <3>1. phase = "match" /\ hook' = hook
      BY <2>1 DEF BookStep, MatchOne, EnqueueLocked, Discard, edgeVars
    <3> QED
      BY <1>1, <3>1 DEF EdgeInv, HooksInTurn
  <2>2. CASE RegistryHook \/ ReportHook
    <3>1. (hook = 1 \/ hook = 2) /\ hook' = hook + 1
      BY <1>1, <2>2, WhichHook DEF RegistryHook, ReportHook
    <3> QED
      BY <3>1
  <2> QED
    BY <2>1, <2>2
<1>3. UNCHANGED <<pc, req, told, orig, bal>>
  BY DEF BookStep, MatchOne, EnqueueLocked, Discard, RegistryHook, ReportHook, edgeVars, vars, bookVars
<1>4. \A id \in EdgeIds : BeingCancelled(id)' <=> BeingCancelled(id)
  BY <1>3 DEF BeingCancelled
<1>5. \A id \in EdgeIds : told'[id] + Paid(id)' = told[id] + Paid(id)
  BY <1>2, <1>3 DEF Paid
<1>6. ASSUME NEW id \in EdgeIds PROVE InBook(id)' <=> InBook(id)
  <2>1. CASE ~RegistryHook
    <3>1. record' = record
      BY <2>1 DEF BookStep, ReportHook, edgeVars
    <3> QED
      BY <1>1, <1>2, <1>3, <1>4, <3>1, BookHoldsOn
  <2>2. CASE RegistryHook
    <3>1. /\ InBook(id) <=> /\ record[id] # None /\ orig[id] # 0
                            /\ record[id].status = "CANCELED" => BeingCancelled(id) /\ hook # 4
          /\ InBook(id)' <=> /\ record'[id] # None /\ orig'[id] # 0
                             /\ record'[id].status = "CANCELED" => BeingCancelled(id)' /\ hook' # 4
      BY <1>1, NeedsAre, NeedsAreNext DEF NeedIs
    <3>2. /\ record[id] = None => record'[id] = None
          /\ record[id] # None =>
               /\ record'[id] # None
               /\ record[id].status = "CANCELED" => record'[id].status = "CANCELED"
               /\ record[id].status # "CANCELED" =>
                    (record'[id].status = "CANCELED" <=> BeingCancelled(id))
      <4>1. record[id] # None => record'[id] # None
        BY <1>1, <2>2, RegistryWrites DEF Rec, None
      <4> QED
        BY <1>1, <2>2, <4>1, RegistryWrites DEF Terminal
    <3> QED
      BY <1>2, <1>3, <1>4, <3>1, <3>2
  <2> QED
    BY <2>1, <2>2
<1> QED
  BY <1>3, <1>5, <1>6, QuietStep

(* The call returns: what was cancelled has already been given back.         *)
LEMMA LeaveHolds ==
    ASSUME ReserveInv, [EdgeNext]_allVars, LeaveBook
    PROVE  ReservationsHeld'
<1>1. /\ SideInv /\ SideInv' /\ EdgeInv /\ hook \in 1..4 /\ pc \in [Threads -> Places]
      /\ DOMAIN req = Threads /\ \A t \in Threads : InTheBook(t)
  BY SideStep DEF ReserveInv, SideInv, EdgeInv, EdgeTypeOK, Places
<1>2. /\ trades = <<>> /\ trades' = <<>> /\ hook' = 1
      /\ UNCHANGED <<record, bal, told, orig>>
  BY DEF LeaveBook, Return
<1>3. ASSUME NEW u \in Threads
      PROVE  /\ pc[u] \in Reserving \/ pc'[u] \in Reserving =>
                  pc[u] \in Reserving /\ pc'[u] \in Reserving /\ req'[u] = req[u]
             /\ pc'[u] = "cancelling" => pc[u] = "cancelling" /\ req'[u] = req[u]
  <2>1. CASE UNCHANGED <<pc, req>>
    BY <2>1
  <2>2. ASSUME NEW t \in Threads, Goto(t, "placing", "idle") \/ Goto(t, "cancelling", "mark")
        PROVE  /\ pc[u] \in Reserving \/ pc'[u] \in Reserving =>
                    pc[u] \in Reserving /\ pc'[u] \in Reserving /\ req'[u] = req[u]
               /\ pc'[u] = "cancelling" => pc[u] = "cancelling" /\ req'[u] = req[u]
    BY <1>1, <2>2 DEF Goto, Reserving
  <2> QED
    BY <2>1, <2>2 DEF LeaveBook
<1>4. ASSUME NEW id \in EdgeIds PROVE InBook(id)' <=> InBook(id)
  <2>1. /\ InBook(id) <=> /\ record[id] # None /\ orig[id] # 0
                          /\ record[id].status = "CANCELED" => BeingCancelled(id) /\ hook # 4
        /\ InBook(id)' <=> /\ record'[id] # None /\ orig'[id] # 0
                           /\ record'[id].status = "CANCELED" => BeingCancelled(id)' /\ hook' # 4
    BY <1>1, NeedsAre, NeedsAreNext DEF NeedIs
  <2>2. BeingCancelled(id) => hook = 4
    <3>1. BeingCancelled(id) => CancelFired
      BY <1>1, WhoseCancel
    <3>2. CancelFired => Hooks[hook] = "seller"
      BY DEF LeaveBook
    <3> QED
      BY <1>1, <3>1, <3>2, WhichHook
  <2>3. ~BeingCancelled(id)'
    <3>1. ASSUME NEW u \in Threads, pc'[u] = "cancelling" PROVE FALSE
      <4>1. pc[u] = "cancelling" /\ holder = u
        BY <1>1, <1>3, <3>1 DEF InTheBook
      <4>2. CASE holder = Emulator
        BY <4>1, <4>2, EdgeAssumption DEF EdgeAssumption
      <4>3. ASSUME NEW t \in Threads, holder = t,
                   Goto(t, "placing", "idle") \/ Goto(t, "cancelling", "mark")
            PROVE  FALSE
        BY <1>1, <3>1, <4>1, <4>3 DEF Goto
      <4> QED
        BY <4>2, <4>3 DEF LeaveBook
    <3> QED
      BY <3>1 DEF BeingCancelled
  <2> QED
    BY <1>2, <2>1, <2>2, <2>3
<1>5. \A id \in EdgeIds : told'[id] + Paid(id)' = told[id] + Paid(id)
  BY <1>2 DEF Paid
<1> QED
  BY <1>2, <1>3, <1>4, <1>5, QuietStep

(* A cancel that finds its order has yet to give anything back; an order     *)
(* already cancelled is not found.                                           *)
LEMMA CancelInHolds ==
    ASSUME ReserveInv, [EdgeNext]_allVars, NEW t \in Threads, CancelInBook(t)
    PROVE  ReservationsHeld'
<1>1. /\ SideInv /\ SideInv' /\ EdgeInv /\ hook \in 1..4 /\ pc \in [Threads -> Places]
      /\ DOMAIN req = Threads /\ \A u \in Threads : InTheBook(u) /\ InTheBook(u)'
  BY SideStep DEF ReserveInv, SideInv, EdgeInv, EdgeTypeOK, Places
<1>2. /\ pc[t] = "cancel" /\ pc' = [pc EXCEPT ![t] = "cancelling"] /\ req'[t] = req[t]
      /\ \A u \in Threads : u # t => req'[u] = req[u]
      /\ req[t].id \in EdgeIds /\ phase = "free"
      /\ UNCHANGED <<record, bal, told, orig, hook, trades>>
  <2>1. Goto(t, "cancel", "cancelling") /\ CancelOrder(req[t].id)
    BY DEF CancelInBook
  <2>2. req[t].id \in EdgeIds
    BY <1>1, <2>1 DEF Goto, InTheBook, Cancelling
  <2> QED
    BY <1>1, <2>1, <2>2 DEF CancelInBook, Goto, CancelOrder
<1> DEFINE it == req[t].id
<1>3. \A id : ~BeingCancelled(id)
  BY <1>1, <1>2, FreeBook
<1>4. it \in Ids /\ CancelOrder(it) /\ AccountInv
  BY <1>1, <1>2, EdgeAssumption DEF EdgeAssumption, EdgeInv, CancelInBook
<1>5. dropped'[it] > dropped[it] /\ dropped[it] \in Nat /\ dropped'[it] \in Nat
  <2>1. dropped'[it] > dropped[it] /\ dropped' \in [Ids -> Nat] /\ dropped \in [Ids -> Nat]
    BY <1>4, CancelMoves, BookAssumption DEF AccountInv, BookInv, TypeOK
  <2> QED
    BY <1>4, <2>1
<1>6. told[it] + dropped'[it] = orig[it] /\ told[it] \in Nat
  <2>1. pc'[t] = "cancelling"
    BY <1>1, <1>2
  <2>2. told'[it] + dropped'[it] = orig'[it]
    BY <1>1, <1>2, <2>1 DEF InTheBook
  <2> QED
    BY <1>1, <1>2, <2>2, HookEvent
<1>7. record[it] # None => record[it].status # "CANCELED"
  <2>1. RecordFollows(it)
    BY <1>1, <1>2 DEF EdgeInv
  <2> QED
    BY <1>5, <1>6, <2>1 DEF RecordFollows
<1>8. \A id \in EdgeIds \ {it} : ~BeingCancelled(id)'
  BY <1>1, <1>2, <1>3 DEF BeingCancelled
<1>9. ASSUME NEW id \in EdgeIds PROVE InBook(id)' <=> InBook(id)
  <2>1. CASE id # it
    BY <1>1, <1>2, <1>3, <1>8, <2>1, BookHoldsOn
  <2>2. CASE id = it
    <3>1. /\ InBook(it) <=> /\ record[it] # None /\ orig[it] # 0
                            /\ record[it].status = "CANCELED" => BeingCancelled(it) /\ hook # 4
          /\ InBook(it)' <=> /\ record'[it] # None /\ orig'[it] # 0
                             /\ record'[it].status = "CANCELED" => BeingCancelled(it)' /\ hook' # 4
      BY <1>1, <1>2, NeedsAre, NeedsAreNext DEF NeedIs
    <3> QED
      BY <1>2, <1>7, <2>2, <3>1
  <2> QED
    BY <2>1, <2>2
<1>10. \A id \in EdgeIds : told'[id] + Paid(id)' = told[id] + Paid(id)
  BY <1>2 DEF Paid
<1>11. \A u \in Threads : pc[u] \in Reserving \/ pc'[u] \in Reserving =>
          pc[u] \in Reserving /\ pc'[u] \in Reserving /\ req'[u] = req[u]
  BY <1>1, <1>2 DEF Reserving
<1> QED
  BY <1>2, <1>9, <1>10, <1>11, QuietStep

(* A handler's step with the order in its hands leaves every other order's   *)
(* need alone.                                                               *)
LEMMA HandStep ==
    ASSUME ReserveInv, [EdgeNext]_allVars, NEW t \in Threads, NEW it \in EdgeIds,
           InHands(t), req[t].id = it, NEW to \in Places,
           to # "cancelling", pc' = [pc EXCEPT ![t] = to],
           \A u \in Threads \ {t} : req'[u] = req[u], to \in Reserving => req'[t] = req[t],
           UNCHANGED <<hook, trades, told>>,
           \A id \in EdgeIds \ {it} : record'[id] = record[id] /\ orig'[id] = orig[id]
    PROVE  /\ \A id \in EdgeIds : SettledVolume(id)' = SettledVolume(id)
           /\ \A id \in EdgeIds \ {it}, side \in Sides :
                 ReservedAmount(id, side)' = ReservedAmount(id, side)
           /\ \A u \in Threads \ {t} : ~HoldsFor(u, it) /\ ~HoldsFor(u, it)'
           /\ ~InBook(it)
<1>1. /\ SideInv /\ SideInv' /\ pc \in [Threads -> Places] /\ DOMAIN req = Threads
  BY SideStep DEF ReserveInv, SideInv, EdgeInv, EdgeTypeOK, Places
<1>2. \A id \in EdgeIds : SettledVolume(id)' = SettledVolume(id)
  BY <1>1, NeedsAre, NeedsAreNext DEF NeedIs, Paid
<1>3. \A id \in EdgeIds : BeingCancelled(id)' <=> BeingCancelled(id)
  <2>1. pc[t] # "cancelling" /\ pc'[t] # "cancelling"
    BY <1>1 DEF InHands, Entering, Unannounced
  <2> QED
    BY <1>1, <2>1 DEF BeingCancelled
<1>4. ASSUME NEW id \in EdgeIds \ {it}
      PROVE  \A side \in Sides : ReservedAmount(id, side)' = ReservedAmount(id, side)
  <2>1. InBook(id)' <=> InBook(id)
    BY <1>1, <1>3, BookHoldsOn
  <2>2. /\ \A u \in Threads : HoldsFor(u, id) => HoldsFor(u, id)' /\ req'[u] = req[u]
        /\ \A u \in Threads : HoldsFor(u, id)' => HoldsFor(u, id)
    <3>1. ASSUME NEW u \in Threads, u # t
          PROVE  /\ HoldsFor(u, id) => HoldsFor(u, id)' /\ req'[u] = req[u]
                 /\ HoldsFor(u, id)' => HoldsFor(u, id)
      BY <1>1, <3>1 DEF HoldsFor
    <3>2. ~HoldsFor(t, id) /\ ~HoldsFor(t, id)'
      BY <1>1 DEF HoldsFor
    <3> QED
      BY <3>1, <3>2
  <2> QED
    BY <1>1, <1>2, <2>1, <2>2, NeedSame
<1>5. \A u \in Threads \ {t} : ~HoldsFor(u, it) /\ ~HoldsFor(u, it)'
  <2>1. ASSUME NEW u \in Threads \ {t} PROVE ~HoldsFor(u, it)
    BY <1>1 DEF SideInv, OneHandEach, HoldsFor, InHands, Reserving, Entering, Unannounced
  <2> QED
    BY <1>1, <2>1 DEF HoldsFor
<1>6. ~InBook(it)
  BY <1>1, NeedsAre, InHandsIsOld DEF NeedIs
<1> QED
  BY <1>2, <1>4, <1>5, <1>6

(* Who has nothing in the book and reserves for nothing needs nothing.       *)
LEMMA NoNeed ==
    ASSUME SideInv, NEW id \in EdgeIds, \A t \in Threads : ~HoldsFor(t, id), ~InBook(id)
    PROVE  \A side \in Sides : ReservedAmount(id, side) = 0
<1>1. ~BeforeBook(id)
  BY DEF BeforeBook, HoldsFor, Reserving
<1> QED
  BY <1>1, NeedsAre DEF NeedIs

(* What a quantity of a LIMIT order locks, by side.                          *)
LEMMA OwnIs ==
    ASSUME NEW o, NEW qty \in Nat, o.kind = "limit", o.side \in Sides, o.price \in Nat
    PROVE  /\ LockAmount(o, qty) \in Nat
           /\ \/ /\ LockAsset(o) = "quote" /\ Own(o, "sell", qty) = 0
                 /\ Own(o, "buy", qty) = LockAmount(o, qty)
              \/ /\ LockAsset(o) = "base" /\ Own(o, "buy", qty) = 0
                 /\ Own(o, "sell", qty) = LockAmount(o, qty)
<1>1. Mul(qty, o.price) \in Nat
  BY MulNat
<1> QED
  BY <1>1 DEF LockAmount, LockAsset, Own, Sides

(* Prices are natural numbers; MARKET orders have the price 0.               *)
LEMMA PriceIsNat ==
    ASSUME NEW p \in Prices \cup {0}
    PROVE  p \in Nat
BY BookAssumption DEF BookAssumption

(* An order that was asked for has a side, a price and a volume.             *)
LEMMA OrderHas ==
    ASSUME NEW o \in Order(Volumes)
    PROVE  o.side \in Sides /\ o.price \in Nat /\ o.vol \in Nat
<1>1. o.side \in Sides /\ o.price \in Prices \cup {0} /\ o.vol \in Volumes
  BY DEF Order
<1>2. Volumes \subseteq Nat
  BY BookAssumption DEF BookAssumption
<1> QED
  BY <1>1, <1>2, PriceIsNat

(* A reservation locks what the order needs from then on.                    *)
LEMMA ReserveHolds ==
    ASSUME ReserveInv, [EdgeNext]_allVars, NEW t \in Threads, Reserve(t)
    PROVE  bal' \in Ledgers /\ ReservationsHeld'
<1>1. PICK o : o = req[t]
  OBVIOUS
<1>2. PICK it : it = o.id
  OBVIOUS
<1>3. /\ SideInv /\ SideInv' /\ pc \in [Threads -> Places] /\ DOMAIN req = Threads /\ bal \in Ledgers
  BY SideStep DEF ReserveInv, SideInv, EdgeInv, EdgeTypeOK, Places, Ledgers
<1>4. pc[t] = "reserve" /\ InHands(t) /\ UNCHANGED <<hook, trades, told, orig, record>>
  BY DEF Reserve, InHands, Entering, Unannounced, vars, bookVars
<1>5. it \in EdgeIds /\ o \in Order(Volumes) /\ o.kind = "limit" /\ orig[it] = 0
  BY <1>1, <1>2, <1>3, <1>4, InHandsIsOld DEF SideInv, AsAsked
<1>6. PICK to \in {"announce", "unfunded"} :
         /\ pc' = [pc EXCEPT ![t] = to] /\ req' = [req EXCEPT ![t] = o]
         /\ to = "announce" => /\ Lockable(bal, LockAsset(o), LockAmount(o, o.vol))
                               /\ bal' = Lock(bal, LockAsset(o), LockAmount(o, o.vol))
         /\ to = "unfunded" => bal' = bal
  BY <1>1 DEF Reserve, Goto
<1>7. /\ \A id \in EdgeIds : SettledVolume(id)' = SettledVolume(id)
      /\ \A id \in EdgeIds \ {it}, side \in Sides :
            ReservedAmount(id, side)' = ReservedAmount(id, side)
      /\ \A u \in Threads \ {t} : ~HoldsFor(u, it) /\ ~HoldsFor(u, it)'
      /\ ~InBook(it)
  <2>1. to \in Places /\ to # "cancelling"
    BY DEF Places, Entering, Unannounced
  <2> QED
    BY <1>1, <1>2, <1>3, <1>4, <1>5, <1>6, <2>1, HandStep
<1>8. \A side \in Sides : ReservedAmount(it, side) = 0
  <2>1. ~HoldsFor(t, it)
    BY <1>4 DEF HoldsFor, Reserving
  <2> QED
    BY <1>3, <1>5, <1>7, <2>1, NoNeed
<1>9. CASE to = "unfunded"
  <2>1. ~BeforeBook(it)'
    <3>1. \A u \in Threads : ~HoldsFor(u, it)'
      BY <1>3, <1>6, <1>7, <1>9 DEF HoldsFor, Reserving
    <3> QED
      BY <3>1 DEF BeforeBook, HoldsFor, Reserving
  <2>2. \A side \in Sides : ReservedAmount(it, side)' = 0
    BY <1>3, <1>4, <1>5, <2>1, NeedsAreNext DEF NeedIs
  <2>3. \A id \in EdgeIds : /\ SettledVolume(id)' = SettledVolume(id)
                            /\ \A side \in Sides : ReservedAmount(id, side)' = ReservedAmount(id, side)
    BY <1>7, <1>8, <2>2
  <2> QED
    BY <1>3, <1>6, <1>9, <2>3, HeldSame
<1>10. CASE to = "announce"
  <2>1. \A side \in Sides : ReservedAmount(it, side)' = Own(o, side, o.vol)
    <3>1. HoldsFor(t, it)' /\ req'[t] = o
      BY <1>2, <1>3, <1>6, <1>10 DEF HoldsFor, Reserving
    <3>2. \A side \in Sides : ReservedAmount(it, side)' = Own(req'[t], side, req'[t].vol)
      BY <1>3, <1>5, <3>1, NeedsAreNext DEF NeedIs, Own, LockAmount
    <3> QED
      BY <3>1, <3>2
  <2>2. PICK amt : amt = LockAmount(o, o.vol)
    OBVIOUS
  <2>3. PICK asset : asset = LockAsset(o)
    OBVIOUS
  <2>4. /\ amt \in Nat /\ asset \in Assets
        /\ \/ asset = "quote" /\ Own(o, "buy", o.vol) = amt /\ Own(o, "sell", o.vol) = 0
           \/ asset = "base" /\ Own(o, "sell", o.vol) = amt /\ Own(o, "buy", o.vol) = 0
    BY <1>5, <2>2, <2>3, OwnIs, OrderHas DEF Assets
  <2>5. Lockable(bal, asset, amt) /\ bal' = Lock(bal, asset, amt)
    BY <1>6, <1>10, <2>2, <2>3
  <2>6. /\ bal' \in Ledgers /\ bal'[asset].locked = bal[asset].locked + amt
        /\ \A other \in Assets \ {asset} : bal'[other] = bal[other]
    BY <1>3, <2>4, <2>5, LockMoves
  <2>7. bal["base"].locked \in Nat /\ bal["quote"].locked \in Nat
    BY <1>3 DEF Ledgers, Assets, Holding
  <2>8. /\ bal'["base"].locked + ReservedAmount(it, "sell")
             = bal["base"].locked + ReservedAmount(it, "sell")'
        /\ bal'["quote"].locked + ReservedAmount(it, "buy")
             = bal["quote"].locked + ReservedAmount(it, "buy")'
    BY <1>8, <2>1, <2>4, <2>6, <2>7 DEF Sides, Assets
  <2>9. SettledVolume(it) \in Nat /\ SettledVolume(it)' = SettledVolume(it)
    BY <1>3, <1>5, <1>7, NeedsAre DEF NeedIs
  <2> QED
    BY <1>3, <1>5, <1>7, <1>8, <2>1, <2>4, <2>6, <2>7, <2>8, <2>9, HeldMoves DEF Ledgers, Sides, Assets
<1> QED
  BY <1>9, <1>10

(* A record removed after a refused reservation had nothing reserved; after  *)
(* a refused placement the handler still holds what it has to give back.     *)
LEMMA RemoveHolds ==
    ASSUME ReserveInv, [EdgeNext]_allVars, NEW t \in Threads, Remove(t)
    PROVE  ReservationsHeld'
<1>1. PICK it : it = req[t].id
  OBVIOUS
<1>2. /\ SideInv /\ SideInv' /\ pc \in [Threads -> Places] /\ DOMAIN req = Threads
      /\ record \in [EdgeIds -> Rec \cup {None}]
  BY SideStep DEF ReserveInv, SideInv, EdgeInv, EdgeTypeOK, Places
<1>3. InHands(t) /\ UNCHANGED <<hook, trades, told, orig, bal>>
  BY DEF Remove, Goto, InHands, Entering, Unannounced, vars, bookVars
<1>4. it \in EdgeIds /\ orig[it] = 0
  BY <1>1, <1>2, <1>3, InHandsIsOld
<1>5. PICK to \in {"idle", "release"} :
         /\ pc' = [pc EXCEPT ![t] = to] /\ \A u \in Threads \ {t} : req'[u] = req[u]
         /\ to = "release" => pc[t] = "refused" /\ req'[t] = req[t]
         /\ to = "idle" => pc[t] = "unfunded"
  BY <1>2 DEF Remove, Goto
<1>6. \A id \in EdgeIds \ {it} : record'[id] = record[id]
  BY <1>1, <1>2 DEF Remove
<1>7. /\ \A id \in EdgeIds : SettledVolume(id)' = SettledVolume(id)
      /\ \A id \in EdgeIds \ {it}, side \in Sides :
            ReservedAmount(id, side)' = ReservedAmount(id, side)
      /\ \A u \in Threads \ {t} : ~HoldsFor(u, it) /\ ~HoldsFor(u, it)'
      /\ ~InBook(it)
  <2>1. to \in Places /\ to # "cancelling" /\ (to \in Reserving => req'[t] = req[t])
    BY <1>5 DEF Places, Reserving
  <2> QED
    BY <1>1, <1>2, <1>3, <1>4, <1>5, <1>6, <2>1, HandStep
<1>8. ~InBook(it)'
  BY <1>2, <1>3, <1>4, NeedsAreNext DEF NeedIs
<1>9. \A side \in Sides : ReservedAmount(it, side)' = ReservedAmount(it, side)
  <2>1. /\ \A u \in Threads : HoldsFor(u, it) => HoldsFor(u, it)' /\ req'[u] = req[u]
        /\ \A u \in Threads : HoldsFor(u, it)' => HoldsFor(u, it)
    BY <1>1, <1>2, <1>5, <1>7 DEF HoldsFor, Reserving
  <2> QED
    BY <1>2, <1>4, <1>7, <1>8, <2>1, NeedSame
<1>10. \A id \in EdgeIds : /\ SettledVolume(id)' = SettledVolume(id)
                           /\ \A side \in Sides : ReservedAmount(id, side)' = ReservedAmount(id, side)
  BY <1>7, <1>9
<1> QED
  BY <1>2, <1>3, <1>10, HeldSame

(* What a refused placement had reserved is given back, once.                *)
LEMMA ReleaseHolds ==
    ASSUME ReserveInv, [EdgeNext]_allVars, NEW t \in Threads, Release(t)
    PROVE  bal' \in Ledgers /\ ReservationsHeld'
<1>1. PICK o : o = req[t]
  OBVIOUS
<1>2. PICK it : it = o.id
  OBVIOUS
<1>3. /\ SideInv /\ SideInv' /\ pc \in [Threads -> Places] /\ DOMAIN req = Threads /\ bal \in Ledgers
  BY SideStep DEF ReserveInv, SideInv, EdgeInv, EdgeTypeOK, Places, Ledgers
<1>4. /\ pc[t] = "release" /\ InHands(t) /\ UNCHANGED <<hook, trades, told, orig, record>>
      /\ pc' = [pc EXCEPT ![t] = "idle"] /\ \A u \in Threads \ {t} : req'[u] = req[u]
      /\ bal' = IF o.kind = "limit" THEN Unlock(bal, LockAsset(o), LockAmount(o, o.vol)) ELSE bal
  BY <1>1, <1>3 DEF Release, Goto, InHands, Entering, Unannounced, vars, bookVars
<1>5. it \in EdgeIds /\ o \in Order(Volumes) /\ orig[it] = 0
  BY <1>1, <1>2, <1>3, <1>4, InHandsIsOld
<1>6. /\ \A id \in EdgeIds : SettledVolume(id)' = SettledVolume(id)
      /\ \A id \in EdgeIds \ {it}, side \in Sides :
            ReservedAmount(id, side)' = ReservedAmount(id, side)
      /\ \A u \in Threads \ {t} : ~HoldsFor(u, it) /\ ~HoldsFor(u, it)'
      /\ ~InBook(it)
  <2>1. "idle" \in Places /\ "idle" # "cancelling" /\ "idle" \notin Reserving
    BY DEF Places, Reserving
  <2> QED
    BY <1>1, <1>2, <1>3, <1>4, <1>5, <2>1, HandStep
<1>7. \A side \in Sides : ReservedAmount(it, side) = Own(o, side, o.vol)
  <2>1. HoldsFor(t, it)
    BY <1>1, <1>2, <1>4 DEF HoldsFor, Reserving
  <2> QED
    BY <1>1, <1>3, <1>5, <2>1, NeedsAre DEF NeedIs
<1>8. \A side \in Sides : ReservedAmount(it, side)' = 0
  <2>1. ~BeforeBook(it)'
    <3>1. \A u \in Threads : ~HoldsFor(u, it)'
      BY <1>3, <1>4, <1>6 DEF HoldsFor, Reserving
    <3> QED
      BY <3>1 DEF BeforeBook, HoldsFor, Reserving
  <2> QED
    BY <1>3, <1>4, <1>5, <2>1, NeedsAreNext DEF NeedIs
<1>9. CASE o.kind # "limit"
  <2>1. \A side \in Sides : ReservedAmount(it, side) = 0
    BY <1>7, <1>9 DEF Own
  <2>2. \A id \in EdgeIds : /\ SettledVolume(id)' = SettledVolume(id)
                            /\ \A side \in Sides : ReservedAmount(id, side)' = ReservedAmount(id, side)
    BY <1>6, <1>8, <2>1
  <2> QED
    BY <1>3, <1>4, <1>9, <2>2, HeldSame
<1>10. CASE o.kind = "limit"
  <2>1. PICK amt : amt = LockAmount(o, o.vol)
    OBVIOUS
  <2>2. PICK asset : asset = LockAsset(o)
    OBVIOUS
  <2>3. /\ amt \in Nat /\ asset \in Assets
        /\ \/ asset = "quote" /\ Own(o, "buy", o.vol) = amt /\ Own(o, "sell", o.vol) = 0
           \/ asset = "base" /\ Own(o, "sell", o.vol) = amt /\ Own(o, "buy", o.vol) = 0
    BY <1>5, <1>10, <2>1, <2>2, OwnIs, OrderHas DEF Assets
  <2>4. bal["base"].locked \in Nat /\ bal["quote"].locked \in Nat
    BY <1>3 DEF Ledgers, Assets, Holding
  <2>5. amt =< bal[asset].locked
    BY <1>5, <1>7, <2>3, NeedIsLocked DEF Sides
  <2>6. bal' = Unlock(bal, asset, amt)
    BY <1>4, <1>10, <2>1, <2>2
  <2>7. /\ bal' \in Ledgers /\ bal'[asset].locked = bal[asset].locked - amt
        /\ \A other \in Assets \ {asset} : bal'[other] = bal[other]
    BY <1>3, <2>3, <2>5, <2>6, UnlockMoves
  <2>8. /\ bal'["base"].locked + ReservedAmount(it, "sell")
             = bal["base"].locked + ReservedAmount(it, "sell")'
        /\ bal'["quote"].locked + ReservedAmount(it, "buy")
             = bal["quote"].locked + ReservedAmount(it, "buy")'
    BY <1>7, <1>8, <2>3, <2>4, <2>7 DEF Sides, Assets
  <2>9. SettledVolume(it) \in Nat /\ SettledVolume(it)' = SettledVolume(it)
    BY <1>3, <1>5, <1>6, NeedsAre DEF NeedIs
  <2> QED
    BY <1>3, <1>5, <1>6, <1>7, <1>8, <2>3, <2>4, <2>7, <2>8, <2>9, HeldMoves
       DEF Ledgers, Sides, Assets
<1> QED
  BY <1>9, <1>10

(* In the book an order still needs all that was reserved for it.            *)
LEMMA EnterHolds ==
    ASSUME ReserveInv, [EdgeNext]_allVars, NEW t \in Threads, EnterBook(t)
    PROVE  ReservationsHeld'
<1>1. PICK o : o = req[t]
  OBVIOUS
<1>2. PICK it : it = o.id
  OBVIOUS
<1>3. /\ SideInv /\ SideInv' /\ EdgeInv /\ pc \in [Threads -> Places] /\ DOMAIN req = Threads
      /\ orig \in [Ids -> Nat]
  BY SideStep DEF ReserveInv, SideInv, EdgeInv, EdgeTypeOK, Places, AccountInv, BookInv, TypeOK
<1>4. /\ pc[t] = "book" /\ InHands(t) /\ UNCHANGED <<hook, trades, told, record, bal>>
      /\ pc' = [pc EXCEPT ![t] = "placing"] /\ \A u \in Threads \ {t} : req'[u] = req[u]
      /\ orig' = [orig EXCEPT ![it] = o.vol]
  BY <1>1, <1>2, <1>3 DEF EnterBook, Goto, Submit, InHands, Entering, Unannounced
<1>5. it \in EdgeIds /\ o \in Order(Volumes) /\ orig[it] = 0 /\ EdgeIds \subseteq Ids
  BY <1>1, <1>2, <1>3, <1>4, InHandsIsOld, EdgeAssumption DEF EdgeAssumption
<1>6. /\ \A id \in EdgeIds : SettledVolume(id)' = SettledVolume(id)
      /\ \A id \in EdgeIds \ {it}, side \in Sides :
            ReservedAmount(id, side)' = ReservedAmount(id, side)
  <2>1. "placing" \in Places /\ "placing" # "cancelling" /\ "placing" \notin Reserving
    BY DEF Places, Reserving
  <2>2. \A id \in EdgeIds \ {it} : record'[id] = record[id] /\ orig'[id] = orig[id]
    BY <1>3, <1>4, <1>5
  <2> QED
    BY <1>1, <1>2, <1>3, <1>4, <1>5, <2>1, <2>2, HandStep
<1>7. \A side \in Sides : ReservedAmount(it, side) = Own(o, side, o.vol)
  <2>1. HoldsFor(t, it)
    BY <1>1, <1>2, <1>4 DEF HoldsFor, Reserving
  <2> QED
    BY <1>1, <1>3, <1>5, <2>1, NeedsAre DEF NeedIs
<1>8. /\ record[it] \in Rec /\ record[it] # None /\ record[it].status = "NEW"
      /\ record[it].kind = o.kind /\ record[it].orig = o.vol
      /\ record[it].side = o.side /\ record[it].price = o.price
  <2>1. OnItsWay(t) /\ AsAsked(t) /\ pc[t] \in Entering
    BY <1>3, <1>4 DEF SideInv, EdgeInv, Entering
  <2> QED
    BY <1>1, <1>2, <2>1 DEF OnItsWay, AsAsked, Rec, None
<1>9. SettledVolume(it)' = 0
  BY <1>3, <1>5, <1>6, NeedsAre DEF NeedIs
<1>10. InBook(it)'
  <2>1. orig'[it] = o.vol /\ o.vol # 0
    BY <1>3, <1>4, <1>5, BookAssumption DEF BookAssumption, Order
  <2> QED
    BY <1>3, <1>4, <1>5, <1>8, <2>1, NeedsAreNext DEF NeedIs
<1>11. \A side \in Sides : ReservedAmount(it, side)' = ReservedAmount(it, side)
  <2>1. \A side \in Sides : ReservedAmount(it, side)'
                              = Own(record'[it], side, record'[it].orig - SettledVolume(it)')
    BY <1>3, <1>5, <1>10, NeedsAreNext DEF NeedIs, Own, LockAmount
  <2>2. record'[it].orig - SettledVolume(it)' = o.vol
    <3>1. o.vol \in Nat
      BY <1>5, BookAssumption DEF BookAssumption, Order
    <3>2. record'[it].orig = o.vol
      BY <1>4, <1>8
    <3> QED
      BY <1>9, <3>1, <3>2
  <2> QED
    BY <1>4, <1>7, <1>8, <2>1, <2>2 DEF Own, LockAmount
<1>12. \A id \in EdgeIds : /\ SettledVolume(id)' = SettledVolume(id)
                           /\ \A side \in Sides : ReservedAmount(id, side)' = ReservedAmount(id, side)
  BY <1>6, <1>11
<1> QED
  BY <1>3, <1>4, <1>12, HeldSame

-----------------------------------------------------------------------------
(* What a fill does to the ledger. *)

(* A MARKET order's fill is paid from what is free.                          *)
LEMMA MarketSettles ==
    ASSUME NEW b \in Ledgers, NEW vol \in Nat, NEW price \in Nat, NEW isBuy \in BOOLEAN
    PROVE  /\ SettleMarket(b, isBuy, "base", "quote", vol, price) \in Ledgers
           /\ \A asset \in Assets :
                 SettleMarket(b, isBuy, "base", "quote", vol, price)[asset].locked = b[asset].locked
<1>1. "base" \in Assets /\ "quote" \in Assets /\ \A x \in Assets : x = "base" \/ x = "quote"
  BY DEF Assets
<1>2. /\ b["base"].free \in Nat /\ b["quote"].free \in Nat
  BY <1>1 DEF Ledgers, Holding
<1>3. PICK cost : cost = Mul(vol, price)
  OBVIOUS
<1>4. PICK pay : pay = AtMost(cost, b["quote"].free)
  OBVIOUS
<1>5. PICK sold : sold = AtMost(vol, b["base"].free)
  OBVIOUS
<1>6. cost \in Nat /\ pay \in Nat /\ sold \in Nat /\ Mul(vol, pay) \in Nat /\ Mul(sold, price) \in Nat
  <2>1. cost \in Nat
    BY <1>3, MulNat
  <2>2. pay \in Nat /\ sold \in Nat
    BY <1>2, <1>4, <1>5, <2>1 DEF AtMost
  <2> QED
    BY <2>1, <2>2, MulNat
<1>7. CASE isBuy
  <2>1. PICK got : got = IF pay < cost /\ cost > 0 THEN Div(Mul(vol, pay), cost) ELSE vol
    OBVIOUS
  <2>2. got \in Nat
    <3>1. ASSUME NEW m \in Nat, cost > 0 PROVE Div(m, cost) \in Nat
      <4>1. m * Scale \in Nat
        BY LedgerAssumption DEF LedgerAssumption
      <4>2. ASSUME NEW n \in Nat PROVE n \div cost \in Nat
        BY <1>6, <3>1
      <4> QED
        BY <4>1, <4>2 DEF Div
    <3> QED
      BY <1>6, <2>1, <3>1
  <2>3. PICK c : c = Burn(b, "quote", pay)
    OBVIOUS
  <2>4. /\ c \in Ledgers /\ c["quote"].locked = b["quote"].locked
        /\ \A x \in Assets \ {"quote"} : c[x] = b[x]
    BY <1>1, <1>6, <2>3, BurnTakes
  <2>5. /\ Credit(c, "base", got) \in Ledgers
        /\ Credit(c, "base", got)["base"].locked = c["base"].locked
        /\ \A x \in Assets \ {"base"} : Credit(c, "base", got)[x] = c[x]
    BY <1>1, <2>2, <2>4, CreditAdds
  <2>6. SettleMarket(b, isBuy, "base", "quote", vol, price) = Credit(c, "base", got)
    BY <1>3, <1>4, <1>7, <2>1, <2>3 DEF SettleMarket
  <2> QED
    BY <1>1, <2>4, <2>5, <2>6
<1>8. CASE ~isBuy
  <2>1. PICK c : c = Burn(b, "base", sold)
    OBVIOUS
  <2>2. /\ c \in Ledgers /\ c["base"].locked = b["base"].locked
        /\ \A x \in Assets \ {"base"} : c[x] = b[x]
    BY <1>1, <1>6, <2>1, BurnTakes
  <2>3. /\ Credit(c, "quote", Mul(sold, price)) \in Ledgers
        /\ Credit(c, "quote", Mul(sold, price))["quote"].locked = c["quote"].locked
        /\ \A x \in Assets \ {"quote"} : Credit(c, "quote", Mul(sold, price))[x] = c[x]
    BY <1>1, <1>6, <2>2, CreditAdds
  <2>4. SettleMarket(b, isBuy, "base", "quote", vol, price) = Credit(c, "quote", Mul(sold, price))
    BY <1>5, <1>8, <2>1 DEF SettleMarket
  <2> QED
    BY <1>1, <2>2, <2>3, <2>4
<1> QED
  BY <1>7, <1>8

\* The two sides of a fill of a LIMIT order.
BuyFill(b, vol, price, limit) == SettleLimit(b, TRUE, "base", "quote", vol, price, limit)
SellFill(b, vol, price, limit) == SettleLimit(b, FALSE, "base", "quote", vol, price, limit)

(* A LIMIT buyer's reservation for the fill is released in full and the      *)
(* fill paid from it, at the execution price.                                *)
LEMMA BuySettles ==
    ASSUME NEW b \in Ledgers, NEW vol \in Nat, NEW price \in Nat, NEW limit \in Nat,
           price =< limit, Mul(vol, limit) =< b["quote"].locked
    PROVE  /\ BuyFill(b, vol, price, limit) \in Ledgers
           /\ BuyFill(b, vol, price, limit)["quote"].locked = b["quote"].locked - Mul(vol, limit)
           /\ BuyFill(b, vol, price, limit)["quote"].free = b["quote"].free + Mul(vol, limit) - Mul(vol, price)
           /\ BuyFill(b, vol, price, limit)["base"].locked = b["base"].locked
           /\ BuyFill(b, vol, price, limit)["base"].free = b["base"].free + vol
<1>1. "base" \in Assets /\ "quote" \in Assets
  BY DEF Assets
<1>2. PICK kept : kept = Mul(vol, limit)
  OBVIOUS
<1>3. PICK cost : cost = Mul(vol, price)
  OBVIOUS
<1>4. kept \in Nat /\ cost \in Nat /\ cost =< kept /\ kept =< b["quote"].locked
  BY <1>2, <1>3, MulNat, MulMonotonic
<1>5. b["quote"].free \in Nat /\ b["base"].free \in Nat /\ b["quote"].locked \in Nat
  BY <1>1 DEF Ledgers, Holding
<1>6. PICK c : c = Unlock(b, "quote", kept)
  OBVIOUS
<1>7. /\ c \in Ledgers /\ c["quote"].free = b["quote"].free + kept
      /\ c["quote"].locked = b["quote"].locked - kept /\ c["base"] = b["base"]
  BY <1>1, <1>4, <1>6, UnlockMoves
<1>8. PICK d : d = Burn(c, "quote", cost)
  OBVIOUS
<1>9. /\ d \in Ledgers /\ d["quote"].free = c["quote"].free - cost
      /\ d["quote"].locked = c["quote"].locked /\ d["base"] = c["base"]
  <2>1. AtMost(cost, c["quote"].free) = cost
    BY <1>4, <1>5, <1>7 DEF AtMost
  <2>2. /\ d \in Ledgers /\ d["quote"].free = c["quote"].free - AtMost(cost, c["quote"].free)
        /\ d["quote"].locked = c["quote"].locked
        /\ \A x \in Assets \ {"quote"} : d[x] = c[x]
    BY <1>1, <1>4, <1>7, <1>8, BurnTakes
  <2> QED
    BY <1>1, <2>1, <2>2
<1>10. PICK e : e = Credit(d, "base", vol)
  OBVIOUS
<1>11. /\ e \in Ledgers /\ e["base"].free = d["base"].free + vol
       /\ e["base"].locked = d["base"].locked /\ e["quote"] = d["quote"]
  BY <1>1, <1>9, <1>10, CreditAdds
<1>12. BuyFill(b, vol, price, limit) = e
  BY <1>2, <1>3, <1>6, <1>8, <1>10 DEF BuyFill, SettleLimit
<1>13. /\ e["quote"].free = b["quote"].free + kept - cost
       /\ e["quote"].locked = b["quote"].locked - kept
       /\ e["base"].locked = b["base"].locked /\ e["base"].free = b["base"].free + vol
  <2>1. c["quote"].free = b["quote"].free + kept /\ d["quote"].free = c["quote"].free - cost
    BY <1>7, <1>9
  <2>2. e["quote"].free = d["quote"].free /\ e["quote"].locked = d["quote"].locked
    BY <1>11
  <2>3. d["quote"].locked = c["quote"].locked /\ c["quote"].locked = b["quote"].locked - kept
    BY <1>7, <1>9
  <2>4. e["base"].free = d["base"].free + vol /\ e["base"].locked = d["base"].locked
    BY <1>11
  <2>5. d["base"] = b["base"]
    BY <1>7, <1>9
  <2> QED
    BY <1>4, <1>5, <2>1, <2>2, <2>3, <2>4, <2>5
<1> QED
  BY <1>2, <1>3, <1>11, <1>12, <1>13

(* A LIMIT seller delivers from its reservation and is paid.                 *)
LEMMA SellSettles ==
    ASSUME NEW b \in Ledgers, NEW vol \in Nat, NEW price \in Nat, NEW limit,
           vol =< b["base"].locked
    PROVE  /\ SellFill(b, vol, price, limit) \in Ledgers
           /\ SellFill(b, vol, price, limit)["base"].locked = b["base"].locked - vol
           /\ SellFill(b, vol, price, limit)["base"].free = b["base"].free
           /\ SellFill(b, vol, price, limit)["quote"].locked = b["quote"].locked
           /\ SellFill(b, vol, price, limit)["quote"].free = b["quote"].free + Mul(vol, price)
<1>1. "base" \in Assets /\ "quote" \in Assets
  BY DEF Assets
<1>2. PICK cost : cost = Mul(vol, price)
  OBVIOUS
<1>3. cost \in Nat
  BY <1>2, MulNat
<1>4. b["quote"].free \in Nat /\ b["base"].free \in Nat /\ b["base"].locked \in Nat
  BY <1>1 DEF Ledgers, Holding
<1>5. PICK c : c = Unlock(b, "base", vol)
  OBVIOUS
<1>6. /\ c \in Ledgers /\ c["base"].free = b["base"].free + vol
      /\ c["base"].locked = b["base"].locked - vol /\ c["quote"] = b["quote"]
  BY <1>1, <1>5, UnlockMoves
<1>7. PICK d : d = Burn(c, "base", vol)
  OBVIOUS
<1>8. /\ d \in Ledgers /\ d["base"].free = b["base"].free
      /\ d["base"].locked = c["base"].locked /\ d["quote"] = c["quote"]
  <2>1. AtMost(vol, c["base"].free) = vol
    BY <1>4, <1>6 DEF AtMost
  <2>2. d["base"].free = c["base"].free - vol
    BY <1>1, <1>6, <1>7, <2>1, BurnTakes
  <2>3. d["base"].free = b["base"].free
    BY <1>4, <1>6, <2>2
  <2> QED
    BY <1>1, <1>6, <1>7, <2>3, BurnTakes
<1>9. PICK e : e = Credit(d, "quote", cost)
  OBVIOUS
<1>10. /\ e \in Ledgers /\ e["quote"].free = d["quote"].free + cost
       /\ e["quote"].locked = d["quote"].locked /\ e["base"] = d["base"]
  BY <1>1, <1>3, <1>8, <1>9, CreditAdds
<1>11. SellFill(b, vol, price, limit) = e
  BY <1>2, <1>5, <1>7, <1>9 DEF SellFill, SettleLimit
<1> QED
  BY <1>2, <1>6, <1>8, <1>10, <1>11

(* An order of the account that is being filled: what the registry has of    *)
(* it, and that its need is the book's.                                      *)
LEMMA FillIs ==
    ASSUME SideInv, trades # <<>>, NEW it \in EdgeIds, it \in {trades[1].buy, trades[1].sell}
    PROVE  /\ Fired = trades[1] /\ trades[1] \in Trade
           /\ trades[1].vol \in Nat /\ trades[1].vol > 0 /\ trades[1].price \in Nat
           /\ record[it] \in Rec /\ Recorded(it) /\ record[it].orig = orig[it]
           /\ record[it].price \in Nat /\ record[it].kind \in {"limit", "market"}
           /\ record[it].price = 0 <=> record[it].kind = "market"
           /\ told[it] \in Nat /\ orig[it] \in Nat /\ told[it] + trades[1].vol =< orig[it]
           /\ orig[it] # 0 /\ record[it].status # "CANCELED"
           /\ ~BeforeBook(it) /\ InBook(it)
<1>1. EdgeInv /\ trades \in Seq(Trade) /\ record \in [EdgeIds -> Rec \cup {None}]
  BY DEF SideInv, EdgeInv, EdgeTypeOK, AccountInv, BookInv, TypeOK
<1>2. trades[1] \in Trade /\ Fired = trades[1]
  BY <1>1 DEF Fired
<1>3. FirstDue(it) = trades[1].vol
  BY <1>1, <1>2, HookEvent
<1>4. trades[1].vol \in Nat /\ trades[1].vol > 0 /\ trades[1].price \in Nat
  <2>1. trades[1].vol \in Nat \ {0} /\ trades[1].price \in Prices
    BY <1>2 DEF Trade
  <2> QED
    BY <2>1, PriceIsNat
<1>5. /\ told[it] \in Nat /\ orig[it] \in Nat /\ dropped[it] \in Nat
      /\ told[it] + dropped[it] + trades[1].vol =< orig[it]
  BY <1>1, <1>3, HookEvent
<1>6. orig[it] # 0 /\ told[it] + trades[1].vol =< orig[it] /\ told[it] + dropped[it] # orig[it]
  BY <1>4, <1>5
<1>7. record[it] # None /\ record[it] \in Rec /\ record[it].orig = orig[it]
  BY <1>1, <1>6 DEF EdgeInv, Known
<1>8. record[it].status # "CANCELED"
  BY <1>1, <1>6, <1>7 DEF EdgeInv, RecordFollows
<1>9. record[it].price \in Nat
  <2>1. record[it].price \in Prices \cup {0}
    BY <1>7 DEF Rec
  <2> QED
    BY <2>1, PriceIsNat
<1>10. /\ record[it].kind \in {"limit", "market"}
       /\ record[it].price = 0 <=> record[it].kind = "market"
  BY <1>7 DEF SideInv, PricedByKind
<1>11. InBook(it) /\ ~BeforeBook(it)
  BY <1>6, <1>7, <1>8, NeedsAre DEF NeedIs
<1> QED
  BY <1>2, <1>4, <1>5, <1>6, <1>7, <1>8, <1>9, <1>10, <1>11 DEF Recorded

(* The cancel's hook gives back what is left of the order.                   *)
LEMMA CancelHolds ==
    ASSUME ReserveInv, [EdgeNext]_allVars, LedgerBuyer, CancelFired
    PROVE  bal' \in Ledgers /\ ReservationsHeld'
<1>1. /\ SideInv /\ SideInv' /\ EdgeInv /\ hook \in 1..4 /\ bal \in Ledgers
      /\ \A t \in Threads : InTheBook(t)
  BY SideStep DEF ReserveInv, SideInv, EdgeInv, EdgeTypeOK, Ledgers
<1>2. /\ hook = 3 /\ hook' = 4 /\ UNCHANGED <<pc, req, record, trades, told, orig>>
      /\ bal' = Unlocked(CancelledId)
  <2>1. hook = 3 /\ hook' = hook + 1
    BY <1>1, WhichHook DEF LedgerBuyer
  <2> QED
    BY <2>1 DEF LedgerBuyer, vars, bookVars
<1>3. PICK t \in Threads : pc[t] = "cancelling"
  BY <1>1, WhoseCancel
<1>4. PICK it : it = req[t].id
  OBVIOUS
<1>5. /\ it \in EdgeIds /\ CancelledId = it /\ trades = <<>>
      /\ told[it] + dropped[it] = orig[it] /\ dropped[it] > 0 /\ record[it].status = "CANCELED"
      /\ \A id : BeingCancelled(id) <=> id = it
  BY <1>1, <1>2, <1>3, <1>4, WhoseCancel DEF InTheBook, Cancelling
<1>6. /\ told[it] \in Nat /\ orig[it] \in Nat /\ orig[it] # 0 /\ told[it] =< orig[it]
  BY <1>1, <1>5, HookEvent
<1>7. /\ record[it] # None /\ record[it] \in Rec /\ record[it].orig = orig[it]
      /\ record[it].executed = told[it]
  BY <1>1, <1>5, <1>6 DEF EdgeInv, EdgeTypeOK, Known, RecordFollows, Ahead
<1>8. \A id \in EdgeIds : SettledVolume(id)' = SettledVolume(id) /\ SettledVolume(id) = told[id]
  BY <1>1, <1>2, <1>5, NeedsAre, NeedsAreNext DEF NeedIs, Paid
<1>9. ASSUME NEW id \in EdgeIds \ {it}
      PROVE  \A side \in Sides : ReservedAmount(id, side)' = ReservedAmount(id, side)
  <2>1. ~BeingCancelled(id) /\ ~BeingCancelled(id)'
    BY <1>2, <1>5 DEF BeingCancelled
  <2>2. InBook(id)' <=> InBook(id)
    BY <1>1, <1>2, <2>1, BookHoldsOn
  <2>3. /\ \A u \in Threads : HoldsFor(u, id) => HoldsFor(u, id)' /\ req'[u] = req[u]
        /\ \A u \in Threads : HoldsFor(u, id)' => HoldsFor(u, id)
    BY <1>2 DEF HoldsFor
  <2> QED
    BY <1>1, <1>8, <2>2, <2>3, NeedSame
<1>10. PICK rec : rec = record[it]
  OBVIOUS
<1>11. PICK rest : rest = orig[it] - told[it]
  OBVIOUS
<1>12. rest \in Nat /\ rec.side \in Sides /\ rec.price \in Nat
  <2>1. rec.side \in Sides /\ rec.price \in Prices \cup {0}
    BY <1>7, <1>10 DEF Rec
  <2> QED
    BY <1>6, <1>11, <2>1, PriceIsNat
<1>13. \A side \in Sides : ReservedAmount(it, side) = Own(rec, side, rest)
  <2>1. InBook(it)
    BY <1>1, <1>2, <1>5, <1>6, <1>7, NeedsAre DEF NeedIs
  <2> QED
    BY <1>1, <1>5, <1>7, <1>8, <1>10, <1>11, <2>1, NeedsAre DEF NeedIs
<1>14. \A side \in Sides : ReservedAmount(it, side)' = 0
  <2>1. ~InBook(it)'
    BY <1>1, <1>2, <1>5, NeedsAreNext DEF NeedIs
  <2>2. ~BeforeBook(it)'
    BY <1>1, <1>2, <1>5, <1>6, NeedsAreNext DEF NeedIs
  <2> QED
    BY <1>1, <1>5, <2>1, <2>2, NeedsAreNext DEF NeedIs
<1>15. CASE rec.kind # "limit"
  <2>1. bal' = bal
    BY <1>2, <1>5, <1>10, <1>15 DEF Unlocked
  <2>2. \A side \in Sides : ReservedAmount(it, side)' = ReservedAmount(it, side)
    BY <1>13, <1>14, <1>15 DEF Own
  <2>3. \A id \in EdgeIds : /\ SettledVolume(id)' = SettledVolume(id)
                            /\ \A side \in Sides : ReservedAmount(id, side)' = ReservedAmount(id, side)
    BY <1>8, <1>9, <2>2
  <2> QED
    BY <1>1, <2>1, <2>3, HeldSame
<1>16. CASE rec.kind = "limit"
  <2>1. PICK amt : amt = LockAmount(rec, rest)
    OBVIOUS
  <2>2. PICK asset : asset = LockAsset(rec)
    OBVIOUS
  <2>3. /\ amt \in Nat /\ asset \in Assets
        /\ \/ asset = "quote" /\ Own(rec, "buy", rest) = amt /\ Own(rec, "sell", rest) = 0
           \/ asset = "base" /\ Own(rec, "sell", rest) = amt /\ Own(rec, "buy", rest) = 0
    BY <1>12, <1>16, <2>1, <2>2, OwnIs DEF Assets
  <2>4. bal["base"].locked \in Nat /\ bal["quote"].locked \in Nat
    BY <1>1 DEF Ledgers, Assets, Holding
  <2>5. amt =< bal[asset].locked
    BY <1>5, <1>13, <2>3, NeedIsLocked DEF Sides
  <2>6. bal' = Unlock(bal, asset, amt)
    BY <1>2, <1>5, <1>7, <1>10, <1>11, <1>16, <2>1, <2>2 DEF Unlocked, Recorded
  <2>7. /\ bal' \in Ledgers /\ bal'[asset].locked = bal[asset].locked - amt
        /\ \A other \in Assets \ {asset} : bal'[other] = bal[other]
    BY <1>1, <2>3, <2>5, <2>6, UnlockMoves
  <2>8. /\ bal'["base"].locked + ReservedAmount(it, "sell")
             = bal["base"].locked + ReservedAmount(it, "sell")'
        /\ bal'["quote"].locked + ReservedAmount(it, "buy")
             = bal["quote"].locked + ReservedAmount(it, "buy")'
    BY <1>13, <1>14, <2>3, <2>4, <2>7 DEF Sides, Assets
  <2>9. SettledVolume(it) \in Nat /\ SettledVolume(it)' = SettledVolume(it)
    BY <1>5, <1>6, <1>8
  <2> QED
    BY <1>1, <1>5, <1>8, <1>9, <1>13, <1>14, <2>3, <2>4, <2>7, <2>8, <2>9, HeldMoves
       DEF Ledgers, Sides, Assets
<1> QED
  BY <1>15, <1>16

(* An order without a price settles as a MARKET order.                       *)
LEMMA FillSettles ==
    ASSUME NEW b, NEW isBuy, NEW vol, NEW price, NEW limit \in Nat
    PROVE  /\ limit = 0 => SettleFill(b, isBuy, "base", "quote", vol, price, limit)
                            = SettleMarket(b, isBuy, "base", "quote", vol, price)
           /\ limit # 0 => SettleFill(b, isBuy, "base", "quote", vol, price, limit)
                            = SettleLimit(b, isBuy, "base", "quote", vol, price, limit)
<1>1. limit =< 0 <=> limit = 0
  OBVIOUS
<1> QED
  BY <1>1, Zenon DEF SettleFill

(* A fill's event leaves alone whether the book has an order.                *)
LEMMA FillKeepsBook ==
    ASSUME SideInv, SideInv', trades # <<>>, UNCHANGED <<pc, req, record, orig>>, NEW id \in EdgeIds
    PROVE  /\ InBook(id)' <=> InBook(id)
           /\ \A u \in Threads : HoldsFor(u, id) => HoldsFor(u, id)' /\ req'[u] = req[u]
           /\ \A u \in Threads : HoldsFor(u, id)' => HoldsFor(u, id)
<1>1. ~BeingCancelled(id) /\ ~BeingCancelled(id)'
  BY HookEvent DEF SideInv, BeingCancelled
<1>2. InBook(id)' <=> InBook(id)
  BY <1>1, BookHoldsOn
<1> QED
  BY <1>2 DEF HoldsFor

(* The buyer's side of a trade.                                              *)
LEMMA BuyerHolds ==
    ASSUME ReserveInv, [EdgeNext]_allVars, LedgerBuyer, ~CancelFired
    PROVE  bal' \in Ledgers /\ ReservationsHeld'
<1>1. /\ SideInv /\ SideInv' /\ EdgeInv /\ hook \in 1..4 /\ bal \in Ledgers /\ trades \in Seq(Trade)
  BY SideStep DEF ReserveInv, SideInv, EdgeInv, EdgeTypeOK, Ledgers, AccountInv, BookInv, TypeOK
<1>2. PICK it : it = trades[1].buy
  OBVIOUS
<1>3. /\ hook = 3 /\ hook' = 4 /\ UNCHANGED <<pc, req, record, trades, told, orig>>
      /\ trades # <<>> /\ bal' = Settled(it, TRUE)
  <2>1. hook = 3 /\ hook' = hook + 1
    BY <1>1, WhichHook DEF LedgerBuyer
  <2>2. trades # <<>> /\ bal' = Settled(Fired.buy, TRUE)
    BY DEF LedgerBuyer
  <2>3. Fired = trades[1]
    BY <2>2 DEF Fired
  <2> QED
    BY <1>2, <2>1, <2>2, <2>3 DEF LedgerBuyer, vars, bookVars
<1>4. \A id \in EdgeIds :
         /\ SettledVolume(id) = told[id]
         /\ SettledVolume(id)' = told[id] + (IF it = id THEN trades[1].vol ELSE 0)
  BY <1>1, <1>2, <1>3, NeedsAre, NeedsAreNext DEF NeedIs, Paid
<1>5. ASSUME NEW id \in EdgeIds, id # it
      PROVE  /\ SettledVolume(id)' = SettledVolume(id)
             /\ \A side \in Sides : ReservedAmount(id, side)' = ReservedAmount(id, side)
  <2>1. SettledVolume(id)' = SettledVolume(id)
    BY <1>1, <1>4, <1>5, NeedsAre DEF NeedIs
  <2> QED
    BY <1>1, <1>3, <2>1, FillKeepsBook, NeedSame
<1>6. CASE it \notin EdgeIds
  <2>1. bal' = bal
    BY <1>3, <1>6 DEF Settled, Recorded
  <2> QED
    BY <1>1, <1>5, <1>6, <2>1, HeldSame
<1>7. CASE it \in EdgeIds
  <2>1. PICK vol : vol = trades[1].vol
    OBVIOUS
  <2>2. PICK price : price = trades[1].price
    OBVIOUS
  <2>3. PICK rec : rec = record[it]
    OBVIOUS
  <2>4. PICK rest : rest = orig[it] - told[it] - vol
    OBVIOUS
  <2>5. /\ Fired = trades[1] /\ vol \in Nat /\ vol > 0 /\ price \in Nat /\ rec.price \in Nat
        /\ rec.kind \in {"limit", "market"} /\ (rec.price = 0 <=> rec.kind = "market")
        /\ Recorded(it) /\ rec.orig = orig[it] /\ InBook(it)
        /\ told[it] \in Nat /\ orig[it] \in Nat /\ told[it] + vol =< orig[it]
    BY <1>1, <1>2, <1>3, <1>7, <2>1, <2>2, <2>3, FillIs
  <2>6. rest \in Nat /\ vol + rest \in Nat /\ orig[it] - told[it] = vol + rest
        /\ orig[it] - (told[it] + vol) = rest
    BY <2>4, <2>5
  <2>7. rec.side = "buy" /\ (rec.kind = "limit" => price =< rec.price)
    <3>1. Sound(trades[1])
      BY <1>1, <1>3 DEF SideInv, BookAsRecorded
    <3> QED
      BY <1>2, <1>7, <2>2, <2>3, <3>1 DEF Sound
  <2>8. /\ SettledVolume(it) = told[it] /\ SettledVolume(it)' = told[it] + vol
    BY <1>4, <1>7, <2>1
  <2>9. \A side \in Sides : /\ ReservedAmount(it, side) = Own(rec, side, vol + rest)
                            /\ ReservedAmount(it, side)' = Own(rec, side, rest)
    <3>1. InBook(it)'
      BY <1>1, <1>3, <1>7, <2>5, FillKeepsBook
    <3>2. \A side \in Sides : ReservedAmount(it, side) = Own(rec, side, rec.orig - SettledVolume(it))
      BY <1>1, <1>7, <2>3, <2>5, NeedsAre DEF NeedIs
    <3>3. \A side \in Sides : ReservedAmount(it, side)'
                                = Own(record'[it], side, record'[it].orig - SettledVolume(it)')
      BY <1>1, <1>7, <3>1, NeedsAreNext DEF NeedIs, Own, LockAmount
    <3> QED
      BY <1>3, <2>3, <2>5, <2>6, <2>8, <3>2, <3>3
  <2>10. bal["base"].locked \in Nat /\ bal["quote"].locked \in Nat
    BY <1>1 DEF Ledgers, Assets, Holding
  <2>11. bal' = SettleFill(bal, TRUE, "base", "quote", vol, price, rec.price)
    BY <1>3, <2>1, <2>2, <2>3, <2>5 DEF Settled
  <2>12. CASE rec.kind = "market"
    <3>1. bal' = SettleMarket(bal, TRUE, "base", "quote", vol, price)
      <4>1. rec.price = 0 /\ rec.price \in Nat
        BY <2>5, <2>12
      <4> QED
        BY <2>11, <4>1, FillSettles, Zenon
    <3>2. bal' \in Ledgers /\ \A asset \in Assets : bal'[asset].locked = bal[asset].locked
      BY <1>1, <2>5, <3>1, MarketSettles
    <3>3. \A side \in Sides : ReservedAmount(it, side) = 0 /\ ReservedAmount(it, side)' = 0
      BY <2>9, <2>12 DEF Own
    <3>4. bal'["base"].locked = bal["base"].locked /\ bal'["quote"].locked = bal["quote"].locked
      BY <3>2 DEF Assets
    <3> QED
      BY <1>1, <1>5, <1>7, <2>5, <2>8, <2>10, <3>2, <3>3, <3>4, HeldMoves DEF Ledgers, Sides
  <2>13. CASE rec.kind = "limit"
    <3>1. PICK m : m = Mul(vol, rec.price)
      OBVIOUS
    <3>2. PICK r : r = Mul(rest, rec.price)
      OBVIOUS
    <3>3. PICK n : n = Mul(vol + rest, rec.price)
      OBVIOUS
    <3>4. m \in Nat /\ r \in Nat /\ n \in Nat /\ m + r =< n /\ n =< m + r + 1
      BY <2>5, <2>6, <3>1, <3>2, <3>3, MulNat, MulSplit
    <3>5. /\ ReservedAmount(it, "buy") = n /\ ReservedAmount(it, "buy")' = r
          /\ ReservedAmount(it, "sell") = 0 /\ ReservedAmount(it, "sell")' = 0
      BY <2>7, <2>9, <2>13, <3>2, <3>3 DEF Sides, Own, LockAmount
    <3>6. n =< bal["quote"].locked
      BY <1>7, <3>5, NeedIsLocked
    <3>7. m =< bal["quote"].locked
      BY <2>10, <3>4, <3>6
    <3>8. bal' = SettleLimit(bal, TRUE, "base", "quote", vol, price, rec.price)
      BY <2>5, <2>11, <2>13, FillSettles
    <3>9. /\ bal' \in Ledgers /\ bal'["quote"].locked = bal["quote"].locked - m
          /\ bal'["base"].locked = bal["base"].locked
      <4>1. price =< rec.price /\ Mul(vol, rec.price) =< bal["quote"].locked
        BY <2>7, <2>13, <3>1, <3>7
      <4>2. vol \in Nat /\ price \in Nat /\ rec.price \in Nat /\ bal \in Ledgers
        BY <1>1, <2>5
      <4>3. bal' = BuyFill(bal, vol, price, rec.price)
        BY <3>8 DEF BuyFill
      <4>4. /\ bal' \in Ledgers /\ bal'["quote"].locked = bal["quote"].locked - Mul(vol, rec.price)
            /\ bal'["base"].locked = bal["base"].locked
        BY <4>1, <4>2, <4>3, BuySettles
      <4> QED
        BY <3>1, <4>4
    <3>10. /\ bal'["base"].locked + ReservedAmount(it, "sell")
                = bal["base"].locked + ReservedAmount(it, "sell")'
           /\ bal'["quote"].locked + ReservedAmount(it, "buy")
                >= bal["quote"].locked + ReservedAmount(it, "buy")'
           /\ bal'["quote"].locked + ReservedAmount(it, "buy") + SettledVolume(it)
                =< bal["quote"].locked + ReservedAmount(it, "buy")' + SettledVolume(it)'
      BY <2>5, <2>8, <2>10, <3>4, <3>5, <3>9
    <3> QED
      BY <1>1, <1>5, <1>7, <3>9, <3>10, HeldMoves DEF Ledgers
  <2> QED
    BY <2>5, <2>12, <2>13
<1> QED
  BY <1>6, <1>7

(* The seller's side of a trade, and the book's own account of it.           *)
LEMMA SellerHolds ==
    ASSUME ReserveInv, [EdgeNext]_allVars, LedgerSeller
    PROVE  bal' \in Ledgers /\ ReservationsHeld'
<1>1. /\ SideInv /\ SideInv' /\ EdgeInv /\ hook \in 1..4 /\ bal \in Ledgers /\ trades \in Seq(Trade)
      /\ EdgeIds \subseteq Ids
  BY SideStep, EdgeAssumption
     DEF ReserveInv, SideInv, EdgeInv, EdgeTypeOK, Ledgers, AccountInv, BookInv, TypeOK, EdgeAssumption
<1>2. PICK it : it = trades[1].sell
  OBVIOUS
<1>3. PICK other : other = trades[1].buy
  OBVIOUS
<1>4. PICK vol : vol = trades[1].vol
  OBVIOUS
<1>5. /\ hook = 4 /\ hook' = 1 /\ UNCHANGED <<pc, req, record, orig>>
      /\ trades # <<>> /\ bal' = Settled(it, FALSE) /\ Fired = trades[1]
      /\ told' = [id \in Ids |-> told[id] + (IF id \in {other, it} THEN vol ELSE 0)]
  <2>1. hook = 4 /\ hook' = 1 /\ trades # <<>>
    BY <1>1, WhichHook DEF LedgerSeller, Fire
  <2>2. Fired = trades[1] /\ Head(trades) = trades[1]
    BY <1>1, <2>1 DEF Fired
  <2>3. bal' = Settled(it, FALSE)
    BY <1>2, <2>2 DEF LedgerSeller
  <2> QED
    BY <1>2, <1>3, <1>4, <2>1, <2>2, <2>3 DEF LedgerSeller, Fire
<1>6. it \in EdgeIds => other # it
  <2>1. Sound(trades[1])
    BY <1>1, <1>5 DEF SideInv, BookAsRecorded
  <2> QED
    BY <1>2, <1>3, <2>1 DEF Sound
<1>7. \A id \in EdgeIds :
         /\ SettledVolume(id) = told[id] + (IF other = id THEN vol ELSE 0)
         /\ SettledVolume(id)' = told[id] + (IF id \in {other, it} THEN vol ELSE 0)
         /\ told[id] \in Nat
  <2>1. ASSUME NEW id \in EdgeIds
        PROVE  SettledVolume(id)' = told[id] + (IF id \in {other, it} THEN vol ELSE 0)
    <3>1. SettledVolume(id)' = told'[id] + Paid(id)' /\ told'[id] + Paid(id)' \in Nat
      BY <1>1, <2>1, NeedsAreNext DEF NeedIs
    <3>2. Paid(id)' = 0
      BY <1>5 DEF Paid
    <3>3. told'[id] \in Nat
      BY <1>1, NeedsAreNext DEF NeedIs
    <3>4. told'[id] = told[id] + (IF id \in {other, it} THEN vol ELSE 0)
      BY <1>1, <1>5
    <3> QED
      BY <3>1, <3>2, <3>3, <3>4
  <2>2. \A id \in EdgeIds : SettledVolume(id) = told[id] + (IF other = id THEN vol ELSE 0)
    BY <1>1, <1>3, <1>4, <1>5, NeedsAre DEF NeedIs, Paid
  <2>3. \A id \in EdgeIds : told[id] \in Nat
    BY <1>1, NeedsAre DEF NeedIs
  <2> QED
    BY <2>1, <2>2, <2>3
<1>8. ASSUME NEW id \in EdgeIds, id # it
      PROVE  /\ SettledVolume(id)' = SettledVolume(id)
             /\ \A side \in Sides : ReservedAmount(id, side)' = ReservedAmount(id, side)
  <2>1. SettledVolume(id)' = SettledVolume(id)
    BY <1>7, <1>8
  <2> QED
    BY <1>1, <1>5, <2>1, FillKeepsBook, NeedSame
<1>9. CASE it \notin EdgeIds
  <2>1. bal' = bal
    BY <1>5, <1>9 DEF Settled, Recorded
  <2> QED
    BY <1>1, <1>8, <1>9, <2>1, HeldSame
<1>10. CASE it \in EdgeIds
  <2>1. PICK price : price = trades[1].price
    OBVIOUS
  <2>2. PICK rec : rec = record[it]
    OBVIOUS
  <2>3. PICK rest : rest = orig[it] - told[it] - vol
    OBVIOUS
  <2>4. /\ vol \in Nat /\ vol > 0 /\ price \in Nat /\ rec.price \in Nat
        /\ rec.kind \in {"limit", "market"} /\ (rec.price = 0 <=> rec.kind = "market")
        /\ Recorded(it) /\ rec.orig = orig[it] /\ InBook(it)
        /\ told[it] \in Nat /\ orig[it] \in Nat /\ told[it] + vol =< orig[it]
    BY <1>1, <1>2, <1>4, <1>5, <1>10, <2>1, <2>2, FillIs
  <2>5. rest \in Nat /\ vol + rest \in Nat /\ orig[it] - told[it] = vol + rest
        /\ orig[it] - (told[it] + vol) = rest
    BY <2>3, <2>4
  <2>6. rec.side = "sell"
    <3>1. Sound(trades[1])
      BY <1>1, <1>5 DEF SideInv, BookAsRecorded
    <3> QED
      BY <1>2, <1>10, <2>2, <3>1 DEF Sound
  <2>7. /\ SettledVolume(it) = told[it] /\ SettledVolume(it)' = told[it] + vol
    BY <1>6, <1>7, <1>10
  <2>8. \A side \in Sides : /\ ReservedAmount(it, side) = Own(rec, side, vol + rest)
                            /\ ReservedAmount(it, side)' = Own(rec, side, rest)
    <3>1. InBook(it)'
      BY <1>1, <1>5, <1>10, <2>4, FillKeepsBook
    <3>2. \A side \in Sides : ReservedAmount(it, side) = Own(rec, side, rec.orig - SettledVolume(it))
      BY <1>1, <1>10, <2>2, <2>4, NeedsAre DEF NeedIs
    <3>3. \A side \in Sides : ReservedAmount(it, side)'
                                = Own(record'[it], side, record'[it].orig - SettledVolume(it)')
      BY <1>1, <1>10, <3>1, NeedsAreNext DEF NeedIs, Own, LockAmount
    <3> QED
      BY <1>5, <2>2, <2>4, <2>5, <2>7, <3>2, <3>3
  <2>9. bal["base"].locked \in Nat /\ bal["quote"].locked \in Nat
    BY <1>1 DEF Ledgers, Assets, Holding
  <2>10. bal' = SettleFill(bal, FALSE, "base", "quote", vol, price, rec.price)
    BY <1>4, <1>5, <2>1, <2>2, <2>4 DEF Settled
  <2>11. CASE rec.kind = "market"
    <3>1. bal' = SettleMarket(bal, FALSE, "base", "quote", vol, price)
      <4>1. rec.price = 0 /\ rec.price \in Nat
        BY <2>4, <2>11
      <4> QED
        BY <2>10, <4>1, FillSettles, Zenon
    <3>2. bal' \in Ledgers /\ \A asset \in Assets : bal'[asset].locked = bal[asset].locked
      BY <1>1, <2>4, <3>1, MarketSettles
    <3>3. \A side \in Sides : ReservedAmount(it, side) = 0 /\ ReservedAmount(it, side)' = 0
      BY <2>8, <2>11 DEF Own
    <3>4. bal'["base"].locked = bal["base"].locked /\ bal'["quote"].locked = bal["quote"].locked
      BY <3>2 DEF Assets
    <3> QED
      BY <1>1, <1>8, <1>10, <2>4, <2>7, <2>9, <3>2, <3>3, <3>4, HeldMoves DEF Ledgers, Sides
  <2>12. CASE rec.kind = "limit"
    <3>1. /\ ReservedAmount(it, "sell") = vol + rest /\ ReservedAmount(it, "sell")' = rest
          /\ ReservedAmount(it, "buy") = 0 /\ ReservedAmount(it, "buy")' = 0
      BY <2>6, <2>8, <2>12 DEF Sides, Own, LockAmount
    <3>2. vol + rest =< bal["base"].locked
      BY <1>10, <3>1, NeedIsLocked
    <3>3. vol =< bal["base"].locked
      BY <2>4, <2>5, <2>9, <3>2
    <3>4. bal' = SellFill(bal, vol, price, rec.price)
      <4>1. rec.price # 0 /\ rec.price \in Nat
        BY <2>4, <2>12
      <4>2. bal' = SettleLimit(bal, FALSE, "base", "quote", vol, price, rec.price)
        BY <2>10, <4>1, FillSettles, Zenon
      <4> QED
        BY <4>2 DEF SellFill
    <3>5. /\ bal' \in Ledgers /\ bal'["base"].locked = bal["base"].locked - vol
          /\ bal'["quote"].locked = bal["quote"].locked
      BY <1>1, <2>4, <3>3, <3>4, SellSettles
    <3>6. /\ bal'["base"].locked + ReservedAmount(it, "sell")
                = bal["base"].locked + ReservedAmount(it, "sell")'
          /\ bal'["quote"].locked + ReservedAmount(it, "buy")
                >= bal["quote"].locked + ReservedAmount(it, "buy")'
          /\ bal'["quote"].locked + ReservedAmount(it, "buy") + SettledVolume(it)
                =< bal["quote"].locked + ReservedAmount(it, "buy")' + SettledVolume(it)'
      BY <2>4, <2>5, <2>7, <2>9, <3>1, <3>5
    <3> QED
      BY <1>1, <1>8, <1>10, <3>5, <3>6, HeldMoves DEF Ledgers
  <2> QED
    BY <2>4, <2>11, <2>12
<1> QED
  BY <1>9, <1>10

(* At first nothing is reserved and nothing is needed.                       *)
LEMMA ReserveInit == EdgeInit => ReserveInv
<1> SUFFICES ASSUME EdgeInit PROVE ReserveInv
  OBVIOUS
<1>1. SideInv
  BY SideInit
<1>2. /\ \A t \in Threads : pc[t] = "idle"
      /\ \A id \in EdgeIds : record[id] = None
      /\ trades = <<>> /\ told = [id \in Ids |-> 0]
      /\ bal = [asset \in Assets |-> [free |-> Deposit, locked |-> 0]]
  BY DEF EdgeInit, Init
<1>3. Deposit \in Nat /\ IsFiniteSet(EdgeIds) /\ EdgeIds \subseteq Ids
  BY EdgeAssumption DEF EdgeAssumption
<1>4. bal \in [Assets -> Holding] /\ \A asset \in Assets : bal[asset].locked = 0
  BY <1>2, <1>3 DEF Holding
<1>5. \A id \in EdgeIds : SettledVolume(id) = 0
  BY <1>2, <1>3 DEF SettledVolume
<1>6. \A id \in EdgeIds, side \in Sides : ReservedAmount(id, side) = 0
  BY <1>2 DEF ReservedAmount, BeforeBook, InBook, Recorded
<1>7. ASSUME NEW side \in Sides PROVE SumOf(Needs(side)) = 0
  <2>1. Needs(side) \in [EdgeIds -> Nat] /\ \A id \in EdgeIds : Needs(side)[id] = 0
    BY <1>6 DEF Needs
  <2> QED
    BY <1>3, <2>1, SumZero
<1>8. SumOf(Fills) = 0
  <2>1. Fills \in [EdgeIds -> Nat] /\ \A id \in EdgeIds : Fills[id] = 0
    BY <1>5 DEF Fills
  <2> QED
    BY <1>3, <2>1, SumZero
<1>9. bal["base"].locked = 0 /\ bal["quote"].locked = 0
  BY <1>4 DEF Assets
<1>10. SumOf(Needs("buy")) = 0 /\ SumOf(Needs("sell")) = 0
  BY <1>7 DEF Sides
<1>11. ReservationsHeld
  BY <1>8, <1>9, <1>10 DEF ReservationsHeld
<1> QED
  BY <1>1, <1>4, <1>11 DEF ReserveInv

(* Every step of every handler, of the book and of its hooks, and everything *)
(* the emulator and the transfer hub do, keep what is reserved.              *)
LEMMA ReserveStep == ReserveInv /\ [EdgeNext]_allVars => ReserveInv'
<1> SUFFICES ASSUME ReserveInv, [EdgeNext]_allVars PROVE ReserveInv'
  OBVIOUS
<1>1. SideInv'
  BY SideStep DEF ReserveInv
<1>2. bal \in Ledgers
  BY DEF ReserveInv, Ledgers
<1> SUFFICES bal' \in Ledgers /\ ReservationsHeld'
  BY <1>1 DEF ReserveInv, Ledgers
<1>3. ASSUME NEW t \in Threads, NEW o \in Order(Volumes), NEW client \in Clients,
             o.kind \in EdgeKinds, Record(t, o, client)
      PROVE  bal' \in Ledgers /\ ReservationsHeld'
  BY <1>2, <1>3, RecordHolds DEF Record
<1>4. ASSUME NEW t \in Threads, Step(t) \/ \E id \in EdgeIds : Lookup(t, id)
      PROVE  bal' \in Ledgers /\ ReservationsHeld'
  <2>1. CASE Reserve(t)
    BY <2>1, ReserveHolds
  <2>2. CASE Remove(t)
    BY <1>2, <2>2, RemoveHolds DEF Remove
  <2>3. CASE Release(t)
    BY <2>3, ReleaseHolds
  <2>4. CASE EnterBook(t)
    BY <1>2, <2>4, EnterHolds DEF EnterBook
  <2>5. CASE CancelInBook(t)
    BY <1>2, <2>5, CancelInHolds DEF CancelInBook
  <2>6. CASE \/ Announce(t) \/ CancelMisses(t) \/ AnswerMissed(t) \/ MarkCanceled(t)
             \/ \E id \in EdgeIds : Lookup(t, id)
    <3>1. bal' = bal
      BY <2>6 DEF Announce, CancelMisses, AnswerMissed, MarkCanceled, Lookup
    <3> QED
      BY <1>2, <2>6, <3>1, TalkHolds
  <2> QED
    BY <1>4, <2>1, <2>2, <2>3, <2>4, <2>5, <2>6 DEF Step
<1>5. CASE HolderStep
  <2>1. CASE BookStep \/ RegistryHook \/ ReportHook
    <3>1. bal' = bal
      BY <2>1 DEF BookStep, edgeVars, RegistryHook, ReportHook
    <3> QED
      BY <1>2, <2>1, <3>1, BookStepHolds
  <2>2. CASE LedgerBuyer
    BY <2>2, BuyerHolds, CancelHolds
  <2>3. CASE LedgerSeller
    BY <2>3, SellerHolds
  <2>4. CASE LeaveBook
    BY <1>2, <2>4, LeaveHolds DEF LeaveBook
  <2> QED
    BY <1>5, <2>1, <2>2, <2>3, <2>4 DEF HolderStep
<1>6. CASE \/ \E o \in Order(Volumes) : EmulatorPlaces(o)
           \/ \E id \in EmuIds : EmulatorCancels(id)
           \/ \E asset \in Assets : Withdraw(asset)
           \/ UNCHANGED allVars
  <2>1. ReservationsHeld'
    BY <1>6, ElsewhereHolds
  <2>2. ASSUME NEW asset \in Assets, Withdraw(asset) PROVE bal' \in Ledgers
    BY <1>2, <2>2, DebitTakes DEF Withdraw
  <2>3. CASE \/ \E o \in Order(Volumes) : EmulatorPlaces(o)
             \/ \E id \in EmuIds : EmulatorCancels(id)
             \/ UNCHANGED allVars
    <3>1. bal' = bal
      BY <2>3 DEF EmulatorPlaces, EmulatorCancels, allVars, edgeVars
    <3> QED
      BY <1>2, <2>1, <3>1
  <2> QED
    BY <1>6, <2>1, <2>2, <2>3
<1> QED
  BY <1>3, <1>4, <1>5, <1>6 DEF EdgeNext

(* What is locked in the ledger is, at every step and however requests,      *)
(* hooks, cancels and withdrawals interleave, what the account's orders      *)
(* still need: in base exactly; in quote no less, and more by at most the    *)
(* truncated unit of each unit filled.  No path of the handlers unlocks or   *)
(* settles twice, and none forgets a reservation.                            *)
THEOREM EdgeReserves == EdgeSpec => []ReservationsHeld
<1>1. ReserveInv => ReservationsHeld
  BY DEF ReserveInv
<1> QED
  BY <1>1, ReserveInit, ReserveStep, PTL DEF EdgeSpec

-----------------------------------------------------------------------------
(* What the account owns.                                                    *)

\* Between the buyer's hook and the seller's, one side of a trade is settled.
HalfSettled == hook = 4 /\ trades # <<>>
Bought == IF HalfSettled THEN trades[1].vol ELSE 0
Spent == IF HalfSettled THEN Mul(trades[1].vol, trades[1].price) ELSE 0

OnlyLimits == \A id \in EdgeIds : orig[id] # 0 => record[id].kind = "limit"

ValueHolds ==
    \E n \in 0..debits : /\ Total(bal, "base") = Deposit - n + Bought
                         /\ Total(bal, "quote") + Spent = Deposit - (debits - n)

ValueInv == ReserveInv /\ debits \in Nat /\ (OnlyLimits => ValueHolds)

(* Moving an amount between free and locked, whatever the amount and however *)
(* it is clamped, leaves what is owned of every asset.                       *)
LEMMA UnlockOwns ==
    ASSUME NEW b \in Ledgers, NEW asset \in Assets, NEW amt \in Int, NEW other \in Assets
    PROVE  Total(Unlock(b, asset, amt), other) = Total(b, other)
<1>1. /\ b[asset].free \in Nat /\ b[asset].locked \in Nat
      /\ DOMAIN b = Assets /\ DOMAIN b[asset] = {"free", "locked"}
  BY DEF Ledgers, Holding
<1>2. PICK freed : freed = AtMost(amt, b[asset].locked)
  OBVIOUS
<1>3. freed \in Int
  BY <1>1, <1>2 DEF AtMost
<1>4. CASE amt =< 0
  BY <1>4 DEF Unlock
<1>5. CASE ~(amt =< 0)
  <2>1. Unlock(b, asset, amt) = [b EXCEPT ![asset].free = @ + freed, ![asset].locked = @ - freed]
    BY <1>2, <1>5 DEF Unlock
  <2>2. /\ Unlock(b, asset, amt)[asset].free = b[asset].free + freed
        /\ Unlock(b, asset, amt)[asset].locked = b[asset].locked - freed
        /\ other # asset => Unlock(b, asset, amt)[other] = b[other]
    BY <1>1, <2>1
  <2> QED
    BY <1>1, <1>3, <2>2 DEF Total
<1> QED
  BY <1>4, <1>5

LEMMA LockOwns ==
    ASSUME NEW b \in Ledgers, NEW asset \in Assets, NEW amt \in Nat, Lockable(b, asset, amt),
           NEW other \in Assets
    PROVE  Total(Lock(b, asset, amt), other) = Total(b, other)
<1>1. b[asset].free \in Nat /\ b[asset].locked \in Nat
  BY DEF Ledgers, Holding
<1> QED
  BY <1>1, LockMoves DEF Total

(* What a LIMIT order needs for a fill is locked when the fill is settled.   *)
LEMMA FillLocked ==
    ASSUME ReserveInv, trades # <<>>, NEW it \in EdgeIds, record[it].kind = "limit"
    PROVE  /\ hook = 3 /\ trades[1].buy = it =>
                 /\ trades[1].price =< record[it].price
                 /\ Mul(trades[1].vol, record[it].price) =< bal["quote"].locked
           /\ hook = 4 /\ trades[1].sell = it => trades[1].vol =< bal["base"].locked
<1> SUFFICES ASSUME (hook = 3 /\ trades[1].buy = it) \/ (hook = 4 /\ trades[1].sell = it)
             PROVE  /\ hook = 3 /\ trades[1].buy = it =>
                          /\ trades[1].price =< record[it].price
                          /\ Mul(trades[1].vol, record[it].price) =< bal["quote"].locked
                    /\ hook = 4 /\ trades[1].sell = it => trades[1].vol =< bal["base"].locked
  OBVIOUS
<1>1. SideInv /\ bal \in Ledgers
  BY DEF ReserveInv, Ledgers
<1>2. PICK rec : rec = record[it]
  OBVIOUS
<1>3. PICK vol : vol = trades[1].vol
  OBVIOUS
<1>4. PICK rest : rest = orig[it] - told[it] - vol
  OBVIOUS
<1>5. /\ vol \in Nat /\ rec.price \in Nat /\ rec.orig = orig[it] /\ InBook(it)
      /\ told[it] \in Nat /\ orig[it] \in Nat /\ told[it] + vol =< orig[it]
  BY <1>1, <1>2, <1>3, FillIs
<1>6. rest \in Nat /\ vol + rest \in Nat /\ orig[it] - told[it] = vol + rest
  BY <1>4, <1>5
<1>7. Sound(trades[1])
  BY <1>1 DEF SideInv, BookAsRecorded
<1>8. SettledVolume(it) = told[it]
  <2>1. hook = 4 => trades[1].buy # it
    BY <1>7 DEF Sound, Sides
  <2>2. SettledVolume(it) = told[it] + Paid(it)
    BY <1>1, NeedsAre DEF NeedIs
  <2> QED
    BY <1>5, <2>1, <2>2 DEF Paid
<1>9. \A side \in Sides : ReservedAmount(it, side) = Own(rec, side, vol + rest)
  BY <1>1, <1>2, <1>5, <1>6, <1>8, NeedsAre DEF NeedIs
<1>10. bal["base"].locked \in Nat /\ bal["quote"].locked \in Nat
  BY <1>1 DEF Ledgers, Assets, Holding
<1>11. CASE hook = 3 /\ trades[1].buy = it
  <2>1. rec.side = "buy" /\ trades[1].price =< rec.price
    BY <1>2, <1>7, <1>11 DEF Sound
  <2>2. ReservedAmount(it, "buy") = Mul(vol + rest, rec.price)
    BY <1>2, <1>9, <2>1 DEF Sides, Own, LockAmount
  <2>3. Mul(vol + rest, rec.price) =< bal["quote"].locked
    BY <2>2, NeedIsLocked
  <2>4. /\ Mul(vol, rec.price) \in Nat /\ Mul(rest, rec.price) \in Nat
        /\ Mul(vol + rest, rec.price) \in Nat
        /\ Mul(vol, rec.price) + Mul(rest, rec.price) =< Mul(vol + rest, rec.price)
    BY <1>5, <1>6, MulNat, MulSplit
  <2>5. Mul(vol, rec.price) =< bal["quote"].locked
    BY <1>10, <2>3, <2>4
  <2> QED
    BY <1>2, <1>3, <1>11, <2>1, <2>5
<1>12. CASE hook = 4 /\ trades[1].sell = it
  <2>1. rec.side = "sell"
    BY <1>2, <1>7, <1>12 DEF Sound
  <2>2. ReservedAmount(it, "sell") = vol + rest
    BY <1>2, <1>9, <2>1 DEF Sides, Own, LockAmount
  <2>3. vol + rest =< bal["base"].locked
    BY <2>2, NeedIsLocked
  <2>4. vol =< bal["base"].locked
    BY <1>5, <1>6, <1>10, <2>3
  <2> QED
    BY <1>3, <1>12, <2>4
<1> QED
  BY <1>11, <1>12

(* A step that withdraws nothing and leaves what is owned of each asset,     *)
(* outside the two hooks that settle a trade.                                *)
LEMMA ValueSame ==
    ASSUME ValueHolds, debits' = debits, ~HalfSettled, ~HalfSettled',
           \A asset \in Assets : Total(bal', asset) = Total(bal, asset)
    PROVE  ValueHolds'
<1>1. PICK n \in 0..debits : /\ Total(bal, "base") = Deposit - n + Bought
                             /\ Total(bal, "quote") + Spent = Deposit - (debits - n)
  BY DEF ValueHolds
<1>2. Bought' = Bought /\ Spent' = Spent
  BY DEF Bought, Spent
<1>3. Total(bal', "base") = Total(bal, "base") /\ Total(bal', "quote") = Total(bal, "quote")
  BY DEF Assets
<1>4. /\ Total(bal', "base") = Deposit - n + Bought'
      /\ Total(bal', "quote") + Spent' = Deposit - (debits' - n)
  BY <1>1, <1>2, <1>3
<1>5. Total(bal, "base")' = Total(bal', "base") /\ Total(bal, "quote")' = Total(bal', "quote")
  BY DEF Total
<1> QED
  BY <1>1, <1>4, <1>5 DEF ValueHolds

(* The ledger untouched, and no trade moved.                                 *)
LEMMA ValueUntouched ==
    ASSUME ValueHolds, UNCHANGED <<bal, debits>>, HalfSettled' <=> HalfSettled,
           HalfSettled => trades' = trades
    PROVE  ValueHolds'
<1>1. Bought' = Bought /\ Spent' = Spent
  BY DEF Bought, Spent
<1> QED
  BY <1>1 DEF ValueHolds, Total

(* The buyer takes the quantity, and pays what the seller is yet to get.     *)
LEMMA BuyerPays ==
    ASSUME ReserveInv, debits \in Nat, ValueHolds, OnlyLimits, EmuIds = {}, LedgerBuyer, ~CancelFired
    PROVE  ValueHolds'
<1>1. /\ SideInv /\ EdgeInv /\ hook \in 1..4 /\ bal \in Ledgers /\ trades \in Seq(Trade)
  BY DEF ReserveInv, SideInv, EdgeInv, EdgeTypeOK, Ledgers, AccountInv, BookInv, TypeOK
<1>2. PICK it : it = trades[1].buy
  OBVIOUS
<1>3. PICK rec : rec = record[it]
  OBVIOUS
<1>4. PICK vol : vol = trades[1].vol
  OBVIOUS
<1>5. PICK price : price = trades[1].price
  OBVIOUS
<1>6. /\ hook = 3 /\ hook' = 4 /\ UNCHANGED <<debits, trades>> /\ trades # <<>>
      /\ bal' = Settled(it, TRUE) /\ Fired = trades[1]
  <2>1. hook = 3 /\ hook' = hook + 1
    BY <1>1, WhichHook DEF LedgerBuyer
  <2>2. trades # <<>> /\ bal' = Settled(Fired.buy, TRUE)
    BY DEF LedgerBuyer
  <2>3. Fired = trades[1]
    BY <2>2 DEF Fired
  <2> QED
    BY <1>2, <2>1, <2>2, <2>3 DEF LedgerBuyer, vars, bookVars
<1>7. it \in EdgeIds
  <2>1. trades[1] \in Trade
    BY <1>1, <1>6
  <2> QED
    BY <1>2, <2>1, EdgeAssumption DEF Trade, EdgeAssumption
<1>8. /\ vol \in Nat /\ price \in Nat /\ rec.price \in Nat /\ rec.price # 0 /\ Recorded(it)
      /\ rec.kind = "limit"
  <2>1. /\ vol \in Nat /\ price \in Nat /\ rec.price \in Nat /\ Recorded(it) /\ orig[it] # 0
        /\ rec.price = 0 <=> rec.kind = "market"
    BY <1>1, <1>2, <1>3, <1>4, <1>5, <1>6, <1>7, FillIs
  <2>2. rec.kind = "limit"
    BY <1>3, <1>7, <2>1 DEF OnlyLimits
  <2> QED
    BY <2>1, <2>2
<1>9. price =< rec.price /\ Mul(vol, rec.price) =< bal["quote"].locked
  BY <1>2, <1>3, <1>4, <1>5, <1>6, <1>7, <1>8, FillLocked
<1>10. bal' = BuyFill(bal, vol, price, rec.price)
  <2>1. bal' = SettleFill(bal, TRUE, "base", "quote", vol, price, rec.price)
    BY <1>3, <1>4, <1>5, <1>6, <1>8 DEF Settled
  <2>2. bal' = SettleLimit(bal, TRUE, "base", "quote", vol, price, rec.price)
    BY <1>8, <2>1, FillSettles, Zenon
  <2> QED
    BY <2>2 DEF BuyFill
<1>11. /\ bal'["quote"].locked = bal["quote"].locked - Mul(vol, rec.price)
       /\ bal'["quote"].free = bal["quote"].free + Mul(vol, rec.price) - Mul(vol, price)
       /\ bal'["base"].locked = bal["base"].locked
       /\ bal'["base"].free = bal["base"].free + vol
  <2>1. bal \in Ledgers /\ vol \in Nat /\ price \in Nat /\ rec.price \in Nat
    BY <1>1, <1>8
  <2> QED
    BY <1>9, <1>10, <2>1, BuySettles
<1>12. /\ Mul(vol, rec.price) \in Nat /\ Mul(vol, price) \in Nat
       /\ bal["quote"].free \in Nat /\ bal["quote"].locked \in Nat
       /\ bal["base"].free \in Nat /\ bal["base"].locked \in Nat
  BY <1>1, <1>8, MulNat DEF Ledgers, Assets, Holding
<1>13. PICK cost : cost = Mul(vol, price)
  OBVIOUS
<1>14. PICK kept : kept = Mul(vol, rec.price)
  OBVIOUS
<1>15. PICK base : base = Total(bal, "base")
  OBVIOUS
<1>16. PICK quote : quote = Total(bal, "quote")
  OBVIOUS
<1>17. cost \in Nat /\ kept \in Nat /\ base \in Nat /\ quote \in Nat
  BY <1>12, <1>13, <1>14, <1>15, <1>16 DEF Total
<1>18. Total(bal, "base")' = base + vol
  <2>1. base = bal["base"].free + bal["base"].locked
    BY <1>15 DEF Total
  <2>2. Total(bal, "base")' = bal'["base"].free + bal'["base"].locked
    BY DEF Total
  <2> QED
    BY <1>8, <1>11, <1>12, <2>1, <2>2
<1>19. Total(bal, "quote")' = quote - cost
  <2>1. quote = bal["quote"].free + bal["quote"].locked
    BY <1>16 DEF Total
  <2>2. Total(bal, "quote")' = bal'["quote"].free + bal'["quote"].locked
    BY DEF Total
  <2>3. /\ bal'["quote"].locked = bal["quote"].locked - kept
        /\ bal'["quote"].free = bal["quote"].free + kept - cost
    BY <1>11, <1>13, <1>14
  <2> QED
    BY <1>12, <1>17, <2>1, <2>2, <2>3
<1>20. Bought = 0 /\ Spent = 0 /\ Bought' = vol /\ Spent' = cost
  BY <1>4, <1>5, <1>6, <1>13 DEF Bought, Spent, HalfSettled
<1>21. PICK n \in 0..debits : base = Deposit - n + Bought /\ quote + Spent = Deposit - (debits - n)
  BY <1>15, <1>16 DEF ValueHolds
<1>22. Deposit \in Nat /\ n \in Int /\ debits - n \in Int
  BY EdgeAssumption DEF EdgeAssumption
<1>23. base + vol = Deposit - n + vol /\ quote - cost + cost = Deposit - (debits - n)
  BY <1>8, <1>17, <1>20, <1>21, <1>22
<1> QED
  BY <1>6, <1>18, <1>19, <1>20, <1>21, <1>23 DEF ValueHolds

(* The seller gives the quantity the buyer took, and gets what it paid.      *)
LEMMA SellerPays ==
    ASSUME ReserveInv, debits \in Nat, ValueHolds, OnlyLimits, EmuIds = {}, LedgerSeller
    PROVE  ValueHolds'
<1>1. /\ SideInv /\ EdgeInv /\ hook \in 1..4 /\ bal \in Ledgers /\ trades \in Seq(Trade)
  BY DEF ReserveInv, SideInv, EdgeInv, EdgeTypeOK, Ledgers, AccountInv, BookInv, TypeOK
<1>2. PICK it : it = trades[1].sell
  OBVIOUS
<1>3. PICK rec : rec = record[it]
  OBVIOUS
<1>4. PICK vol : vol = trades[1].vol
  OBVIOUS
<1>5. PICK price : price = trades[1].price
  OBVIOUS
<1>6. /\ hook = 4 /\ hook' = 1 /\ debits' = debits /\ trades # <<>>
      /\ bal' = Settled(it, FALSE) /\ Fired = trades[1]
  <2>1. hook = 4 /\ hook' = 1 /\ trades # <<>>
    BY <1>1, WhichHook DEF LedgerSeller, Fire
  <2>2. Fired = trades[1]
    BY <2>1 DEF Fired
  <2> QED
    BY <1>2, <2>1, <2>2 DEF LedgerSeller
<1>7. it \in EdgeIds
  <2>1. trades[1] \in Trade
    BY <1>1, <1>6
  <2> QED
    BY <1>2, <2>1, EdgeAssumption DEF Trade, EdgeAssumption
<1>8. /\ vol \in Nat /\ price \in Nat /\ rec.price \in Nat /\ rec.price # 0 /\ Recorded(it)
      /\ rec.kind = "limit"
  <2>1. /\ vol \in Nat /\ price \in Nat /\ rec.price \in Nat /\ Recorded(it) /\ orig[it] # 0
        /\ rec.price = 0 <=> rec.kind = "market"
    BY <1>1, <1>2, <1>3, <1>4, <1>5, <1>6, <1>7, FillIs
  <2>2. rec.kind = "limit"
    BY <1>3, <1>7, <2>1 DEF OnlyLimits
  <2> QED
    BY <2>1, <2>2
<1>9. vol =< bal["base"].locked
  BY <1>2, <1>3, <1>4, <1>6, <1>7, <1>8, FillLocked
<1>10. bal' = SellFill(bal, vol, price, rec.price)
  <2>1. bal' = SettleFill(bal, FALSE, "base", "quote", vol, price, rec.price)
    BY <1>3, <1>4, <1>5, <1>6, <1>8 DEF Settled
  <2>2. bal' = SettleLimit(bal, FALSE, "base", "quote", vol, price, rec.price)
    BY <1>8, <2>1, FillSettles, Zenon
  <2> QED
    BY <2>2 DEF SellFill
<1>11. /\ bal'["base"].locked = bal["base"].locked - vol
       /\ bal'["base"].free = bal["base"].free
       /\ bal'["quote"].locked = bal["quote"].locked
       /\ bal'["quote"].free = bal["quote"].free + Mul(vol, price)
  <2>1. bal \in Ledgers /\ vol \in Nat /\ price \in Nat
    BY <1>1, <1>8
  <2> QED
    BY <1>9, <1>10, <2>1, SellSettles
<1>12. /\ Mul(vol, price) \in Nat
       /\ bal["quote"].free \in Nat /\ bal["quote"].locked \in Nat
       /\ bal["base"].free \in Nat /\ bal["base"].locked \in Nat
  BY <1>1, <1>8, MulNat DEF Ledgers, Assets, Holding
<1>13. PICK cost : cost = Mul(vol, price)
  OBVIOUS
<1>14. PICK base : base = Total(bal, "base")
  OBVIOUS
<1>15. PICK quote : quote = Total(bal, "quote")
  OBVIOUS
<1>16. cost \in Nat /\ base \in Nat /\ quote \in Nat
  BY <1>12, <1>13, <1>14, <1>15 DEF Total
<1>17. Total(bal, "base")' = base - vol
  <2>1. base = bal["base"].free + bal["base"].locked
    BY <1>14 DEF Total
  <2>2. Total(bal, "base")' = bal'["base"].free + bal'["base"].locked
    BY DEF Total
  <2> QED
    BY <1>8, <1>11, <1>12, <2>1, <2>2
<1>18. Total(bal, "quote")' = quote + cost
  <2>1. quote = bal["quote"].free + bal["quote"].locked
    BY <1>15 DEF Total
  <2>2. Total(bal, "quote")' = bal'["quote"].free + bal'["quote"].locked
    BY DEF Total
  <2>3. /\ bal'["quote"].locked = bal["quote"].locked
        /\ bal'["quote"].free = bal["quote"].free + cost
    BY <1>11, <1>13
  <2> QED
    BY <1>12, <1>16, <2>1, <2>2, <2>3
<1>19. Bought = vol /\ Spent = cost /\ Bought' = 0 /\ Spent' = 0
  BY <1>4, <1>5, <1>6, <1>13 DEF Bought, Spent, HalfSettled
<1>20. PICK n \in 0..debits : base = Deposit - n + Bought /\ quote + Spent = Deposit - (debits - n)
  BY <1>14, <1>15 DEF ValueHolds
<1>21. Deposit \in Nat /\ n \in Int /\ debits - n \in Int
  BY EdgeAssumption DEF EdgeAssumption
<1>22. base - vol = Deposit - n + 0 /\ quote + cost + 0 = Deposit - (debits - n)
  BY <1>8, <1>16, <1>19, <1>20, <1>21
<1> QED
  BY <1>6, <1>17, <1>18, <1>19, <1>20, <1>22 DEF ValueHolds

(* A withdrawal is counted.                                                  *)
LEMMA WithdrawCounts ==
    ASSUME ReserveInv, debits \in Nat, ValueHolds, NEW asset \in Assets, Withdraw(asset)
    PROVE  ValueHolds'
<1>1. /\ bal \in Ledgers /\ bal' = Debit(bal, asset, 1) /\ debits' = debits + 1
      /\ UNCHANGED <<hook, trades>> /\ Lockable(bal, asset, 1)
  BY DEF Withdraw, ReserveInv, Ledgers, vars, bookVars
<1>2. PICK n \in 0..debits : /\ Total(bal, "base") = Deposit - n + Bought
                             /\ Total(bal, "quote") + Spent = Deposit - (debits - n)
  BY DEF ValueHolds
<1>3. Bought' = Bought /\ Spent' = Spent
  BY <1>1 DEF Bought, Spent, HalfSettled
<1>4. /\ bal'[asset].free = bal[asset].free - 1 /\ bal'[asset].locked = bal[asset].locked
      /\ \A other \in Assets \ {asset} : bal'[other] = bal[other]
  BY <1>1, DebitTakes
<1>5. PICK base : base = Total(bal, "base")
  OBVIOUS
<1>6. PICK quote : quote = Total(bal, "quote")
  OBVIOUS
<1>7. PICK owed : owed = Spent
  OBVIOUS
<1>8. PICK owing : owing = Bought
  OBVIOUS
<1>9. /\ bal["quote"].free \in Nat /\ bal["quote"].locked \in Nat
      /\ bal["base"].free \in Nat /\ bal["base"].locked \in Nat
  BY <1>1 DEF Ledgers, Assets, Holding
<1>10. base \in Nat /\ quote \in Nat /\ owed \in Nat /\ owing \in Nat /\ Deposit \in Nat
  <2>1. base \in Nat /\ quote \in Nat
    BY <1>5, <1>6, <1>9 DEF Total
  <2>2. owed \in Nat /\ owing \in Nat
    <3>1. CASE ~HalfSettled
      BY <1>7, <1>8, <3>1 DEF Bought, Spent
    <3>2. CASE HalfSettled
      <4>1. trades[1].vol \in Nat /\ trades[1].price \in Nat
        <5>1. trades[1] \in Trade
          BY <3>2 DEF HalfSettled, ReserveInv, SideInv, EdgeInv, AccountInv, BookInv, TypeOK
        <5>2. trades[1].vol \in Nat \ {0} /\ trades[1].price \in Prices
          BY <5>1 DEF Trade
        <5> QED
          BY <5>2, PriceIsNat
      <4> QED
        BY <1>7, <1>8, <3>2, <4>1, MulNat DEF Bought, Spent
    <3> QED
      BY <3>1, <3>2
  <2> QED
    BY <2>1, <2>2, EdgeAssumption DEF EdgeAssumption
<1>11. /\ base = bal["base"].free + bal["base"].locked
       /\ quote = bal["quote"].free + bal["quote"].locked
       /\ Total(bal, "base")' = bal'["base"].free + bal'["base"].locked
       /\ Total(bal, "quote")' = bal'["quote"].free + bal'["quote"].locked
  BY <1>5, <1>6 DEF Total
<1>12. CASE asset = "base"
  <2>1. Total(bal, "base")' = base - 1 /\ Total(bal, "quote")' = quote
    <3>1. /\ bal'["base"].free = bal["base"].free - 1 /\ bal'["base"].locked = bal["base"].locked
          /\ bal'["quote"] = bal["quote"]
      BY <1>4, <1>12 DEF Assets
    <3> QED
      BY <1>9, <1>11, <3>1
  <2>2. n + 1 \in 0..debits' /\ debits' - (n + 1) = debits - n
    BY <1>1, <1>2
  <2>3. base - 1 = Deposit - (n + 1) + owing /\ quote + owed = Deposit - (debits' - (n + 1))
    BY <1>2, <1>5, <1>6, <1>7, <1>8, <1>10, <2>2
  <2> QED
    BY <1>3, <1>7, <1>8, <2>1, <2>2, <2>3 DEF ValueHolds
<1>13. CASE asset = "quote"
  <2>1. Total(bal, "base")' = base /\ Total(bal, "quote")' = quote - 1
    <3>1. /\ bal'["quote"].free = bal["quote"].free - 1 /\ bal'["quote"].locked = bal["quote"].locked
          /\ bal'["base"] = bal["base"]
      BY <1>4, <1>13 DEF Assets
    <3> QED
      BY <1>9, <1>11, <3>1
  <2>2. n \in 0..debits' /\ debits' - n = debits - n + 1 /\ debits - n \in Int
    BY <1>1, <1>2
  <2>3. base = Deposit - n + owing /\ quote - 1 + owed = Deposit - (debits' - n)
    BY <1>2, <1>5, <1>6, <1>7, <1>8, <1>10, <2>2
  <2> QED
    BY <1>3, <1>7, <1>8, <2>1, <2>2, <2>3 DEF ValueHolds
<1> QED
  BY <1>12, <1>13 DEF Assets

(* Handlers move value between free and locked, or leave the ledger alone.   *)
LEMMA HandlersKeepValue ==
    ASSUME ReserveInv, debits \in Nat, ValueHolds, [EdgeNext]_allVars, NEW t \in Threads,
           \/ Step(t) \/ \E id \in EdgeIds : Lookup(t, id)
           \/ \E o \in Order(Volumes), client \in Clients : o.kind \in EdgeKinds /\ Record(t, o, client)
    PROVE  ValueHolds'
<1>1. /\ SideInv /\ EdgeInv /\ bal \in Ledgers /\ hook' = hook /\ debits' = debits
  BY DEF ReserveInv, SideInv, Ledgers, Step, Reserve, Remove, Announce, Release, EnterBook,
         CancelInBook, CancelMisses, AnswerMissed, MarkCanceled, Lookup, Record
<1>2. \/ trades' = trades
      \/ hook = 1
  <2>1. CASE EnterBook(t) \/ CancelInBook(t)
    <3>1. phase = "free"
      BY <2>1 DEF EnterBook, CancelInBook, Submit, CancelOrder
    <3> QED
      BY <1>1, <3>1 DEF EdgeInv, HooksInTurn
  <2>2. CASE ~(EnterBook(t) \/ CancelInBook(t))
    BY <2>2 DEF Step, Reserve, Remove, Announce, Release, CancelMisses, AnswerMissed,
                MarkCanceled, Lookup, Record, vars, bookVars
  <2> QED
    BY <2>1, <2>2
<1>3. (HalfSettled' <=> HalfSettled) /\ (HalfSettled => trades' = trades)
  BY <1>1, <1>2 DEF HalfSettled
<1>4. CASE bal' = bal
  BY <1>1, <1>3, <1>4, ValueUntouched
<1>5. ASSUME \A asset \in Assets : Total(bal', asset) = Total(bal, asset), trades' = trades
      PROVE  ValueHolds'
  <2>1. Bought' = Bought /\ Spent' = Spent
    BY <1>1, <1>5 DEF Bought, Spent, HalfSettled
  <2>2. Total(bal, "base")' = Total(bal, "base") /\ Total(bal, "quote")' = Total(bal, "quote")
    BY <1>5 DEF Assets, Total
  <2> QED
    BY <1>1, <2>1, <2>2 DEF ValueHolds
<1>6. PICK o : o = req[t]
  OBVIOUS
<1>7. ASSUME pc[t] = "reserve" \/ pc[t] = "release"
      PROVE  o \in Order(Volumes) /\ LockAsset(o) \in Assets /\ LockAmount(o, o.vol) \in Nat
  <2>1. InHands(t)
    BY <1>7 DEF InHands, Entering, Unannounced
  <2>2. o \in Order(Volumes)
    BY <1>1, <1>6, <2>1, InHandsIsOld
  <2>3. o.vol \in Nat /\ o.price \in Nat
    BY <2>2, OrderHas
  <2> QED
    BY <2>2, <2>3, MulNat DEF LockAsset, LockAmount, Assets
<1>8. CASE Reserve(t)
  <2>1. pc[t] = "reserve" /\ trades' = trades
    BY <1>8 DEF Reserve, vars, bookVars
  <2>2. \/ bal' = bal
        \/ /\ Lockable(bal, LockAsset(o), LockAmount(o, o.vol))
           /\ bal' = Lock(bal, LockAsset(o), LockAmount(o, o.vol))
    BY <1>6, <1>8 DEF Reserve
  <2>3. \A asset \in Assets : Total(bal', asset) = Total(bal, asset)
    BY <1>1, <1>7, <2>1, <2>2, LockOwns
  <2> QED
    BY <1>5, <2>1, <2>3
<1>9. CASE Release(t)
  <2>1. pc[t] = "release" /\ trades' = trades
    BY <1>9 DEF Release, Goto, vars, bookVars
  <2>2. bal' = bal \/ bal' = Unlock(bal, LockAsset(o), LockAmount(o, o.vol))
    BY <1>6, <1>9 DEF Release
  <2>3. \A asset \in Assets : Total(bal', asset) = Total(bal, asset)
    BY <1>1, <1>7, <2>1, <2>2, UnlockOwns
  <2> QED
    BY <1>5, <2>1, <2>3
<1>10. CASE ~Reserve(t) /\ ~Release(t)
  <2>1. bal' = bal
    BY <1>10 DEF Step, Remove, Announce, EnterBook, CancelInBook, CancelMisses, AnswerMissed,
                 MarkCanceled, Lookup, Record
  <2> QED
    BY <1>4, <2>1
<1> QED
  BY <1>8, <1>9, <1>10

(* Of the book's steps and hooks only the two of a trade move value, and     *)
(* what the buyer's takes and pays the seller's gives and gets.              *)
LEMMA BookKeepsValue ==
    ASSUME ReserveInv, debits \in Nat, ValueHolds, OnlyLimits, EmuIds = {},
           [EdgeNext]_allVars, HolderStep
    PROVE  ValueHolds'
<1>1. /\ SideInv /\ EdgeInv /\ bal \in Ledgers /\ hook \in 1..4 /\ debits' = debits
      /\ record \in [EdgeIds -> Rec \cup {None}] /\ \A t \in Threads : InTheBook(t)
  <2>1. debits' = debits
    BY DEF HolderStep, BookStep, edgeVars, RegistryHook, ReportHook, LedgerBuyer, LedgerSeller,
           LeaveBook
  <2> QED
    BY <2>1 DEF ReserveInv, SideInv, Ledgers, EdgeInv, EdgeTypeOK
<1>2. CASE BookStep
  <2>1. phase = "match" /\ UNCHANGED <<hook, bal>>
    BY <1>2 DEF BookStep, MatchOne, EnqueueLocked, Discard, edgeVars
  <2>2. hook = 1
    BY <1>1, <2>1 DEF EdgeInv, HooksInTurn
  <2>3. ~HalfSettled /\ ~HalfSettled'
    BY <2>1, <2>2 DEF HalfSettled
  <2> QED
    BY <1>1, <2>1, <2>3, ValueUntouched
<1>3. CASE RegistryHook \/ ReportHook
  <2>1. (hook = 1 \/ hook = 2) /\ hook' = hook + 1 /\ UNCHANGED <<bal, trades>>
    BY <1>1, <1>3, WhichHook DEF RegistryHook, ReportHook, vars, bookVars
  <2>2. ~HalfSettled /\ ~HalfSettled'
    BY <2>1 DEF HalfSettled
  <2> QED
    BY <1>1, <2>1, <2>2, ValueUntouched
<1>4. CASE LedgerBuyer /\ ~CancelFired
  BY <1>4, BuyerPays
<1>5. CASE LedgerBuyer /\ CancelFired
  <2>1. hook = 3 /\ trades' = trades /\ bal' = Unlocked(CancelledId)
    BY <1>1, <1>5, WhichHook DEF LedgerBuyer, vars, bookVars
  <2>2. PICK t \in Threads : pc[t] = "cancelling"
    BY <1>1, <1>5, WhoseCancel
  <2>3. trades = <<>>
    BY <1>1, <2>1, <2>2 DEF InTheBook, Cancelling
  <2>4. ~HalfSettled /\ ~HalfSettled'
    BY <2>1, <2>3 DEF HalfSettled
  <2>5. \A asset \in Assets : Total(bal', asset) = Total(bal, asset)
    <3>1. CASE bal' = bal
      BY <3>1
    <3>2. CASE bal' # bal
      <4>1. PICK rec : rec = record[CancelledId]
        OBVIOUS
      <4>2. PICK amt : amt = LockAmount(rec, rec.orig - rec.executed)
        OBVIOUS
      <4>3. Recorded(CancelledId) /\ bal' = Unlock(bal, LockAsset(rec), amt)
        BY <2>1, <3>2, <4>1, <4>2 DEF Unlocked
      <4>4. rec \in Rec
        BY <1>1, <4>1, <4>3 DEF Recorded
      <4>5. rec.orig \in Nat /\ rec.executed \in Nat /\ rec.price \in Nat
        <5>1. rec.orig \in Volumes /\ rec.executed \in Nat /\ rec.price \in Prices \cup {0}
          BY <4>4 DEF Rec
        <5> QED
          BY <5>1, PriceIsNat, BookAssumption DEF BookAssumption
      <4>6. LockAsset(rec) \in Assets /\ amt \in Int
        <5>1. PICK qty \in Int : qty = rec.orig - rec.executed
          BY <4>5
        <5>2. \A x \in Int : x \div Scale \in Int
          BY LedgerAssumption DEF LedgerAssumption
        <5>3. Mul(qty, rec.price) \in Int
          BY <4>5, <5>2 DEF Mul
        <5> QED
          BY <4>2, <5>1, <5>3 DEF LockAsset, LockAmount, Assets
      <4> QED
        BY <1>1, <4>3, <4>6, UnlockOwns
    <3> QED
      BY <3>1, <3>2
  <2> QED
    BY <1>1, <2>4, <2>5, ValueSame
<1>6. CASE LedgerSeller
  BY <1>6, SellerPays
<1>7. CASE LeaveBook
  <2>1. trades = <<>> /\ trades' = <<>> /\ bal' = bal
    BY <1>7 DEF LeaveBook, Return
  <2>2. ~HalfSettled /\ ~HalfSettled'
    BY <2>1 DEF HalfSettled
  <2> QED
    BY <1>1, <2>1, <2>2, ValueUntouched
<1> QED
  BY <1>2, <1>3, <1>4, <1>5, <1>6, <1>7 DEF HolderStep

LEMMA ValueStep ==
    ASSUME EmuIds = {}
    PROVE  ValueInv /\ [EdgeNext]_allVars => ValueInv'
<1> SUFFICES ASSUME ValueInv, [EdgeNext]_allVars PROVE ValueInv'
  OBVIOUS
<1>1. ReserveInv /\ ReserveInv' /\ EdgeInv /\ debits \in Nat /\ orig \in [Ids -> Nat]
  BY ReserveStep DEF ValueInv, ReserveInv, SideInv, EdgeInv, AccountInv, BookInv, TypeOK
<1>2. debits' \in Nat
  <2>1. debits' = debits \/ debits' = debits + 1
    BY DEF EdgeNext, Record, Lookup, Step, Reserve, Remove, Announce, Release, EnterBook,
           CancelInBook, CancelMisses, AnswerMissed, MarkCanceled, HolderStep, BookStep, edgeVars,
           RegistryHook, ReportHook, LedgerBuyer, LedgerSeller, LeaveBook, EmulatorPlaces,
           EmulatorCancels, Withdraw, allVars
  <2> QED
    BY <1>1, <2>1
<1>3. ASSUME OnlyLimits' PROVE ValueHolds'
  <2>1. OnlyLimits
    <3>1. ASSUME NEW id \in EdgeIds, orig[id] # 0 PROVE record[id].kind = "limit"
      <4>1. orig'[id] = orig[id] /\ record'[id].kind = record[id].kind
        BY <1>1, <3>1, RecordsStay
      <4> QED
        BY <1>3, <3>1, <4>1 DEF OnlyLimits
    <3> QED
      BY <3>1 DEF OnlyLimits
  <2>2. ValueHolds
    BY <2>1 DEF ValueInv
  <2>3. ASSUME NEW t \in Threads,
               \/ Step(t) \/ \E id \in EdgeIds : Lookup(t, id)
               \/ \E o \in Order(Volumes), client \in Clients :
                     o.kind \in EdgeKinds /\ Record(t, o, client)
        PROVE  ValueHolds'
    BY <1>1, <2>2, <2>3, HandlersKeepValue
  <2>4. CASE HolderStep
    BY <1>1, <2>1, <2>2, <2>4, BookKeepsValue
  <2>5. ASSUME NEW asset \in Assets, Withdraw(asset) PROVE ValueHolds'
    BY <1>1, <2>2, <2>5, WithdrawCounts
  <2>6. CASE UNCHANGED allVars
    <3>1. UNCHANGED <<bal, debits, hook, trades>>
      BY <2>6 DEF allVars, edgeVars, vars, bookVars
    <3> QED
      BY <2>2, <3>1, ValueUntouched DEF HalfSettled
  <2>7. ~\E o \in Order(Volumes) : EmulatorPlaces(o)
    BY DEF EmulatorPlaces
  <2> QED
    BY <2>3, <2>4, <2>5, <2>6, <2>7 DEF EdgeNext
<1> QED
  BY <1>1, <1>2, <1>3 DEF ValueInv

LEMMA ValueInit == EdgeInit => ValueInv
<1> SUFFICES ASSUME EdgeInit PROVE ValueInv
  OBVIOUS
<1>1. ReserveInv
  BY ReserveInit
<1>2. /\ trades = <<>> /\ debits = 0
      /\ bal = [asset \in Assets |-> [free |-> Deposit, locked |-> 0]]
  BY DEF EdgeInit, Init
<1>3. Deposit \in Nat
  BY EdgeAssumption DEF EdgeAssumption
<1>4. Bought = 0 /\ Spent = 0
  BY <1>2 DEF Bought, Spent, HalfSettled
<1>5. Total(bal, "base") = Deposit /\ Total(bal, "quote") = Deposit
  BY <1>2, <1>3 DEF Total, Assets
<1>6. 0 \in 0..debits
  BY <1>2
<1>7. ValueHolds
  BY <1>2, <1>3, <1>4, <1>5, <1>6 DEF ValueHolds
<1> QED
  BY <1>1, <1>2, <1>7 DEF ValueInv

(* With no one but the account in the book, and as long as it has recorded   *)
(* LIMIT orders only, its trades with itself neither create nor destroy      *)
(* value, whatever the prices truncate to: whenever the book is free, what   *)
(* it owns of each asset, free and locked, is what it was given less what    *)
(* was withdrawn.                                                            *)
THEOREM EdgeValue ==
    ASSUME EmuIds = {}
    PROVE  EdgeSpec => []ValueConserved
<1>1. ValueInv /\ [EdgeNext]_allVars => ValueInv'
  BY ValueStep
<1>2. ValueInv => ValueConserved
  <2> SUFFICES ASSUME ValueInv, phase = "free", \A id \in Recorders : record[id].kind = "limit"
               PROVE  \E n \in 0..debits : /\ Total(bal, "base") = Deposit - n
                                           /\ Total(bal, "quote") = Deposit - (debits - n)
    BY DEF ValueConserved
  <2>1. OnlyLimits
    <3>1. ASSUME NEW id \in EdgeIds, orig[id] # 0 PROVE record[id].kind = "limit"
      <4>1. record[id] # None
        BY <3>1 DEF ValueInv, ReserveInv, SideInv, EdgeInv, Known
      <4> QED
        BY <4>1 DEF Recorders, Recorded
    <3> QED
      BY <3>1 DEF OnlyLimits
  <2>2. hook = 1
    BY DEF ValueInv, ReserveInv, SideInv, EdgeInv, HooksInTurn
  <2>3. Bought = 0 /\ Spent = 0
    BY <2>2 DEF Bought, Spent, HalfSettled
  <2>4. PICK n \in 0..debits : /\ Total(bal, "base") = Deposit - n + Bought
                               /\ Total(bal, "quote") + Spent = Deposit - (debits - n)
    BY <2>1 DEF ValueInv, ValueHolds
  <2>5. Total(bal, "quote") \in Int /\ Deposit \in Nat /\ debits \in Nat
    BY EdgeAssumption DEF EdgeAssumption, ValueInv, ReserveInv, Total, Assets, Holding
  <2>6. Total(bal, "base") = Deposit - n /\ Total(bal, "quote") = Deposit - (debits - n)
    BY <2>3, <2>4, <2>5
  <2> QED
    BY <2>6
<1> QED
  BY <1>1, <1>2, ValueInit, PTL DEF EdgeSpec
====
