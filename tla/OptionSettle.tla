----------------------------- MODULE OptionSettle -----------------------------
(* The expiry sweep of one listed option (internal/optmarket/settle.go)      *)
(* against the option orders of the Binance edge (options_order.go).  An     *)
(* option order takes the same steps over registry, ledger and book as a     *)
(* LIMIT order on spot, so they are BinanceEdge's, with the contract's units *)
(* as the base asset; what it adds is the check that the contract still      *)
(* trades, which is not made under any lock the sweep takes.                 *)
(*                                                                           *)
(* A pass of the sweep is a goroutine of its own: it claims the symbol,      *)
(* prices it, cancels what rests, records the settlement and pays, one lock  *)
(* after another; at the end of every pass it cancels again what rests on a  *)
(* settled symbol.                                                           *)
EXTENDS BinanceEdge

CONSTANTS
    Handlers,    \* the goroutines serving option orders
    Sweepers,    \* the goroutines running passes of the sweep
    PerUnit      \* what one unit settles at

ASSUME SettleAssumption ==
    /\ Threads = Handlers \cup Sweepers
    /\ Handlers \cap Sweepers = {}
    /\ PerUnit \in Nat

VARIABLES
    expired,      \* the market clock has reached the settlement instant
    claimed,      \* Market.settled[sym]
    settlements,  \* how many records Market.settlements holds for the symbol
    passed,       \* the handlers that have found the contract open
    sweep,        \* where each pass is
    rests,        \* the ids a pass has listed and not yet cancelled
    held          \* the position a pass has read

settleVars == <<expired, claimed, settlements, passed, sweep, rests, held>>
optVars == <<allVars, settleVars>>

OptInit ==
    /\ EdgeInit
    /\ expired = FALSE /\ claimed = FALSE
    /\ settlements = 0
    /\ passed = {}
    /\ sweep = [s \in Sweepers |-> "idle"]
    /\ rests = [s \in Sweepers |-> {}]
    /\ held = [s \in Sweepers |-> 0]

Expire == expired' = TRUE /\ UNCHANGED <<allVars, claimed, settlements, passed, sweep, rests, held>>

-----------------------------------------------------------------------------
(* POST and DELETE /eapi/v1/order *)

\* IsSettled and ExpiryOf, and the checks of the parameters after them.
FindOpen(t) ==
    /\ pc[t] = "idle" /\ t \notin passed
    /\ ~claimed /\ ~expired
    /\ passed' = passed \cup {t}
    /\ UNCHANGED <<allVars, expired, claimed, settlements, sweep, rests, held>>

\* RecordUnique, and BinanceEdge's steps from there.
OptionPlace(t, o, client) ==
    /\ t \in passed
    /\ passed' = passed \ {t}
    /\ Record(t, o, client)
    /\ UNCHANGED <<expired, claimed, settlements, sweep, rests, held>>

OptionStep(t) == t \notin passed /\ Step(t) /\ UNCHANGED settleVars

OptionCancel(t, id) == t \notin passed /\ Lookup(t, id) /\ UNCHANGED settleVars

-----------------------------------------------------------------------------
(* A pass of the sweep *)

Pass(s, from, to) == sweep[s] = from /\ sweep' = [sweep EXCEPT ![s] = to]

\* Mutant: a symbol is claimed without looking whether it was.
ClaimAlways(s) ==
    /\ expired
    /\ claimed' = TRUE
    /\ Pass(s, "idle", "price")

\* claim: at most one pass has the symbol.
Claim(s) ==
    /\ expired /\ ~claimed
    /\ claimed' = TRUE
    /\ Pass(s, "idle", "price")

\* Nothing to claim: the pass goes on to the drain.
NotClaimed(s) ==
    /\ ~expired \/ claimed
    /\ Pass(s, "idle", "drain")
    /\ UNCHANGED claimed

Begin(s) ==
    /\ Claim(s) \/ NotClaimed(s)
    /\ UNCHANGED <<allVars, expired, settlements, passed, rests, held>>

\* The index, or the exotic's fresh price, is there.
Priced(s) ==
    /\ Pass(s, "price", "settle")
    /\ UNCHANGED <<allVars, expired, claimed, settlements, passed, rests, held>>

NotPriced(s) ==
    /\ Pass(s, "price", "unclaim")
    /\ UNCHANGED <<allVars, expired, claimed, settlements, passed, rests, held>>

Unclaim(s) ==
    /\ Pass(s, "unclaim", "drain")
    /\ claimed' = FALSE
    /\ UNCHANGED <<allVars, expired, settlements, passed, rests, held>>

RestingIds == {id \in Ids : Rests(id)}

\* Mutant: the drain leaves alone what an earlier pass has settled.
DrainNothing(s) == {}

\* settledKeys: what the drain has to list.
Drained(s) == IF claimed THEN RestingIds ELSE {}

\* OpenOrders, first for the symbol being settled and later for the drain.
ListRests(s) ==
    /\ phase = "free" /\ pc[s] = "idle"
    /\ \/ Pass(s, "settle", "cancel") /\ rests' = [rests EXCEPT ![s] = RestingIds]
       \/ Pass(s, "drain", "drainCancel") /\ rests' = [rests EXCEPT ![s] = Drained(s)]
    /\ UNCHANGED <<allVars, expired, claimed, settlements, passed, held>>

\* cancelResting, one order after the other; an order that is gone is logged.
PickRest(s) ==
    /\ sweep[s] \in {"cancel", "drainCancel"} /\ pc[s] = "idle"
    /\ \E id \in rests[s] :
          /\ rests' = [rests EXCEPT ![s] = @ \ {id}]
          /\ req' = [req EXCEPT ![s] = [id |-> id]]
    /\ pc' = [pc EXCEPT ![s] = "cancel"]
    /\ UNCHANGED <<vars, seq, record, bal, debits, holder, hook, report>>
    /\ UNCHANGED <<expired, claimed, settlements, passed, sweep, held>>

CancelRest(s) ==
    /\ CancelInBook(s) \/ CancelMisses(s)
    /\ UNCHANGED settleVars

NextRest(s) ==
    /\ Goto(s, "mark", "idle") \/ Goto(s, "missed", "idle")
    /\ UNCHANGED <<vars, seq, record, bal, debits, holder, hook, report, settleVars>>

AllCancelled(s) == rests[s] = {} /\ pc[s] = "idle"

\* The settlement is recorded.
RecordSettlement(s) ==
    /\ AllCancelled(s)
    /\ Pass(s, "cancel", "position")
    /\ settlements' = settlements + 1
    /\ UNCHANGED <<allVars, expired, claimed, passed, rests, held>>

\* defaultOptionPositions: the account's free units.
ReadPosition(s) ==
    /\ Pass(s, "position", IF bal["base"].free > 0 THEN "credit" ELSE "drain")
    /\ held' = [held EXCEPT ![s] = bal["base"].free]
    /\ UNCHANGED <<allVars, expired, claimed, settlements, passed, rests>>

\* settleOptionCash: Credit, then Burn.
PayCash(s) ==
    /\ Pass(s, "credit", "burn")
    /\ bal' = Credit(bal, "quote", held[s] * PerUnit)
    /\ UNCHANGED <<vars, seq, record, debits, pc, req, holder, hook, report>>
    /\ UNCHANGED <<expired, claimed, settlements, passed, rests, held>>

Burned(s) == Burn(bal, "base", held[s])

BurnUnits(s) ==
    /\ Pass(s, "burn", "drain")
    /\ bal' = Burned(s)
    /\ held' = [held EXCEPT ![s] = 0]
    /\ UNCHANGED <<vars, seq, record, debits, pc, req, holder, hook, report>>
    /\ UNCHANGED <<expired, claimed, settlements, passed, rests>>

EndPass(s) ==
    /\ AllCancelled(s)
    /\ Pass(s, "drainCancel", "idle")
    /\ UNCHANGED <<allVars, expired, claimed, settlements, passed, rests, held>>

-----------------------------------------------------------------------------
SweepStep(s) ==
    \/ Begin(s) \/ Priced(s) \/ NotPriced(s) \/ Unclaim(s)
    \/ ListRests(s) \/ PickRest(s) \/ CancelRest(s) \/ NextRest(s)
    \/ RecordSettlement(s) \/ ReadPosition(s) \/ PayCash(s) \/ BurnUnits(s)
    \/ EndPass(s)

OptNext ==
    \/ Expire
    \/ \E t \in Handlers :
          \/ FindOpen(t)
          \/ \E o \in Order(Volumes), client \in Clients :
                o.kind = "limit" /\ OptionPlace(t, o, client)
          \/ OptionStep(t)
          \/ \E id \in EdgeIds : OptionCancel(t, id)
    \/ HolderStep /\ UNCHANGED settleVars
    \/ \E s \in Sweepers : SweepStep(s)

\* Goroutines keep running, mutexes do not starve, the ticker keeps the sweep
\* going, and a price is found again and again.
OptFairness ==
    /\ WF_optVars(HolderStep /\ UNCHANGED settleVars)
    /\ \A t \in Handlers : SF_optVars(OptionStep(t))
    /\ \A s \in Sweepers : SF_optVars(SweepStep(s)) /\ SF_optVars(Priced(s))

OptSpec == OptInit /\ [][OptNext]_optVars /\ OptFairness

-----------------------------------------------------------------------------
(* "a settled symbol never settles twice within the process" (settle.go:18), *)
(* although claims are taken, given back when there is no price, and taken   *)
(* again; a symbol that was settled stays claimed.                           *)
SettledOnce ==
    /\ settlements =< 1
    /\ settlements = 1 => claimed

(* "the sweep re-cancels the rests of settled symbols so a late order cannot *)
(* ... pin a reservation" (settle.go:43): whatever was in flight at the      *)
(* settlement instant, in the end nothing stays locked, for good.            *)
ReservationsReturn == expired ~> [](\A asset \in Assets : bal[asset].locked = 0)
=============================================================================
