------------------------------- MODULE Ledger --------------------------------
(* internal/account/ledger.go: the balance book of one venue account, as     *)
(* functions from a ledger to a ledger.  Every method of the code runs under *)
(* the ledger's own mutex, so the modules that use one apply each of these   *)
(* in a single step.                                                         *)
(*                                                                           *)
(* A ledger maps an asset to its free and locked amounts.  An amount is a    *)
(* number of units of the last decimal place (pkg/decimal keeps 18 of them;  *)
(* Scale of them make 1), and a product or a quotient is truncated.          *)
EXTENDS Integers

CONSTANT Scale

ASSUME LedgerAssumption == Scale \in Nat \ {0}

Mul(x, y) == (x * y) \div Scale
Div(x, y) == (x * Scale) \div y

AtMost(x, limit) == IF x > limit THEN limit ELSE x

Holding == [free : Nat, locked : Nat]

Lockable(bal, asset, amt) == amt =< 0 \/ amt =< bal[asset].free

\* Lock, when the free balance suffices.
Lock(bal, asset, amt) ==
    IF amt =< 0 THEN bal
    ELSE [bal EXCEPT ![asset].free = @ - amt, ![asset].locked = @ + amt]

\* Unlock and release: up to amt goes back from locked to free.
Unlock(bal, asset, amt) ==
    LET freed == AtMost(amt, bal[asset].locked)
    IN  IF amt =< 0 THEN bal
        ELSE [bal EXCEPT ![asset].free = @ + freed, ![asset].locked = @ - freed]

\* Debit succeeds only when the free balance covers it; Lockable is its test.
Debit(bal, asset, amt) == IF amt =< 0 THEN bal ELSE [bal EXCEPT ![asset].free = @ - amt]

Credit(bal, asset, amt) == IF amt =< 0 THEN bal ELSE [bal EXCEPT ![asset].free = @ + amt]

\* Burn and debitFree: up to amt leaves the free balance.
Burn(bal, asset, amt) ==
    IF amt =< 0 THEN bal
    ELSE [bal EXCEPT ![asset].free = @ - AtMost(amt, bal[asset].free)]

-----------------------------------------------------------------------------
\* SettleFill for a MARKET order: nothing was reserved, so the fill is paid
\* from what is free, and the counter-asset credited in proportion.
SettleMarket(bal, isBuy, base, quote, qty, price) ==
    LET cost == Mul(qty, price)
        pay  == AtMost(cost, bal[quote].free)
        sold == AtMost(qty, bal[base].free)
    IN  IF isBuy
        THEN Credit(Burn(bal, quote, pay), base,
                    IF pay < cost /\ cost > 0 THEN Div(Mul(qty, pay), cost) ELSE qty)
        ELSE Credit(Burn(bal, base, sold), quote, Mul(sold, price))

\* Mutant: a buyer is charged its limit, not the execution price.
SettleLimitAtLimit(bal, isBuy, base, quote, qty, price, reserved) ==
    IF isBuy
    THEN Credit(Burn(Unlock(bal, quote, Mul(qty, reserved)), quote, Mul(qty, reserved)), base, qty)
    ELSE Credit(Burn(Unlock(bal, base, qty), base, qty), quote, Mul(qty, price))

\* SettleFill for a LIMIT order: the reservation for the filled quantity is
\* released, the actual cost charged, and any price improvement stays free.
SettleLimit(bal, isBuy, base, quote, qty, price, reserved) ==
    IF isBuy
    THEN Credit(Burn(Unlock(bal, quote, Mul(qty, reserved)), quote, Mul(qty, price)), base, qty)
    ELSE Credit(Burn(Unlock(bal, base, qty), base, qty), quote, Mul(qty, price))

SettleFill(bal, isBuy, base, quote, qty, price, reserved) ==
    IF reserved =< 0 THEN SettleMarket(bal, isBuy, base, quote, qty, price)
                     ELSE SettleLimit(bal, isBuy, base, quote, qty, price, reserved)

Total(bal, asset) == bal[asset].free + bal[asset].locked
=============================================================================
