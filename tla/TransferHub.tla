----------------------------- MODULE TransferHub -----------------------------
(* internal/transfer/hub.go: balances move between the venues' ledgers       *)
(* through payments on a chain.  Withdraw runs in the goroutine of an API    *)
(* request; one watch goroutine polls each venue's deposit address, which is *)
(* also the hot wallet its withdrawals are paid from.                        *)
(*                                                                           *)
(* The chain (internal/custody/stellar_send.go behind the Sender and Watcher *)
(* interfaces) is the sequence of all payments; a paging token is a position *)
(* in it, 0 standing for the empty token.  One asset is modelled, in units   *)
(* of the last place of a ledger amount.                                     *)
(*                                                                           *)
(* A crash loses everything but the chain and the saved cursors: the ledgers *)
(* are in memory and start again from the configuration.                     *)
EXTENDS Integers, Sequences, FiniteSets, Sums

CONSTANTS
    Venues,
    Outside,         \* an address that belongs to no venue
    Workers,         \* the goroutines serving withdrawals
    Amounts,         \* amounts asked for, and deposited from outside
    Quantum,         \* ledger units in the last place the chain keeps
    Funding,         \* a venue's configured balance
    PageSize,        \* how many operations Received reads (50)
    MaxPayments, MaxCrashes,
    CursorStore,     \* is a cursor file configured?
    LatestFails,     \* may LatestCursor return an error?
    SaveFails,       \* may writing the cursor file fail?
    LostReply        \* may Send return an error for a payment that was made?

ASSUME HubAssumption ==
    /\ IsFiniteSet(Venues) /\ IsFiniteSet(Workers) /\ Outside \notin Venues
    /\ Amounts \subseteq Nat \ {0}
    /\ Quantum \in Nat \ {0} /\ Funding \in Nat /\ PageSize \in Nat \ {0}
    /\ MaxPayments \in Nat \ {0} /\ MaxCrashes \in Nat
    /\ {CursorStore, LatestFails, SaveFails, LostReply} \subseteq BOOLEAN

VARIABLES
    chain,      \* the payments made so far
    saved,      \* the cursor file: the cursor of each venue, or NoCursor
    crashes,
    phase,      \* the process: "down", in initCursors ("init"), in the loop ("watch")
    ledger,     \* the free balance of each venue
    inflight,   \* Hub.inflight
    worker,     \* what each Withdraw is doing, and its locals
    cursor,     \* venue.cursor
    todo,       \* the venues initCursors or this poll has yet to visit
    polling,    \* the venue being visited, or Nobody
    upto,       \* the last operation of the page Received returned
    changed,    \* poll's return value so far
    start,      \* history: the cursors this process started from
    born,       \* history: how long the chain was when this process started
    credits     \* history: how often this process credited each payment

chainVars == <<chain, saved, crashes>>
watchVars == <<cursor, todo, polling, upto, changed>>
histVars == <<start, born, credits>>
vars == <<chainVars, phase, ledger, inflight, worker, watchVars, histVars>>

NoCursor == -1
Nobody == "nobody"
Idle == [at |-> "idle"]
Positions == 1..MaxPayments
Addresses == Venues \cup {Outside}

\* StringPrec(sendPrecision) cuts digits off, it does not round.
Quantized(amt) == (amt \div Quantum) * Quantum

\* The last position of S, as a set of one element; 0 when there is none.
Latest(S) == IF S = {} THEN {0} ELSE {p \in S : \A q \in S : q =< p}

\* The payments a venue's account history lists: the ones it received and,
\* since it is the hot wallet too, the ones it made.
History(v) == {p \in 1..Len(chain) : v \in {chain[p].from, chain[p].to}}

\* Received asks for PageSize operations after the cursor, oldest first.
Page(v) == {p \in History(v) : /\ p > cursor[v]
                               /\ Cardinality({q \in History(v) : cursor[v] < q /\ q =< p}) =< PageSize}

\* Mutants: the payment at the cursor is listed again; payments from another
\* venue are not listed.
IncomingAgain(v, first, last) == {p \in first..last : p \in DOMAIN chain /\ chain[p].to = v}
IncomingFromOutside(v, first, last) ==
    {p \in (first + 1)..last : p \in DOMAIN chain /\ chain[p].to = v /\ chain[p].from = Outside}

Incoming(v, first, last) == {p \in (first + 1)..last : p \in DOMAIN chain /\ chain[p].to = v}

-----------------------------------------------------------------------------
Init ==
    /\ chain \in {<<>>} \cup {<<[from |-> Outside, to |-> v, amt |-> a]>> : v \in Venues, a \in Amounts}
    /\ saved = [v \in Venues |-> NoCursor]
    /\ crashes = 0
    /\ phase = "down"
    /\ ledger = [v \in Venues |-> Funding]
    /\ inflight = {}
    /\ worker = [w \in Workers |-> Idle]
    /\ cursor = [v \in Venues |-> 0]
    /\ todo = {}
    /\ polling = Nobody
    /\ upto = 0
    /\ changed = FALSE
    /\ start = [v \in Venues |-> 0]
    /\ born = 0
    /\ credits = [p \in Positions |-> 0]

SaveCursors(c) ==
    IF CursorStore THEN saved' = c \/ (SaveFails /\ UNCHANGED saved) ELSE UNCHANGED saved

\* The process comes up: withdrawals are served from now on, while the watch
\* goroutine begins with initCursors.
Boot ==
    /\ phase = "down"
    /\ phase' = "init"
    /\ todo' = Venues
    /\ credits' = [p \in Positions |-> 0]
    /\ born' = Len(chain)
    /\ UNCHANGED <<chainVars, ledger, inflight, worker, cursor, polling, upto, changed, start>>

\* initCursors takes a venue's saved cursor, or else skips to the chain's tip;
\* when LatestCursor fails the cursor stays empty.
InitCursor(v) ==
    /\ phase = "init" /\ v \in todo
    /\ todo' = todo \ {v}
    /\ \E c \in IF saved[v] # NoCursor THEN {saved[v]}
             ELSE Latest(History(v)) \cup (IF LatestFails THEN {0} ELSE {}) :
          /\ cursor' = [cursor EXCEPT ![v] = c]
          /\ start' = [start EXCEPT ![v] = c]
    /\ UNCHANGED <<chainVars, phase, ledger, inflight, worker, polling, upto, changed, born, credits>>

\* Start's saveCursors, and then the loop.
StartWatch ==
    /\ phase = "init" /\ todo = {}
    /\ phase' = "watch"
    /\ SaveCursors(cursor)
    /\ UNCHANGED <<chain, crashes, ledger, inflight, worker, watchVars, histVars>>

\* The process ends at any point; a restart builds the ledgers anew.
Crash ==
    /\ phase # "down"
    /\ crashes < MaxCrashes
    /\ crashes' = crashes + 1
    /\ phase' = "down"
    /\ ledger' = [v \in Venues |-> Funding]
    /\ inflight' = {}
    /\ worker' = [w \in Workers |-> Idle]
    /\ cursor' = [v \in Venues |-> 0]
    /\ todo' = {} /\ polling' = Nobody /\ upto' = 0 /\ changed' = FALSE
    /\ start' = [v \in Venues |-> 0]
    /\ born' = 0
    /\ UNCHANGED <<chain, saved, credits>>

-----------------------------------------------------------------------------
(* Withdraw *)

Debitable(v, amt) == ledger[v] >= amt

Pay(from, to, amt) ==
    /\ Len(chain) < MaxPayments
    /\ chain' = Append(chain, [from |-> from, to |-> to, amt |-> amt])

\* Quantize, then Debit; an amount below the chain's precision or above the
\* free balance is refused and changes nothing.
Withdraw(w, v, dest, amt) ==
    /\ phase # "down" /\ worker[w] = Idle
    /\ Quantized(amt) > 0
    /\ Debitable(v, Quantized(amt))
    /\ ledger' = [ledger EXCEPT ![v] = @ - Quantized(amt)]
    /\ worker' = [worker EXCEPT ![w] =
                    [at |-> "send", from |-> v, to |-> dest, amt |-> Quantized(amt), tx |-> 0]]
    /\ UNCHANGED <<chainVars, phase, inflight, watchVars, histVars>>

Send(w) ==
    /\ phase # "down" /\ worker[w].at = "send"
    /\ Pay(worker[w].from, worker[w].to, worker[w].amt)
    /\ \/ worker' = [worker EXCEPT ![w].at = "record", ![w].tx = Len(chain) + 1]
       \/ LostReply /\ worker' = [worker EXCEPT ![w].at = "refund", ![w].tx = Len(chain) + 1]
    /\ UNCHANGED <<saved, crashes, phase, ledger, inflight, watchVars, histVars>>

SendFails(w) ==
    /\ phase # "down" /\ worker[w].at = "send"
    /\ worker' = [worker EXCEPT ![w].at = "refund"]
    /\ UNCHANGED <<chainVars, phase, ledger, inflight, watchVars, histVars>>

\* Mutant: a failed send is not refunded.
RefundForgotten(w) ==
    /\ phase # "down" /\ worker[w].at = "refund"
    /\ worker' = [worker EXCEPT ![w] = Idle]
    /\ UNCHANGED <<chainVars, phase, ledger, inflight, watchVars, histVars>>

Refund(w) ==
    /\ phase # "down" /\ worker[w].at = "refund"
    /\ ledger' = [ledger EXCEPT ![worker[w].from] = @ + worker[w].amt]
    /\ worker' = [worker EXCEPT ![w] = Idle]
    /\ UNCHANGED <<chainVars, phase, inflight, watchVars, histVars>>

RecordInflight(w) ==
    /\ phase # "down" /\ worker[w].at = "record"
    /\ inflight' = inflight \cup {[tx |-> worker[w].tx, status |-> "pending"]}
    /\ worker' = [worker EXCEPT ![w] = Idle]
    /\ UNCHANGED <<chainVars, phase, ledger, watchVars, histVars>>

-----------------------------------------------------------------------------
(* The watch goroutine *)

BeginPoll ==
    /\ phase = "watch" /\ todo = {} /\ polling = Nobody /\ ~changed
    /\ todo' = Venues
    /\ UNCHANGED <<chainVars, phase, ledger, inflight, worker, cursor, polling, upto, changed, histVars>>

\* Received: the map of venues is visited in any order.
Receive(v) ==
    /\ phase = "watch" /\ v \in todo /\ polling = Nobody
    /\ todo' = todo \ {v}
    /\ polling' = v
    /\ upto' \in Latest(Page(v))
    /\ UNCHANGED <<chainVars, phase, ledger, inflight, worker, cursor, changed, histVars>>

ReceiveFails(v) ==
    /\ phase = "watch" /\ v \in todo /\ polling = Nobody
    /\ todo' = todo \ {v}
    /\ UNCHANGED <<chainVars, phase, ledger, inflight, worker, cursor, polling, upto, changed, histVars>>

Settle(tx) ==
    inflight' = {IF t.tx = tx THEN [t EXCEPT !.status = "settled"] ELSE t : t \in inflight}

\* Mutant: the cursor goes to the chain's tip.
CreditNextJumps ==
    /\ phase = "watch" /\ polling # Nobody
    /\ \E p \in Incoming(polling, cursor[polling], upto) :
          /\ \A q \in Incoming(polling, cursor[polling], upto) : p =< q
          /\ ledger' = [ledger EXCEPT ![polling] = @ + chain[p].amt]
          /\ cursor' = [cursor EXCEPT ![polling] = Len(chain)]
          /\ credits' = [credits EXCEPT ![p] = @ + 1]
          /\ Settle(p)
    /\ changed' = TRUE
    /\ UNCHANGED <<chainVars, phase, worker, todo, polling, upto, start, born>>

\* The next payment of the page: Credit, advance the cursor, settle.
CreditNext ==
    /\ phase = "watch" /\ polling # Nobody
    /\ \E p \in Incoming(polling, cursor[polling], upto) :
          /\ \A q \in Incoming(polling, cursor[polling], upto) : p =< q
          /\ ledger' = [ledger EXCEPT ![polling] = @ + chain[p].amt]
          /\ cursor' = [cursor EXCEPT ![polling] = p]
          /\ credits' = [credits EXCEPT ![p] = @ + 1]
          /\ Settle(p)
    /\ changed' = TRUE
    /\ UNCHANGED <<chainVars, phase, worker, todo, polling, upto, start, born>>

VenueDone ==
    /\ phase = "watch" /\ polling # Nobody
    /\ Incoming(polling, cursor[polling], upto) = {}
    /\ polling' = Nobody
    /\ upto' = 0
    /\ UNCHANGED <<chainVars, phase, ledger, inflight, worker, cursor, todo, changed, histVars>>

EndPoll ==
    /\ phase = "watch" /\ todo = {} /\ polling = Nobody /\ changed
    /\ SaveCursors(cursor)
    /\ changed' = FALSE
    /\ UNCHANGED <<chain, crashes, phase, ledger, inflight, worker, cursor, todo, polling, upto, histVars>>

-----------------------------------------------------------------------------
\* Somebody pays into a venue's deposit address.
Deposit(v, amt) ==
    /\ Pay(Outside, v, amt)
    /\ UNCHANGED <<saved, crashes, phase, ledger, inflight, worker, watchVars, histVars>>

Next ==
    \/ Boot
    \/ \E v \in Venues : InitCursor(v)
    \/ StartWatch
    \/ Crash
    \/ \E w \in Workers :
          \/ \E v \in Venues, dest \in Addresses, amt \in Amounts : Withdraw(w, v, dest, amt)
          \/ Send(w) \/ SendFails(w) \/ Refund(w) \/ RecordInflight(w)
    \/ BeginPoll
    \/ \E v \in Venues : Receive(v) \/ ReceiveFails(v)
    \/ CreditNext
    \/ VenueDone
    \/ EndPoll
    \/ \E v \in Venues, amt \in Amounts : Deposit(v, amt)

\* The process is started and restarted, the ticker keeps the watch goroutine
\* going, and the chain answers a venue's poll again and again.
Fairness ==
    /\ WF_vars(Boot) /\ WF_vars(StartWatch)
    /\ \A v \in Venues : WF_vars(InitCursor(v))
    /\ WF_vars(BeginPoll) /\ WF_vars(CreditNext) /\ WF_vars(VenueDone) /\ WF_vars(EndPoll)
    /\ \A v \in Venues : SF_vars(Receive(v))

Spec == Init /\ [][Next]_vars /\ Fairness

-----------------------------------------------------------------------------
Payment == [from : Addresses, to : Addresses, amt : Nat]
InWithdraw == [at : {"send", "record", "refund"}, from : Venues, to : Addresses,
               amt : Nat, tx : 0..MaxPayments]

TypeOK ==
    /\ chain \in Seq(Payment) /\ Len(chain) =< MaxPayments
    /\ saved \in [Venues -> Nat \cup {NoCursor}]
    /\ crashes \in Nat
    /\ phase \in {"down", "init", "watch"}
    /\ ledger \in [Venues -> Nat]
    /\ inflight \subseteq [tx : Nat, status : {"pending", "settled"}]
    /\ worker \in [Workers -> InWithdraw \cup {Idle}]
    /\ cursor \in [Venues -> Nat]
    /\ todo \subseteq Venues
    /\ polling \in Venues \cup {Nobody}
    /\ upto \in 0..MaxPayments
    /\ changed \in BOOLEAN
    /\ start \in [Venues -> Nat]
    /\ born \in 0..MaxPayments
    /\ credits \in [Positions -> Nat]

(* A process never credits the same payment twice: whatever page Received    *)
(* returns, payments already behind the cursor are not in it.                *)
CreditedOnce == \A p \in Positions : credits[p] =< 1

(* The cursor never jumps over a payment: every deposit between the cursor   *)
(* this process started from and its cursor now has been credited.           *)
NoneSkipped ==
    \A p \in 1..Len(chain) :
        LET v == chain[p].to
        IN  v \in Venues /\ start[v] < p /\ p =< cursor[v] => credits[p] = 1

(* The cursor file is never ahead of what was credited: after a crash at any *)
(* point the next process resumes at or before the first payment this one    *)
(* had not credited, so a deposit is not lost with it.                       *)
SavedNotAhead ==
    phase = "watch" => \A v \in Venues :
        /\ saved[v] =< cursor[v]
        /\ \A p \in 1..Len(chain) :
              chain[p].to = v /\ start[v] < p /\ p =< saved[v] => credits[p] = 1

(* Value moves, it is neither made nor lost: what the ledgers hold, what a   *)
(* withdrawal has debited but not sent, and what this process has paid that  *)
(* no ledger was credited with, add up to what the venues were funded with   *)
(* and what was credited of payments this process did not make.              *)
Made == {p \in (born + 1)..Len(chain) : chain[p].from \in Venues}

Carried == [w \in Workers |-> IF worker[w].at \in {"send", "refund"} THEN worker[w].amt ELSE 0]
PaidOut == [p \in Positions |-> IF p \in Made /\ credits[p] = 0 THEN chain[p].amt ELSE 0]
CameIn  == [p \in Positions |-> IF p \notin Made /\ credits[p] > 0 THEN chain[p].amt ELSE 0]

ValueConserved ==
    phase # "down" =>
        SumOf(ledger) + SumOf(Carried) + SumOf(PaidOut)
          = Cardinality(Venues) * Funding + SumOf(CameIn)

(* A payment to a venue's address is credited in the end, by this process or *)
(* by the next one ("a deposit that lands while the process is down is still *)
(* credited on the next run"): it is credited now, or was before the cursor  *)
(* that covers it was saved, or is history to a process that found no saved  *)
(* cursor.  The one thing that keeps the watcher from a deposit is a page    *)
(* full of payments the venue itself has made.                               *)
Handled(p) ==
    LET v == chain[p].to
    IN  credits[p] > 0 \/ saved[v] >= p \/ (phase = "watch" /\ start[v] >= p)

Blocked(v) ==
    /\ phase = "watch"
    /\ Cardinality(Page(v)) = PageSize
    /\ \A p \in Page(v) : chain[p].to # v

DepositsCredited ==
    \A p \in Positions :
        (p =< Len(chain) /\ chain[p].to \in Venues) ~>
        (p =< Len(chain) /\ chain[p].to \in Venues /\ (Handled(p) \/ Blocked(chain[p].to)))

-----------------------------------------------------------------------------
(* What comments in the code say, refuted by a run.                          *)

(* "send failed -> refund the exact debit" (hub.go:127): what is refunded    *)
(* was not paid.                                                             *)
RefundedNotPaid == \A w \in Workers : worker[w].at = "refund" => worker[w].tx = 0
=============================================================================
