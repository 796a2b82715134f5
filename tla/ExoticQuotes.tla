---------------------------- MODULE ExoticQuotes ----------------------------
(* The dealer quotes of flow exotics: optmarket.Market's cache in front of an  *)
(* engine that runs as a subprocess for up to two minutes (pricer/saga).  Any  *)
(* number of API handlers ask for one exotic's mark; the lock guards the cache *)
(* map only, so the clock, the index and the engine are read between locks.    *)
(* A price is the tick whose index it was computed from: what it is worth is   *)
(* left out, how old it is is not.  Bid and ask bracket it when it is made.    *)
EXTENDS Integers, FiniteSets

CONSTANTS Askers,     \* goroutines that ask for the mark
          QuoteTTL,   \* cache interval, in ticks
          Timeout,    \* what one engine call may take, in ticks
          Expiry,     \* the exotic's settlement instant
          LastClock   \* bound: the clock

ASSUME QuoteAssumption == /\ QuoteTTL \in Nat \ {0} /\ Timeout \in Nat
                          /\ Expiry \in Nat /\ LastClock \in Nat

VARIABLES clock,
          cached,    \* {} or {[price, at, failed]}: the exotic's cache entry
          asker,      \* [Askers -> [pc, now, index]]
          quoted      \* {} or {[price, asked, hit]}: the latest mark answered
quoteVars == <<clock, cached, asker, quoted>>

NotAsking == [pc |-> "idle", now |-> 0, index |-> 0]

QuoteInit ==
  /\ clock = 0 /\ cached = {} /\ quoted = {}
  /\ asker = [a \in Askers |-> NotAsking]

Turn(a, r) == asker' = [asker EXCEPT ![a] = r]

\* exotic(): the clock is read before the cache.
Ask(a) ==
  /\ asker[a].pc = "idle"
  /\ Turn(a, [asker[a] EXCEPT !.pc = "look", !.now = clock])
  /\ UNCHANGED <<clock, cached, quoted>>

Fresh(a) == {e \in cached : asker[a].now - e.at < QuoteTTL}

\* A fresh entry answers, an error when that is what it holds; otherwise the
\* caller prices the exotic itself, whoever else is doing so already.
LookUp(a) ==
  /\ asker[a].pc = "look"
  /\ IF Fresh(a) # {}
     THEN /\ quoted' = {[price |-> e.price, asked |-> asker[a].now, hit |-> TRUE] :
                       e \in {f \in Fresh(a) : ~f.failed}}
          /\ Turn(a, NotAsking)
     ELSE UNCHANGED quoted /\ Turn(a, [asker[a] EXCEPT !.pc = "price"])
  /\ UNCHANGED <<clock, cached>>

\* The entry that a refresh leaves: dated when the caller asked.
EntryDatedLate(a, price, failed) == [price |-> price, at |-> clock, failed |-> failed]
Entry(a, price, failed) == [price |-> price, at |-> asker[a].now, failed |-> failed]

Keep(a, price, failed) ==
  /\ cached' = {Entry(a, price, failed)}
  /\ Turn(a, NotAsking)
  /\ quoted' = IF failed THEN quoted
             ELSE {[price |-> price, asked |-> asker[a].now, hit |-> FALSE]}

\* priceExoticNow up to the engine: no index and an expired exotic are errors,
\* cached like a price; the index read is what the engine is given.
Price(a) ==
  /\ asker[a].pc = "price"
  /\ \/ Keep(a, clock, TRUE)           \* no index
     \/ /\ clock < Expiry
        /\ Turn(a, [asker[a] EXCEPT !.pc = "engine", !.index = clock])
        /\ UNCHANGED <<cached, quoted>>
  /\ UNCHANGED clock

\* The engine answers: a price, or an error (it failed or was cut off, it gave
\* no finite positive value, or one above the risk limit).
Answer(a) ==
  /\ asker[a].pc = "engine"
  /\ \E failed \in BOOLEAN : Keep(a, asker[a].index, failed)
  /\ UNCHANGED clock

\* A call that has run for Timeout ticks is killed before the clock moves on;
\* between two of its steps a handler is not held up for longer than that.
QuoteTick ==
  /\ clock < LastClock
  /\ \A a \in Askers : asker[a].pc # "idle" => clock - asker[a].now < Timeout
  /\ clock' = clock + 1
  /\ UNCHANGED <<cached, asker, quoted>>

QuoteNext ==
  \/ \E a \in Askers : Ask(a) \/ LookUp(a) \/ Price(a) \/ Answer(a)
  \/ QuoteTick

QuoteSpec == QuoteInit /\ [][QuoteNext]_quoteVars

-----------------------------------------------------------------------------
(* optmarket/market.go exotic(): a mark served from the cache rests on an      *)
(* index younger than QuoteTTL at the time it was asked for, however long the  *)
(* engine took and whichever of several refreshes stored its result last; a    *)
(* mark that was priced for its caller rests on an index read after it asked.  *)
MarksAreRecent ==
  \A t \in quoted : t.price > t.asked - (IF t.hit THEN QuoteTTL ELSE 1)
=============================================================================
