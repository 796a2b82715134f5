----------------------------- MODULE RateLimit -----------------------------
(* ratelimit.KeyedLimiter, the first thing a request passes in the Binance and *)
(* the Coinbase edge's middleware: one token bucket per API key or address.    *)
(* The limiter's lock guards the map of buckets and each bucket has a lock of  *)
(* its own, so a request may hold a bucket that has left the map.  A bucket    *)
(* gains one token per tick.                                                   *)
EXTENDS Integers, FiniteSets, Functions

CONSTANTS Servers,     \* goroutines serving requests
          Sources,      \* API keys and addresses
          Burst, IdleTTL,   \* bucket capacity; idle time after which a bucket goes
          MaxHold,      \* how long a request may stand between the two locks
          MaxKeys,      \* buckets the map may hold
          LastTick      \* bound: the clock

\* A bucket dropped for idleness would be full again by then, even if a request
\* that marked it as seen took its token late: both edges keep the default of
\* ten minutes, which refills their bursts.
ASSUME LimitAssumption ==
  /\ Burst \in Nat \ {0} /\ {IdleTTL, MaxHold} \subseteq Nat /\ Burst + MaxHold <= IdleTTL + 1
  /\ IsFiniteSet(Servers)
  /\ MaxKeys \in Nat \ {0} /\ LastTick \in Nat

VARIABLES tick,
          bucket,     \* live buckets -> [tokens, last]
          mapped,     \* callers in the map -> [bucket, seen]
          lastGC,
          held,       \* requests between the two locks -> [caller, bucket, since]
          allowance,  \* history: the bucket a caller would have if none ever went
          displaced,  \* history: callers that lost a bucket to the cap
          overdrawn   \* history: callers let in beyond their allowance
limitVars == <<tick, bucket, mapped, lastGC, held, allowance, displaced, overdrawn>>

Buckets == 1..(MaxKeys + Cardinality(Servers))
Full == [tokens |-> Burst, last |-> tick]

LimitInit ==
  /\ tick = 0 /\ lastGC = 0
  /\ bucket = [b \in {} |-> 0] /\ mapped = [c \in {} |-> 0] /\ held = [r \in {} |-> 0]
  /\ allowance = [c \in Sources |-> [tokens |-> Burst, last |-> 0]]
  /\ displaced = {} /\ overdrawn = {}

\* A bucket nobody can reach is gone.
Reachable == {mapped[c].bucket : c \in DOMAIN mapped} \cup {held[r].bucket : r \in DOMAIN held}
Collected(b) == Restrict(b, DOMAIN b \cap Reachable')

\* Limiter.AllowN: accrue up to the burst, then take one token if there is one.
Accrued(b) == LET t == b.tokens + (tick - b.last)
              IN [tokens |-> IF t > Burst THEN Burst ELSE t, last |-> tick]
Taken(b) == [Accrued(b) EXCEPT !.tokens = @ - 1]

Unseen(m) == {c \in DOMAIN m : tick - m[c].seen > IdleTTL}
LeastSeen(S) == {c \in S : \A d \in S : mapped[c].seen <= mapped[d].seen}

\* b.seen = now
MarkNewOnly(c, b) == [bucket |-> b, seen |-> IF c \in DOMAIN mapped THEN mapped[c].seen ELSE tick]
Mark(c, b) == [bucket |-> b, seen |-> tick]

\* KeyedLimiter.Allow up to its unlock.  A new caller at the cap first sweeps
\* and then evicts the least recently seen; the periodic sweep comes last, when
\* the caller's own bucket is marked as seen.
AllowKey(r, c) ==
  /\ r \notin DOMAIN held
  /\ LET new  == c \notin DOMAIN mapped
         full == new /\ Cardinality(DOMAIN mapped) >= MaxKeys
         left == DOMAIN mapped \ (IF full THEN Unseen(mapped) ELSE {})
         outs == IF new /\ Cardinality(left) >= MaxKeys THEN {{o} : o \in LeastSeen(left)} ELSE {{}}
         gc   == IF full THEN tick ELSE lastGC
         mine == IF new THEN CHOOSE b \in Buckets : b \notin DOMAIN bucket
                 ELSE mapped[c].bucket
     IN /\ \E out \in outs :
             LET marked == [d \in (left \ out) \cup {c} |->
                              IF d = c THEN Mark(c, mine) ELSE mapped[d]]
             IN /\ mapped' = IF tick - gc < IdleTTL THEN marked
                             ELSE Restrict(marked, DOMAIN marked \ Unseen(marked))
                /\ displaced' = displaced \cup out
        /\ held' = [q \in DOMAIN held \cup {r} |->
                      IF q = r THEN [caller |-> c, bucket |-> mine, since |-> tick] ELSE held[q]]
        /\ bucket' = Collected([b \in DOMAIN bucket \cup {mine} |->
                                  IF b = mine /\ new THEN Full ELSE bucket[b]])
        /\ lastGC' = IF tick - gc < IdleTTL THEN gc ELSE tick
  /\ UNCHANGED <<tick, allowance, overdrawn>>

\* lim.Allow, under the bucket's own lock: without a token the answer is 429.
\* `allowance` is drawn down by what is let in, whatever became of the buckets.
Allow(r) ==
  /\ r \in DOMAIN held
  /\ held' = Restrict(held, DOMAIN held \ {r})
  /\ UNCHANGED <<tick, mapped, lastGC, displaced>>
  /\ LET b == held[r].bucket
         c == held[r].caller
     IN IF Accrued(bucket[b]).tokens >= 1
        THEN /\ bucket' = Collected([bucket EXCEPT ![b] = Taken(@)])
             /\ allowance' = [allowance EXCEPT ![c] = IF Accrued(@).tokens < 1 THEN @ ELSE Taken(@)]
             /\ overdrawn' = overdrawn \cup
                  {d \in {c} : Accrued(allowance[d]).tokens < 1}
        ELSE /\ bucket' = Collected([bucket EXCEPT ![b] = Accrued(@)])
             /\ UNCHANGED <<allowance, overdrawn>>

\* No request stands between the two locks for longer than MaxHold.
LimitTick ==
  /\ tick < LastTick
  /\ \A r \in DOMAIN held : tick - held[r].since < MaxHold
  /\ tick' = tick + 1
  /\ UNCHANGED <<bucket, mapped, lastGC, held, allowance, displaced, overdrawn>>

LimitNext ==
  \/ \E r \in Servers : (\E c \in Sources : AllowKey(r, c)) \/ Allow(r)
  \/ LimitTick

LimitSpec == LimitInit /\ [][LimitNext]_limitVars

-----------------------------------------------------------------------------
(* ratelimit.go AllowN, Allow, gcLocked, sweepLocked: what a caller is let in  *)
(* with never exceeds the burst plus the refill since, over any span of time:  *)
(* dropping an idle bucket and giving the caller a new, full one gains it      *)
(* nothing.  A caller whose bucket went because the map was at its cap is      *)
(* excepted: there the code trades the limit for bounded memory.               *)
LimitHolds == overdrawn \subseteq displaced
=============================================================================
