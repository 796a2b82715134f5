----------------------------- MODULE ServiceProofs -----------------------------
(* What the components beside the matching engine keep, for every number of   *)
(* goroutines, programs and payments: the marks of exotics, the deposits that *)
(* are credited, the wallets in the keystore, the payments that are sent,     *)
(* what the seeder believes of the levels it placed, and the dictionaries.    *)
EXTENDS ExoticQuotes, DepositWatch, Keystore, HotWallet, Seeder, ConcurrentDict,
        SumTheorems, WellFoundedInduction

-----------------------------------------------------------------------------
(* Marks of exotics.                                                         *)

QuoteTypes ==
    /\ clock \in Nat
    /\ cached \subseteq [price : Nat, at : Nat, failed : BOOLEAN]
    /\ asker \in [Askers -> [pc : {"idle", "look", "price", "engine"}, now : Nat, index : Nat]]
    /\ quoted \subseteq [price : Nat, asked : Nat, hit : BOOLEAN]

\* An entry rests on an index no older than the time it is dated; a caller's
\* index is read after it asked.
QuoteInv ==
    /\ QuoteTypes
    /\ \A a \in Askers : /\ asker[a].now <= clock
                         /\ asker[a].pc = "engine" => asker[a].now <= asker[a].index
    /\ \A e \in cached : e.at <= e.price
    /\ MarksAreRecent

(* Storing a result that is no older than the question keeps the invariant.  *)
LEMMA KeepQuotes ==
    ASSUME QuoteInv, NEW a \in Askers, NEW p \in Nat, NEW failed \in BOOLEAN,
           asker[a].now <= p, Keep(a, p, failed), UNCHANGED clock
    PROVE  QuoteInv'
<1>1. QuoteTypes /\ asker[a].now \in Nat
  BY DEF QuoteInv, QuoteTypes
<1>2. /\ cached' = {[price |-> p, at |-> asker[a].now, failed |-> failed]}
      /\ asker' = [asker EXCEPT ![a] = NotAsking]
      /\ quoted' = quoted \/ quoted' = {[price |-> p, asked |-> asker[a].now, hit |-> FALSE]}
  BY DEF Keep, Entry, Turn
<1>3. QuoteTypes'
  <2>1. cached' \subseteq [price : Nat, at : Nat, failed : BOOLEAN]
    BY <1>1, <1>2
  <2>2. quoted' \subseteq [price : Nat, asked : Nat, hit : BOOLEAN]
    <3>1. [price |-> p, asked |-> asker[a].now, hit |-> FALSE]
            \in [price : Nat, asked : Nat, hit : BOOLEAN]
      BY <1>1
    <3> QED
      BY <1>1, <1>2, <3>1 DEF QuoteTypes
  <2>3. asker' \in [Askers -> [pc : {"idle", "look", "price", "engine"}, now : Nat, index : Nat]]
    BY <1>1, <1>2 DEF QuoteTypes, NotAsking
  <2> QED
    BY <1>1, <2>1, <2>2, <2>3 DEF QuoteTypes
<1>4. \A b \in Askers : /\ asker'[b].now <= clock'
                        /\ asker'[b].pc = "engine" => asker'[b].now <= asker'[b].index
  BY <1>1, <1>2 DEF QuoteInv, QuoteTypes, NotAsking
<1>5. \A e \in cached' : e.at <= e.price
  BY <1>2
<1>6. MarksAreRecent'
  <2>1. CASE quoted' = quoted
    BY <2>1 DEF QuoteInv, MarksAreRecent
  <2>2. CASE quoted' = {[price |-> p, asked |-> asker[a].now, hit |-> FALSE]}
    BY <1>1, <2>2 DEF MarksAreRecent
  <2> QED
    BY <1>2, <2>1, <2>2
<1> QED
  BY <1>3, <1>4, <1>5, <1>6 DEF QuoteInv

(* Every step keeps marks recent. *)
LEMMA QuoteStep == QuoteInv /\ [QuoteNext]_quoteVars => QuoteInv'
<1> SUFFICES ASSUME QuoteInv, [QuoteNext]_quoteVars PROVE QuoteInv'
  OBVIOUS
<1>0. QuoteTypes /\ \A a \in Askers : asker[a].now \in Nat /\ asker[a].index \in Nat
  BY DEF QuoteInv, QuoteTypes
<1>1. ASSUME NEW a \in Askers, Ask(a) PROVE QuoteInv'
  <2>1. asker' = [asker EXCEPT ![a] = [asker[a] EXCEPT !.pc = "look", !.now = clock]]
    BY <1>1 DEF Ask, Turn
  <2>2. QuoteTypes'
    BY <1>0, <1>1, <2>1 DEF Ask, QuoteTypes
  <2>3. \A b \in Askers : /\ asker'[b].now <= clock
                          /\ asker'[b].pc = "engine" => asker'[b].now <= asker'[b].index
    BY <1>0, <2>1 DEF QuoteInv, QuoteTypes
  <2> QED
    BY <1>1, <2>2, <2>3 DEF QuoteInv, Ask, MarksAreRecent
<1>2. ASSUME NEW a \in Askers, LookUp(a) PROVE QuoteInv'
  <2>1. \/ asker' = [asker EXCEPT ![a] = NotAsking]
        \/ asker' = [asker EXCEPT ![a] = [asker[a] EXCEPT !.pc = "price"]]
    BY <1>2 DEF LookUp, Turn
  <2>2. /\ asker' \in [Askers -> [pc : {"idle", "look", "price", "engine"}, now : Nat, index : Nat]]
        /\ \A b \in Askers : /\ asker'[b].now <= clock
                             /\ asker'[b].pc = "engine" => asker'[b].now <= asker'[b].index
    BY <1>0, <2>1 DEF QuoteInv, QuoteTypes, NotAsking
  <2>3. ASSUME NEW t \in quoted'
        PROVE  /\ t \in [price : Nat, asked : Nat, hit : BOOLEAN]
               /\ t.price > t.asked - (IF t.hit THEN QuoteTTL ELSE 1)
    <3>1. CASE quoted' = quoted
      BY <1>0, <3>1 DEF QuoteInv, QuoteTypes, MarksAreRecent
    <3>2. CASE quoted' = {[price |-> e.price, asked |-> asker[a].now, hit |-> TRUE] :
                             e \in {f \in Fresh(a) : ~f.failed}}
      <4>1. PICK e \in cached : /\ asker[a].now - e.at < QuoteTTL
                                /\ t = [price |-> e.price, asked |-> asker[a].now, hit |-> TRUE]
        BY <3>2 DEF Fresh
      <4>2. e.at <= e.price /\ e.price \in Nat /\ e.at \in Nat
        BY <1>0 DEF QuoteInv, QuoteTypes
      <4> QED
        BY <1>0, <4>1, <4>2, QuoteAssumption DEF QuoteAssumption
    <3> QED
      BY <1>2, <3>1, <3>2 DEF LookUp
  <2> QED
    BY <1>0, <1>2, <2>2, <2>3 DEF QuoteInv, QuoteTypes, LookUp, MarksAreRecent
<1>3. ASSUME NEW a \in Askers, Price(a) PROVE QuoteInv'
  <2>1. CASE Keep(a, clock, TRUE)
    BY <1>0, <1>3, <2>1, KeepQuotes DEF QuoteInv, QuoteTypes, Price
  <2>2. CASE Turn(a, [asker[a] EXCEPT !.pc = "engine", !.index = clock]) /\ UNCHANGED <<cached, quoted>>
    <3>1. asker' = [asker EXCEPT ![a] = [asker[a] EXCEPT !.pc = "engine", !.index = clock]]
      BY <2>2 DEF Turn
    <3>2. QuoteTypes'
      BY <1>0, <1>3, <2>2, <3>1 DEF Price, QuoteTypes
    <3>3. \A b \in Askers : /\ asker'[b].now <= clock
                            /\ asker'[b].pc = "engine" => asker'[b].now <= asker'[b].index
      BY <1>0, <3>1 DEF QuoteInv, QuoteTypes
    <3> QED
      BY <1>3, <2>2, <3>2, <3>3 DEF QuoteInv, Price, MarksAreRecent
  <2> QED
    BY <1>3, <2>1, <2>2 DEF Price
<1>4. ASSUME NEW a \in Askers, Answer(a) PROVE QuoteInv'
  BY <1>0, <1>4, KeepQuotes DEF QuoteInv, Answer
<1>5. CASE QuoteTick
  <2>1. clock' = clock + 1 /\ UNCHANGED <<cached, asker, quoted>>
    BY <1>5 DEF QuoteTick
  <2>2. QuoteTypes' /\ \A b \in Askers : asker[b].now <= clock'
    BY <1>0, <2>1 DEF QuoteInv, QuoteTypes
  <2> QED
    BY <2>1, <2>2 DEF QuoteInv, MarksAreRecent
<1>6. CASE UNCHANGED quoteVars
  BY <1>6 DEF QuoteInv, QuoteTypes, MarksAreRecent, quoteVars
<1> QED
  BY <1>1, <1>2, <1>3, <1>4, <1>5, <1>6 DEF QuoteNext

(* A cached mark rests on an index younger than the cache interval and a     *)
(* fresh one on an index read after the caller asked, however many callers   *)
(* refresh at once and however long the engine takes (market.go exotic).     *)
THEOREM ExoticMarks == QuoteSpec => []MarksAreRecent
<1>1. QuoteInit => QuoteInv
  BY DEF QuoteInit, QuoteInv, QuoteTypes, NotAsking, MarksAreRecent
<1>2. QuoteInv => MarksAreRecent
  BY DEF QuoteInv
<1> QED
  BY <1>1, <1>2, QuoteStep, PTL DEF QuoteSpec

-----------------------------------------------------------------------------
(* Naturals.                                                                 *)

(* A set of naturals that is not empty has a least element. *)
LEMMA LeastNatural ==
    ASSUME NEW S \in SUBSET Nat, S # {}
    PROVE  \E x \in S : \A y \in S : x <= y
<1>1. IsWellFoundedOn(OpToRel(<, Nat), Nat)
  BY NatLessThanWellFounded
<1>2. PICK x \in S : \A y \in S : ~(<<y, x>> \in OpToRel(<, Nat))
  BY <1>1, WFMin
<1>3. ASSUME NEW y \in S PROVE x <= y
  <2>1. ~(<<y, x>> \in OpToRel(<, Nat)) /\ x \in Nat /\ y \in Nat
    BY <1>2
  <2>2. ~(y < x)
    BY <2>1 DEF OpToRel
  <2> QED
    BY ONLY <2>2, x \in Nat, y \in Nat
<1> QED
  BY <1>3

(* One that is bounded has a greatest. *)
LEMMA GreatestNatural ==
    ASSUME NEW n \in Nat, NEW S \in SUBSET (0..n), S # {}
    PROVE  \E x \in S : \A y \in S : y <= x
<1> DEFINE T == {n - x : x \in S}
<1>1. T \in SUBSET Nat /\ T # {}
  <2>1. \A x \in S : n - x \in Nat
    OBVIOUS
  <2> QED
    BY <2>1
<1>2. PICK t \in T : \A u \in T : t <= u
  BY <1>1, LeastNatural
<1>3. PICK x \in S : t = n - x
  OBVIOUS
<1>4. ASSUME NEW y \in S PROVE y <= x
  <2>1. n - x <= n - y
    BY <1>2, <1>3
  <2> QED
    BY <2>1
<1> QED
  BY <1>4

-----------------------------------------------------------------------------
(* Deposits.                                                                 *)

\* What is credited of one entry, on the chains whose cursor moves forward.
Credited(p) ==
    /\ taken[p] =< 1
    /\ p =< from \/ p > mark => taken[p] = 0
    /\ (from < p /\ p =< mark /\ history[p].incoming /\ ~excused) => taken[p] = 1

WatchInv ==
    /\ history \in Seq([incoming : BOOLEAN, block : Nat, topic : {TokenEvent}])
    /\ Len(history) =< MaxEntries /\ block \in Nat /\ from \in Nat
    /\ taken \in [Entries -> Nat] /\ excused \in BOOLEAN
    /\ watched \in {"xlm", "sol"} =>
          /\ mark \in Nat /\ from =< mark /\ mark =< Newest
          /\ \A p \in Entries : Credited(p)

(* A page of the oldest entries leaves none out before its last. *)
LEMMA OldestDownward ==
    ASSUME NEW n \in Nat, NEW S \in SUBSET (1..n), NEW m \in Oldest(S), NEW p \in S, p =< m
    PROVE  p \in Oldest(S)
<1> DEFINE A == {q \in S : q =< p}
           B == {q \in S : q =< m}
<1>1. IsFiniteSet(1..n)
  BY FS_Interval
<1>2. IsFiniteSet(S)
  BY <1>1, FS_Subset
<1>3. B \in SUBSET S /\ A \in SUBSET B
  <2>1. m \in S /\ \A q \in S : q \in Nat
    BY DEF Oldest
  <2>2. \A q \in S : q =< p => q =< m
    BY <2>1
  <2> QED
    BY <2>2
<1>4. IsFiniteSet(B)
  BY <1>2, <1>3, FS_Subset
<1>5. Cardinality(A) =< Cardinality(B) /\ IsFiniteSet(A)
  BY <1>3, <1>4, FS_Subset
<1>6. Cardinality(A) \in Nat /\ Cardinality(B) \in Nat
  BY <1>4, <1>5, FS_CardinalityType
<1>7. Cardinality(B) =< PageLimit
  BY DEF Oldest
<1>8. Cardinality(A) =< PageLimit
  BY <1>5, <1>6, <1>7, DepositAssumption DEF DepositAssumption
<1> QED
  BY <1>8 DEF Oldest

(* A visit credits what it lists and moves the cursor to the last of it.     *)
LEMMA VisitCredits ==
    ASSUME WatchInv, watched \in {"xlm", "sol"}, NEW unread, PollOnce(unread),
           Page(mark) \subseteq After(mark),
           ~excused' => \A m \in Page(mark), p \in After(mark) :
                            p =< m /\ history[p].incoming => p \in Page(mark) \ unread
    PROVE  WatchInv'
<1> DEFINE Pg == Page(mark)
<1>1. /\ history \in Seq([incoming : BOOLEAN, block : Nat, topic : {TokenEvent}])
      /\ Len(history) =< MaxEntries /\ Len(history) \in Nat /\ from \in Nat
      /\ taken \in [Entries -> Nat] /\ excused \in BOOLEAN
      /\ mark \in Nat /\ from =< mark /\ mark =< Newest /\ Newest = Len(history)
  BY DEF WatchInv, Newest
<1>2. Here = 1..Len(history) /\ \A p \in Pg : p \in Here /\ p > mark /\ p \in Nat
  BY <1>1 DEF Here, After
<1>3. /\ \A p \in Entries : taken'[p] = taken[p] + (IF p \in Incoming(Pg) \ unread THEN 1 ELSE 0)
      /\ taken' \in [Entries -> Nat]
      /\ UNCHANGED <<watched, history, block, from>>
      /\ (excused => excused') /\ excused' \in BOOLEAN
  BY <1>1 DEF PollOnce
<1>4. PICK m : m = mark'
  OBVIOUS
<1>5. /\ m \in Nat /\ mark =< m /\ m =< Newest /\ \A p \in Pg : p =< m
      /\ m = mark \/ m \in Pg
  <2>1. CASE Pg = {}
    BY <1>1, <1>4, <2>1 DEF PollOnce, CursorAfter
  <2>2. CASE Pg # {}
    <3>1. Pg \in SUBSET (0..Len(history))
      BY <1>1, <1>2
    <3>2. \E x \in Pg : \A y \in Pg : y =< x
      BY <1>1, <2>2, <3>1, GreatestNatural
    <3>3. m = CHOOSE x \in Pg : \A y \in Pg : y =< x
      BY <1>4, <2>2 DEF PollOnce, CursorAfter
    <3>4. m \in Pg /\ \A y \in Pg : y =< m
      BY <3>2, <3>3
    <3> QED
      BY <1>1, <1>2, <3>4
  <2> QED
    BY <2>1, <2>2
<1>6. ASSUME NEW p \in Entries PROVE Credited(p)'
  <2>1. /\ taken[p] =< 1 /\ taken[p] \in Nat /\ p \in Nat
        /\ p =< from \/ p > mark => taken[p] = 0
        /\ (from < p /\ p =< mark /\ history[p].incoming /\ ~excused) => taken[p] = 1
    BY <1>1, DepositAssumption DEF WatchInv, Credited, Entries, DepositAssumption
  <2>2. CASE p \in Incoming(Pg) \ unread
    <3>1. p \in Pg
      BY <2>2 DEF Incoming
    <3>2. p > mark /\ p =< m
      BY <1>2, <1>5, <3>1
    <3>3. taken'[p] = 1
      BY <1>3, <2>1, <2>2, <3>2
    <3>4. ~(p =< from) /\ ~(p > m)
      BY <1>1, <1>5, <2>1, <3>2
    <3> QED
      BY <1>3, <1>4, <3>3, <3>4 DEF Credited
  <2>3. CASE p \notin Incoming(Pg) \ unread
    <3>1. taken'[p] = taken[p]
      BY <1>3, <2>1, <2>3
    <3>2. p =< from \/ p > m => taken[p] = 0
      BY <1>1, <1>5, <2>1
    <3>3. ASSUME from < p, p =< m, history[p].incoming, ~excused' PROVE p =< mark
      <4>1. SUFFICES ASSUME ~(p =< mark) PROVE FALSE
        OBVIOUS
      <4>2. m \in Pg
        BY <1>1, <1>5, <2>1, <3>3, <4>1
      <4>3. p \in After(mark)
        BY <1>1, <1>2, <1>5, <2>1, <3>3, <4>1 DEF After
      <4>4. p \in Pg \ unread
        BY <3>3, <4>2, <4>3
      <4>5. p \in Incoming(Pg) \ unread
        BY <3>3, <4>4 DEF Incoming
      <4> QED
        BY <2>3, <4>5
    <3>4. (from < p /\ p =< m /\ history[p].incoming /\ ~excused') => taken[p] = 1
      BY <1>3, <2>1, <3>3
    <3> QED
      BY <1>3, <1>4, <2>1, <3>1, <3>2, <3>4 DEF Credited
  <2> QED
    BY <2>2, <2>3
<1>7. from =< m
  BY <1>1, <1>5
<1>8. mark' \in Nat /\ from' =< mark' /\ mark' =< Newest'
  BY <1>3, <1>4, <1>5, <1>7 DEF Newest
<1>9. /\ history' \in Seq([incoming : BOOLEAN, block : Nat, topic : {TokenEvent}])
      /\ Len(history') =< MaxEntries /\ block' \in Nat /\ from' \in Nat
  BY <1>1, <1>3 DEF WatchInv
<1> QED
  BY <1>3, <1>6, <1>8, <1>9 DEF WatchInv

(* A visit, on whatever chain. *)
LEMMA PollWatch ==
    ASSUME WatchInv, NEW unread, PollOnce(unread) PROVE WatchInv'
<1>1. /\ history \in Seq([incoming : BOOLEAN, block : Nat, topic : {TokenEvent}])
      /\ Len(history) \in Nat /\ Here = 1..Len(history)
  BY DEF WatchInv, Here
<1>2. CASE watched = "xlm"
  <2>1. Page(mark) = Incoming(Oldest(After(mark))) /\ unread = {}
    BY <1>2 DEF Page, PollOnce
  <2>2. After(mark) \in SUBSET (1..Len(history))
    BY <1>1 DEF After
  <2>3. Page(mark) \subseteq After(mark)
    BY <2>1 DEF Incoming, Oldest
  <2>4. ASSUME NEW m \in Page(mark), NEW p \in After(mark), p =< m, history[p].incoming
        PROVE  p \in Page(mark) \ unread
    <3>1. m \in Oldest(After(mark))
      BY <2>1 DEF Incoming
    <3>2. p \in Oldest(After(mark))
      BY <1>1, <2>2, <2>4, <3>1, OldestDownward
    <3> QED
      BY <2>1, <2>4, <3>2 DEF Incoming
  <2> QED
    BY <1>2, <2>3, <2>4, VisitCredits
<1>3. CASE watched = "sol"
  <2>1. Page(mark) = Latest25(After(mark))
    BY <1>3 DEF Page
  <2>2. Page(mark) \subseteq After(mark)
    BY <2>1 DEF Latest25
  <2>3. ~excused' => Page(mark) = After(mark) /\ unread = {}
    BY <1>3 DEF PollOnce
  <2>4. ~excused' => \A m \in Page(mark), p \in After(mark) :
                          p =< m /\ history[p].incoming => p \in Page(mark) \ unread
    BY <2>3
  <2> QED
    BY <1>3, <2>2, <2>4, VisitCredits
<1>4. CASE watched \notin {"xlm", "sol"}
  <2>1. taken' \in [Entries -> Nat]
    BY DEF WatchInv, PollOnce
  <2> QED
    BY <1>4, <2>1 DEF WatchInv, PollOnce
<1> QED
  BY <1>2, <1>3, <1>4

(* A new entry comes after the cursor. *)
LEMMA ArrivalWatch ==
    ASSUME WatchInv, NEW incoming \in BOOLEAN, PaymentArrives(incoming) PROVE WatchInv'
<1>1. /\ history \in Seq([incoming : BOOLEAN, block : Nat, topic : {TokenEvent}])
      /\ Len(history) \in Nat /\ block \in Nat /\ Len(history) < MaxEntries
  BY DEF WatchInv, PaymentArrives, Newest
<1>2. /\ history' = Append(history, [incoming |-> incoming, block |-> block, topic |-> TokenEvent])
      /\ UNCHANGED <<watched, block, mark, taken, from, excused>>
  BY DEF PaymentArrives
<1>3. [incoming |-> incoming, block |-> block, topic |-> TokenEvent]
        \in [incoming : BOOLEAN, block : Nat, topic : {TokenEvent}]
  BY <1>1
<1>4. /\ history' \in Seq([incoming : BOOLEAN, block : Nat, topic : {TokenEvent}])
      /\ Len(history') = Len(history) + 1
      /\ \A p \in 1..Len(history) : history'[p] = history[p]
  BY <1>1, <1>2, <1>3
<1>5. Len(history') =< MaxEntries
  BY <1>1, <1>4, DepositAssumption DEF DepositAssumption
<1>6. ASSUME watched \in {"xlm", "sol"}
      PROVE  /\ mark \in Nat /\ from =< mark /\ mark =< Len(history')
             /\ \A p \in Entries : Credited(p)'
  <2>1. /\ mark \in Nat /\ from =< mark /\ mark =< Len(history) /\ from \in Nat
        /\ \A p \in Entries : Credited(p) /\ p \in Nat
    BY <1>6, DepositAssumption DEF WatchInv, Newest, Entries, DepositAssumption
  <2>2. \A p \in Entries : from < p /\ p =< mark => history'[p] = history[p]
    <3>1. \A p \in Nat : from < p /\ p =< mark => p \in 1..Len(history)
      BY <1>1, <2>1
    <3> QED
      BY <1>4, <2>1, <3>1
  <2>3. \A p \in Entries : Credited(p)'
    BY <1>2, <2>1, <2>2 DEF Credited
  <2>4. mark =< Len(history')
    BY <1>1, <1>4, <2>1
  <2> QED
    BY <2>1, <2>3, <2>4
<1> QED
  BY <1>1, <1>2, <1>4, <1>5, <1>6 DEF WatchInv, Newest

(* A function on 1..n is a sequence of length n. *)
LEMMA TupleIsSeq ==
    ASSUME NEW R, NEW n \in Nat, NEW f \in [1..n -> R] PROVE f \in Seq(R) /\ Len(f) = n
OBVIOUS

(* Wherever the first run or a later one starts. *)
LEMMA WatchStarts == WatchInit => WatchInv
<1> SUFFICES ASSUME WatchInit PROVE WatchInv
  OBVIOUS
<1>1. PICK n \in 0..2 : history \in [1..n -> [incoming : BOOLEAN, block : {0}, topic : {TokenEvent}]]
  BY DEF WatchInit, Histories
<1>2. history \in [1..n -> [incoming : BOOLEAN, block : Nat, topic : {TokenEvent}]]
  BY <1>1
<1>3. history \in Seq([incoming : BOOLEAN, block : Nat, topic : {TokenEvent}]) /\ Len(history) = n
  <2>1. n \in Nat
    BY <1>1
  <2> QED
    BY <1>2, <2>1, TupleIsSeq
<1>4. from \in 0..n /\ Len(history) =< MaxEntries
  BY <1>3 DEF WatchInit
<1>5. watched \in {"xlm", "sol"} => mark = from
  BY <1>3 DEF WatchInit, Tip, Newest
<1>6. \A p \in Entries : taken[p] = 0
  BY DEF WatchInit
<1>7. watched \in {"xlm", "sol"} => \A p \in Entries : Credited(p)
  BY <1>4, <1>5, <1>6, DepositAssumption DEF Credited, Entries, DepositAssumption
<1>8. taken \in [Entries -> Nat] /\ excused \in BOOLEAN /\ block \in Nat
  BY DEF WatchInit
<1> QED
  BY <1>3, <1>4, <1>5, <1>7, <1>8 DEF WatchInv, Newest

(* On Stellar and Solana a deposit is credited once, and one from before the  *)
(* first poll never, whatever the page size and however many arrive between  *)
(* two polls; the cursor leaves one behind only if it was not inspected or   *)
(* did not fit the page (watch_stellar.go, watch_solana.go, hub.go poll).    *)
THEOREM DepositsOnce == WatchSpec => []TakenOnce
<1>1. WatchInv /\ [WatchNext]_depositVars => WatchInv'
  <2> SUFFICES ASSUME WatchInv, [WatchNext]_depositVars PROVE WatchInv'
    OBVIOUS
  <2>1. CASE NextBlock
    BY <2>1 DEF NextBlock, WatchInv, Credited, Newest
  <2>2. CASE UNCHANGED depositVars
    BY <2>2 DEF depositVars, WatchInv, Credited, Newest
  <2> QED
    BY <2>1, <2>2, ArrivalWatch, PollWatch DEF WatchNext
<1>2. WatchInv => TakenOnce
  <2> SUFFICES ASSUME WatchInv, watched \in {"xlm", "sol"}, NEW p \in Here
               PROVE  /\ taken[p] =< 1
                      /\ p =< from => taken[p] = 0
                      /\ (from < p /\ p =< mark /\ history[p].incoming /\ ~excused) => taken[p] = 1
    BY DEF TakenOnce
  <2>1. p \in Entries
    <3>1. history \in Seq([incoming : BOOLEAN, block : Nat, topic : {TokenEvent}])
          /\ Len(history) =< MaxEntries
      BY DEF WatchInv
    <3> QED
      BY <3>1, DepositAssumption DEF Here, Entries, DepositAssumption
  <2> QED
    BY <2>1 DEF WatchInv, Credited
<1> QED
  BY <1>1, <1>2, WatchStarts, PTL DEF WatchSpec

-----------------------------------------------------------------------------
(* The keystore.                                                             *)

\* What a file that parses says: the seeds of some wallets.
Maps == UNION {[S -> Nat] : S \in SUBSET Wallets}
Program == [pc : {"idle", "open", "opened", "truncate", "write", "sync", "rename"},
            wants : {{}} \cup {{n} : n \in Wallets}, mem : Maps, fd : Inodes \cup {NoFile}, seed : Nat]

KeyTypes ==
    /\ {path, tmp, disk} \subseteq Inodes \cup {NoFile}
    /\ inode \in [Inodes -> [data : Maps \cup {Torn}, synced : BOOLEAN]]
    /\ prog \in [Programs -> Program] /\ drawn \in Nat
    /\ promised \in Maps /\ settled \in Maps

\* These wallets are there, or later ones of their names.
Covers(m, names) == \A n \in DOMAIN names : n \in DOMAIN m /\ m[n] >= names[n]

\* A directory entry leads to a flushed file with these wallets.
KeptFile(f, names) ==
    IF f = NoFile THEN DOMAIN names = {}
    ELSE inode[f].synced /\ inode[f].data \in Maps /\ Covers(inode[f].data, names)

\* How far a program that is alone has got.
Working(p) ==
    LET r == prog[p] IN
    /\ r.pc = "idle" => r = NotRunning
    /\ r.pc \in {"open", "opened", "truncate"} => r.fd = NoFile
    /\ r.pc \in {"open", "opened"} => r.seed = 0
    /\ r.seed =< drawn
    /\ r.pc \in {"opened", "truncate", "write", "sync", "rename"} =>
          /\ Covers(r.mem, promised)
          /\ r.seed # 0 => \A n \in r.wants : n \in DOMAIN r.mem /\ r.mem[n] >= r.seed
    /\ r.pc \in {"write", "sync", "rename"} => r.fd = tmp /\ tmp # NoFile
    /\ r.pc = "write" => inode[tmp].data = Torn
    /\ r.pc \in {"sync", "rename"} => inode[tmp].data = r.mem
    /\ r.pc = "rename" => inode[tmp].synced

KeyGood ==
    /\ KeyTypes
    /\ \A p, q \in Busy : p = q
    /\ KeptFile(path, promised) /\ KeptFile(disk, settled)
    /\ tmp = NoFile \/ (tmp # path /\ tmp # disk)
    /\ \A n \in DOMAIN promised : promised[n] =< drawn
    /\ \A n \in DOMAIN settled : settled[n] =< drawn
    /\ \A p \in Programs : Working(p)

KeyInv == overlapped \in BOOLEAN /\ (~overlapped => KeyGood)

(* The names of files and what is in them.                                   *)
LEMMA KeyFacts ==
    /\ Inodes \subseteq Nat /\ {1, 2, 3} \subseteq Inodes
    /\ NoFile \notin Inodes /\ Torn \notin Maps /\ NoWallets \in Maps
    /\ NotRunning \in Program /\ NotRunning.pc = "idle"
<1>1. Cardinality(Programs) \in Nat
  BY KeystoreAssumption, FS_CardinalityType DEF KeystoreAssumption
<1>2. Inodes \subseteq Nat /\ {1, 2, 3} \subseteq Inodes
  BY <1>1 DEF Inodes
<1>3. NoFile \notin Inodes /\ Torn \notin Maps
  BY KeystoreAssumption DEF KeystoreAssumption, Inodes, Maps
<1>4. NoWallets \in Maps
  <2>1. NoWallets \in [{} -> Nat]
    BY DEF NoWallets
  <2> QED
    BY <2>1 DEF Maps
<1>5. NotRunning \in Program /\ NotRunning.pc = "idle"
  BY <1>4 DEF NotRunning, Program
<1> QED
  BY <1>2, <1>3, <1>4, <1>5

(* Adding a wallet to a map. *)
LEMMA MapsAdd ==
    ASSUME NEW m \in Maps, NEW W \in SUBSET Wallets, NEW v \in Nat, NEW k,
           k = [n \in DOMAIN m \cup W |-> IF n \in W THEN v ELSE m[n]]
    PROVE  /\ k \in Maps /\ DOMAIN k = DOMAIN m \cup W
           /\ \A n \in W : k[n] = v
           /\ \A n \in DOMAIN m \ W : k[n] = m[n]
<1>1. PICK S \in SUBSET Wallets : m \in [S -> Nat]
  BY DEF Maps
<1>2. DOMAIN m = S /\ \A n \in S : m[n] \in Nat
  BY <1>1
<1>3. k \in [S \cup W -> Nat] /\ S \cup W \in SUBSET Wallets
  BY <1>2
<1>4. k \in Maps
  BY <1>3 DEF Maps
<1> QED
  BY <1>2, <1>4

(* A step of the one program that runs. *)
LEMMA GoesAlone ==
    ASSUME KeyGood, NEW p \in Programs, p \in Busy, NEW r \in Program, Goes(p, r)
    PROVE  /\ prog' \in [Programs -> Program] /\ prog'[p] = r
           /\ \A q \in Programs \ {p} : prog'[q] = NotRunning
           /\ \A a, b \in Busy' : a = b
<1>1. prog \in [Programs -> Program]
  BY DEF KeyGood, KeyTypes
<1>2. \A q \in Programs \ {p} : prog[q] = NotRunning
  BY DEF KeyGood, Busy, Working
<1>3. prog' \in [Programs -> Program] /\ prog'[p] = r /\ \A q \in Programs \ {p} : prog'[q] = prog[q]
  BY <1>1 DEF Goes
<1>4. Busy' \subseteq {p}
  BY <1>2, <1>3, KeyFacts DEF Busy
<1> QED
  BY <1>2, <1>3, <1>4

(* An idle program meets what is asked of it. *)
LEMMA IdleWorks ==
    ASSUME NEW p \in Programs, prog[p] = NotRunning, drawn \in Nat PROVE Working(p)
BY DEF Working, NotRunning

(* A program goes on, and files and promises stay. *)
LEMMA ProgramOnly ==
    ASSUME KeyGood, NEW p \in Programs, p \in Busy, NEW r \in Program, Goes(p, r),
           SameFiles, UNCHANGED <<promised, settled>>, drawn' \in Nat, drawn =< drawn', Working(p)'
    PROVE  KeyGood'
<1>1. /\ prog' \in [Programs -> Program]
      /\ \A q \in Programs \ {p} : prog'[q] = NotRunning
      /\ \A a, b \in Busy' : a = b
  BY GoesAlone
<1>2. KeyTypes /\ UNCHANGED <<path, tmp, disk, inode, promised, settled>>
  BY DEF KeyGood, SameFiles
<1>3. KeyTypes'
  BY <1>1, <1>2 DEF KeyTypes
<1>4. KeptFile(path, promised)' /\ KeptFile(disk, settled)'
  BY <1>2 DEF KeyGood, KeptFile, Covers
<1>5. \A q \in Programs : Working(q)'
  BY <1>1, IdleWorks, drawn' \in Nat DEF Working, NotRunning
<1>6. /\ \A n \in DOMAIN promised : promised[n] =< drawn'
      /\ \A n \in DOMAIN settled : settled[n] =< drawn'
  <2>1. \A n \in DOMAIN promised : promised[n] \in Nat /\ promised[n] =< drawn
    BY <1>2 DEF KeyGood, KeyTypes, Maps
  <2>2. \A n \in DOMAIN settled : settled[n] \in Nat /\ settled[n] =< drawn
    BY <1>2 DEF KeyGood, KeyTypes, Maps
  <2>3. drawn \in Nat
    BY <1>2 DEF KeyTypes
  <2> QED
    BY <2>1, <2>2, <2>3
<1>7. tmp' = NoFile \/ (tmp' # path' /\ tmp' # disk')
  BY <1>2 DEF KeyGood
<1> QED
  BY <1>1, <1>2, <1>3, <1>4, <1>5, <1>6, <1>7 DEF KeyGood

(* A program starts: alone, unless from now on two overlap. *)
LEMMA RunKeeps ==
    ASSUME KeyGood, NEW p \in Programs, Run(p), Busy = {} PROVE KeyGood'
<1>1. PICK wants \in {{}} \cup {{n} : n \in Wallets} :
          Goes(p, [NotRunning EXCEPT !.pc = "open", !.wants = wants])
  BY DEF Run
<1>2. PICK r : r = [NotRunning EXCEPT !.pc = "open", !.wants = wants]
  OBVIOUS
<1>3. r \in Program /\ r.pc = "open" /\ r.fd = NoFile /\ r.seed = 0
  BY <1>2, KeyFacts DEF NotRunning, Program
<1>4. KeyTypes /\ UNCHANGED <<path, tmp, disk, inode, promised, settled, drawn>>
  BY DEF KeyGood, Run, SameFiles, SamePromises
<1>5. \A q \in Programs : prog[q] = NotRunning
  BY DEF KeyGood, Busy, Working
<1>6. /\ prog' \in [Programs -> Program] /\ prog'[p] = r
      /\ \A q \in Programs \ {p} : prog'[q] = NotRunning
  BY <1>1, <1>2, <1>3, <1>4, <1>5 DEF Goes, KeyTypes
<1>7. KeyTypes'
  BY <1>4, <1>6 DEF KeyTypes
<1>8. Busy' \subseteq {p}
  BY <1>6, KeyFacts DEF Busy
<1>9. KeptFile(path, promised)' /\ KeptFile(disk, settled)'
  BY <1>4 DEF KeyGood, KeptFile, Covers
<1>10. drawn' \in Nat
  BY <1>4 DEF KeyTypes
<1>11. Working(p)'
  BY <1>3, <1>6, <1>10 DEF Working
<1>12. \A q \in Programs : Working(q)'
  BY <1>6, <1>10, <1>11 DEF Working, NotRunning
<1> QED
  BY <1>4, <1>7, <1>8, <1>9, <1>12 DEF KeyGood

(* Any program may end, whatever it was at. *)
LEMMA EndsKeep ==
    ASSUME KeyGood, NEW p \in Programs, p \in Busy, Goes(p, NotRunning),
           SameFiles, UNCHANGED <<promised, settled, drawn>>
    PROVE  KeyGood'
<1>1. prog'[p] = NotRunning /\ NotRunning \in Program
  BY GoesAlone, KeyFacts
<1>2. drawn' \in Nat /\ drawn =< drawn'
  BY DEF KeyGood, KeyTypes
<1>3. Working(p)'
  BY <1>1, <1>2 DEF Working, NotRunning
<1> QED
  BY <1>1, <1>2, <1>3, ProgramOnly

(* Open reads what the path leads to. *)
LEMMA OpenKeeps ==
    ASSUME KeyGood, NEW p \in Programs, Open(p) PROVE KeyGood'
<1>1. /\ p \in Busy /\ SameFiles /\ UNCHANGED <<promised, settled, drawn>>
      /\ prog[p].pc = "open" /\ KeyTypes /\ prog[p] \in Program /\ Working(p)
  BY DEF Open, Busy, SamePromises, KeyGood, KeyTypes
<1>2. prog[p].fd = NoFile /\ prog[p].seed = 0 /\ drawn \in Nat /\ drawn =< drawn' /\ drawn' \in Nat
  BY <1>1 DEF Working, KeyTypes
<1>3. CASE path = NoFile /\ Goes(p, [prog[p] EXCEPT !.pc = "truncate"])
  <2>1. PICK r : r = [prog[p] EXCEPT !.pc = "truncate"]
    OBVIOUS
  <2>2. r \in Program /\ r.pc = "truncate" /\ r.fd = NoFile /\ r.seed = 0
    BY <1>1, <1>2, <2>1 DEF Program
  <2>3. prog'[p] = r
    BY <1>1, <1>3, <2>1, <2>2, GoesAlone
  <2>4. DOMAIN promised' = {}
    BY <1>1, <1>3 DEF KeyGood, KeptFile
  <2>5. Working(p)'
    BY <1>2, <2>2, <2>3, <2>4 DEF Working, Covers
  <2> QED
    BY <1>1, <1>2, <1>3, <2>1, <2>2, <2>5, ProgramOnly
<1>4. CASE path # NoFile /\ inode[path].data = Torn /\ Goes(p, NotRunning)
  BY <1>1, <1>4, EndsKeep
<1>5. CASE path # NoFile /\ Goes(p, [prog[p] EXCEPT !.mem = inode[path].data, !.pc = "opened"])
  <2>1. PICK r : r = [prog[p] EXCEPT !.mem = inode[path].data, !.pc = "opened"]
    OBVIOUS
  <2>2. inode[path].data \in Maps /\ Covers(inode[path].data, promised)
    BY <1>5 DEF KeyGood, KeptFile
  <2>3. r \in Program /\ r.pc = "opened" /\ r.fd = NoFile /\ r.seed = 0 /\ r.mem = inode[path].data
    BY <1>1, <1>2, <2>1, <2>2 DEF Program
  <2>4. prog'[p] = r
    BY <1>1, <1>5, <2>1, <2>3, GoesAlone
  <2>5. Covers(r.mem, promised')
    BY <1>1, <2>2, <2>3
  <2>6. Working(p)'
    BY <1>2, <2>3, <2>4, <2>5 DEF Working
  <2> QED
    BY <1>1, <1>2, <1>5, <2>1, <2>3, <2>6, ProgramOnly
<1> QED
  BY <1>3, <1>4, <1>5 DEF Open

(* Put adds a seed that is later than all that were promised. *)
LEMMA PutKeeps ==
    ASSUME KeyGood, NEW p \in Programs, Put(p) PROVE KeyGood'
<1>1. /\ p \in Busy /\ SameFiles /\ UNCHANGED <<promised, settled>>
      /\ prog[p].pc = "opened" /\ KeyTypes /\ prog[p] \in Program /\ Working(p)
  BY DEF Put, Busy, SamePromises, KeyGood, KeyTypes
<1>2. prog[p].fd = NoFile /\ prog[p].seed = 0 /\ drawn \in Nat /\ Covers(prog[p].mem, promised)
  BY <1>1 DEF Working, KeyTypes
<1>3. CASE Goes(p, NotRunning) /\ UNCHANGED drawn
  BY <1>1, <1>3, EndsKeep
<1>4. ASSUME NEW n \in prog[p].wants, drawn' = drawn + 1, NEW r, Goes(p, r),
             r = [prog[p] EXCEPT !.pc = "truncate", !.seed = drawn + 1,
                    !.mem = [k \in DOMAIN @ \cup {n} |-> IF k = n THEN drawn + 1 ELSE @[k]]]
      PROVE  KeyGood'
  <2>1. PICK m : m = [k \in DOMAIN prog[p].mem \cup {n} |-> IF k \in {n} THEN drawn + 1 ELSE prog[p].mem[k]]
    OBVIOUS
  <2>2. prog[p].wants = {n} /\ {n} \in SUBSET Wallets /\ prog[p].mem \in Maps /\ drawn + 1 \in Nat
    BY <1>1, <1>2 DEF Program
  <2>3. m \in Maps /\ DOMAIN m = DOMAIN prog[p].mem \cup {n} /\ m[n] = drawn + 1
        /\ \A k \in DOMAIN prog[p].mem \ {n} : m[k] = prog[p].mem[k]
    <3>1. PICK old, W, v : old = prog[p].mem /\ W = {n} /\ v = drawn + 1
      OBVIOUS
    <3>2. m = [k \in DOMAIN old \cup W |-> IF k \in W THEN v ELSE old[k]]
      BY <2>1, <3>1
    <3>3. old \in Maps /\ W \in SUBSET Wallets /\ v \in Nat
      BY <2>2, <3>1
    <3>4. /\ m \in Maps /\ DOMAIN m = DOMAIN old \cup W
          /\ \A k \in W : m[k] = v
          /\ \A k \in DOMAIN old \ W : m[k] = old[k]
      BY ONLY <3>2, <3>3, MapsAdd
    <3> QED
      BY <3>1, <3>4
  <2>4. r = [prog[p] EXCEPT !.pc = "truncate", !.seed = drawn + 1, !.mem = m]
    BY <1>1, <1>4, <2>1 DEF Program
  <2>5. /\ r \in Program /\ r.pc = "truncate" /\ r.fd = NoFile /\ r.seed = drawn + 1
        /\ r.mem = m /\ r.wants = {n}
    BY <1>1, <1>2, <1>4, <2>2, <2>3, <2>4 DEF Program
  <2>6. Covers(m, promised')
    <3>1. ASSUME NEW k \in DOMAIN promised PROVE k \in DOMAIN m /\ m[k] >= promised[k]
      <4>1. promised[k] \in Nat /\ promised[k] =< drawn
        BY <1>1 DEF KeyGood, KeyTypes, Maps
      <4>2. k \in DOMAIN prog[p].mem /\ prog[p].mem[k] >= promised[k]
        BY <1>2 DEF Covers
      <4>3. CASE k = n
        BY <1>2, <2>3, <4>1, <4>3
      <4>4. CASE k # n
        BY <2>3, <4>2, <4>4
      <4> QED
        BY <4>3, <4>4
    <3> QED
      BY <1>1, <3>1 DEF Covers
  <2>7. prog'[p] = r
    BY <1>1, <1>4, <2>5, GoesAlone
  <2>8. \A k \in r.wants : k \in DOMAIN r.mem /\ r.mem[k] >= r.seed
    BY <1>2, <2>3, <2>5
  <2>9. drawn' \in Nat /\ drawn =< drawn' /\ r.seed =< drawn'
    BY <1>2, <1>4, <2>5
  <2>10. Working(p)'
    BY <2>5, <2>6, <2>7, <2>8, <2>9 DEF Working
  <2> QED
    BY <1>1, <1>4, <2>5, <2>9, <2>10, ProgramOnly
<1> QED
  BY <1>3, <1>4 DEF Put

(* Truncate takes a file that no entry of the directory leads to but tmp.    *)
LEMMA TruncateKeeps ==
    ASSUME KeyGood, NEW p \in Programs, Truncate(p) PROVE KeyGood'
<1>1. /\ p \in Busy /\ UNCHANGED <<path, disk, promised, settled, drawn>>
      /\ prog[p].pc = "truncate" /\ KeyTypes /\ prog[p] \in Program /\ Working(p)
      /\ drawn \in Nat
  BY DEF Truncate, Busy, SamePromises, KeyGood, KeyTypes
<1>2. PICK i : i = tmp'
  OBVIOUS
<1>3. i \in Inodes /\ i # path /\ i # disk
  <2>1. CASE tmp # NoFile
    BY <1>1, <1>2, <2>1 DEF Truncate, KeyGood, KeyTypes
  <2>2. CASE tmp = NoFile
    <3>1. \A q \in Programs : prog[q].fd = NoFile
      <4>1. prog[p].fd = NoFile
        BY <1>1 DEF Working
      <4>2. \A q \in Programs \ {p} : prog[q] = NotRunning
        BY <1>1 DEF KeyGood, Busy, Working
      <4> QED
        BY <4>1, <4>2 DEF NotRunning
    <3>2. FreeInodes = Inodes \ {path, disk}
      <4>1. {prog[q].fd : q \in Programs} = {NoFile}
        BY <3>1
      <4> QED
        BY <2>2, <4>1, KeyFacts DEF FreeInodes
    <3>3. FreeInodes # {}
      <4>1. ~({1, 2, 3} \subseteq {path, disk})
        OBVIOUS
      <4> QED
        BY <3>2, <4>1, KeyFacts
    <3>4. FreeInodes \in SUBSET Nat
      BY <3>2, KeyFacts
    <3>5. \E f \in FreeInodes : \A g \in FreeInodes : f <= g
      BY <3>3, <3>4, LeastNatural
    <3>6. i = CHOOSE f \in FreeInodes : \A g \in FreeInodes : f <= g
      BY <1>2, <2>2 DEF Truncate
    <3>7. i \in FreeInodes
      BY <3>5, <3>6
    <3> QED
      BY <3>2, <3>7
  <2> QED
    BY <2>1, <2>2
<1>4. /\ inode' = [inode EXCEPT ![i] = [data |-> Torn, synced |-> FALSE]]
      /\ Goes(p, [prog[p] EXCEPT !.fd = i, !.pc = "write"])
  BY <1>2 DEF Truncate
<1>5. PICK r : r = [prog[p] EXCEPT !.fd = i, !.pc = "write"]
  OBVIOUS
<1>6. /\ r \in Program /\ r.pc = "write" /\ r.fd = i
      /\ r.seed = prog[p].seed /\ r.mem = prog[p].mem /\ r.wants = prog[p].wants
  BY <1>1, <1>3, <1>5 DEF Program
<1>7. /\ prog' \in [Programs -> Program] /\ prog'[p] = r
      /\ \A q \in Programs \ {p} : prog'[q] = NotRunning
      /\ \A a, b \in Busy' : a = b
  BY <1>1, <1>4, <1>5, <1>6, GoesAlone
<1>8. /\ inode' \in [Inodes -> [data : Maps \cup {Torn}, synced : BOOLEAN]]
      /\ inode'[i].data = Torn /\ \A j \in Inodes \ {i} : inode'[j] = inode[j]
  BY <1>1, <1>3, <1>4 DEF KeyTypes
<1>9. KeyTypes'
  BY <1>1, <1>2, <1>3, <1>7, <1>8 DEF KeyTypes
<1>10. KeptFile(path, promised)' /\ KeptFile(disk, settled)'
  <2>1. {path, disk} \subseteq Inodes \cup {NoFile}
    BY <1>1 DEF KeyTypes
  <2> QED
    BY <1>1, <1>3, <1>8, <2>1 DEF KeyGood, KeptFile, Covers
<1>11. Working(p)'
  BY <1>1, <1>2, <1>3, <1>6, <1>7, <1>8, KeyFacts DEF Working, Covers
<1>12. \A q \in Programs : Working(q)'
  BY <1>1, <1>7, <1>11 DEF Working, NotRunning
<1> QED
  BY <1>1, <1>2, <1>3, <1>7, <1>9, <1>10, <1>12 DEF KeyGood

(* Writing and flushing the temporary file touches neither path nor disk.    *)
LEMMA WriteKeeps ==
    ASSUME KeyGood, NEW p \in Programs, WriteTmp(p) \/ Sync(p) PROVE KeyGood'
<1>1. /\ p \in Busy /\ UNCHANGED <<path, tmp, disk, promised, settled, drawn>>
      /\ prog[p].pc \in {"write", "sync"} /\ KeyTypes /\ prog[p] \in Program /\ Working(p)
      /\ drawn \in Nat
  BY DEF WriteTmp, Sync, Busy, SamePromises, KeyGood, KeyTypes
<1>2. /\ prog[p].fd = tmp /\ tmp \in Inodes /\ tmp # path /\ tmp # disk
      /\ prog[p].mem \in Maps /\ prog[p].seed =< drawn
      /\ Covers(prog[p].mem, promised)
      /\ prog[p].seed # 0 => \A n \in prog[p].wants :
             n \in DOMAIN prog[p].mem /\ prog[p].mem[n] >= prog[p].seed
  BY <1>1 DEF Working, KeyGood, KeyTypes, Program
<1>3. PICK to \in {"sync", "rename"} :
         /\ Goes(p, [prog[p] EXCEPT !.pc = to])
         /\ inode' \in [Inodes -> [data : Maps \cup {Torn}, synced : BOOLEAN]]
         /\ \A j \in Inodes \ {tmp} : inode'[j] = inode[j]
         /\ inode'[tmp].data = prog[p].mem
         /\ to = "rename" => inode'[tmp].synced
  <2>1. CASE WriteTmp(p)
    <3>1. inode[tmp].data = Torn /\ prog[p].pc = "write"
      BY <1>1, <2>1 DEF WriteTmp, Working
    <3>2. inode' = [inode EXCEPT ![tmp] = [data |-> prog[p].mem, synced |-> FALSE]]
      BY <1>1, <1>2, <2>1, <3>1 DEF WriteTmp, Overlay, KeyTypes
    <3>3. Goes(p, [prog[p] EXCEPT !.pc = "sync"])
      BY <2>1 DEF WriteTmp
    <3>4. [data |-> prog[p].mem, synced |-> FALSE] \in [data : Maps \cup {Torn}, synced : BOOLEAN]
      BY <1>2
    <3>5. /\ inode' \in [Inodes -> [data : Maps \cup {Torn}, synced : BOOLEAN]]
          /\ \A j \in Inodes \ {tmp} : inode'[j] = inode[j]
          /\ inode'[tmp].data = prog[p].mem
      BY <1>1, <1>2, <3>2, <3>4 DEF KeyTypes
    <3> QED
      BY <3>3, <3>5
  <2>2. CASE Sync(p)
    <3>1. inode[tmp].data = prog[p].mem /\ prog[p].pc = "sync"
      BY <1>1, <2>2 DEF Sync, Working
    <3>2. inode' = [inode EXCEPT ![tmp] = [@ EXCEPT !.synced = TRUE]]
      BY <1>1, <1>2, <2>2 DEF Sync
    <3>3. Goes(p, [prog[p] EXCEPT !.pc = "rename"])
      BY <2>2 DEF Sync
    <3>4. /\ inode' \in [Inodes -> [data : Maps \cup {Torn}, synced : BOOLEAN]]
          /\ \A j \in Inodes \ {tmp} : inode'[j] = inode[j]
          /\ inode'[tmp].data = prog[p].mem /\ inode'[tmp].synced
      BY <1>1, <1>2, <3>1, <3>2 DEF KeyTypes
    <3> QED
      BY <3>3, <3>4
  <2> QED
    BY <2>1, <2>2
<1>4. PICK r : r = [prog[p] EXCEPT !.pc = to]
  OBVIOUS
<1>5. /\ r \in Program /\ r.pc = to /\ r.fd = tmp
      /\ r.seed = prog[p].seed /\ r.mem = prog[p].mem /\ r.wants = prog[p].wants
  BY <1>1, <1>2, <1>4 DEF Program
<1>6. /\ prog' \in [Programs -> Program] /\ prog'[p] = r
      /\ \A q \in Programs \ {p} : prog'[q] = NotRunning
      /\ \A a, b \in Busy' : a = b
  BY <1>1, <1>3, <1>4, <1>5, GoesAlone
<1>7. KeyTypes'
  BY <1>1, <1>3, <1>6 DEF KeyTypes
<1>8. KeptFile(path, promised)' /\ KeptFile(disk, settled)'
  <2>1. {path, disk} \subseteq Inodes \cup {NoFile}
    BY <1>1 DEF KeyTypes
  <2> QED
    BY <1>1, <1>2, <1>3, <2>1 DEF KeyGood, KeptFile, Covers
<1>9. Working(p)'
  BY <1>1, <1>2, <1>3, <1>5, <1>6, KeyFacts DEF Working, Covers
<1>10. \A q \in Programs : Working(q)'
  BY <1>1, <1>6, <1>9 DEF Working, NotRunning
<1> QED
  BY <1>1, <1>2, <1>6, <1>7, <1>8, <1>10 DEF KeyGood

(* Rename makes the path lead to a file with all that was promised and more. *)
LEMMA RenameKeeps ==
    ASSUME KeyGood, NEW p \in Programs, Rename(p) PROVE KeyGood'
<1>1. /\ p \in Busy /\ UNCHANGED <<disk, inode, settled, drawn>>
      /\ prog[p].pc = "rename" /\ KeyTypes /\ prog[p] \in Program /\ Working(p)
      /\ drawn \in Nat
  BY DEF Rename, Busy, KeyGood, KeyTypes
<1>2. /\ tmp \in Inodes /\ tmp # NoFile /\ tmp # disk /\ inode[tmp].synced
      /\ inode[tmp].data = prog[p].mem /\ prog[p].mem \in Maps
      /\ prog[p].wants \in SUBSET Wallets /\ prog[p].seed \in Nat /\ prog[p].seed =< drawn
      /\ Covers(prog[p].mem, promised)
      /\ prog[p].seed # 0 => \A n \in prog[p].wants :
             n \in DOMAIN prog[p].mem /\ prog[p].mem[n] >= prog[p].seed
  BY <1>1 DEF Working, KeyGood, KeyTypes, Program
<1>3. path' = tmp /\ tmp' = NoFile
  BY <1>2 DEF Rename
<1>4. KeptFile(disk, settled)'
  BY <1>1 DEF KeyGood, KeptFile, Covers
<1>5. CASE prog[p].seed = 0
  <2>1. Goes(p, [prog[p] EXCEPT !.pc = "opened", !.fd = NoFile]) /\ UNCHANGED promised
    BY <1>2, <1>5 DEF Rename
  <2>2. PICK r : r = [prog[p] EXCEPT !.pc = "opened", !.fd = NoFile]
    OBVIOUS
  <2>3. r \in Program /\ r.pc = "opened" /\ r.fd = NoFile /\ r.seed = 0 /\ r.mem = prog[p].mem
    BY <1>1, <1>5, <2>2 DEF Program
  <2>4. /\ prog' \in [Programs -> Program] /\ prog'[p] = r
        /\ \A q \in Programs \ {p} : prog'[q] = NotRunning
        /\ \A a, b \in Busy' : a = b
    BY <1>1, <2>1, <2>2, <2>3, GoesAlone
  <2>5. KeyTypes'
    BY <1>1, <1>2, <1>3, <2>1, <2>4 DEF KeyTypes
  <2>6. KeptFile(path, promised)'
    BY <1>1, <1>2, <1>3, <2>1 DEF KeptFile, Covers
  <2>7. Working(p)'
    BY <1>1, <1>2, <2>1, <2>3, <2>4 DEF Working, Covers
  <2>8. \A q \in Programs : Working(q)'
    BY <1>1, <2>4, <2>7 DEF Working, NotRunning
  <2> QED
    BY <1>1, <1>3, <1>4, <2>1, <2>4, <2>5, <2>6, <2>8 DEF KeyGood
<1>6. CASE prog[p].seed # 0
  <2>1. /\ Goes(p, NotRunning)
        /\ promised' = [n \in DOMAIN promised \cup prog[p].wants |->
                          IF n \in prog[p].wants THEN prog[p].seed ELSE promised[n]]
    BY <1>2, <1>6 DEF Rename
  <2>2. /\ prog' \in [Programs -> Program]
        /\ \A q \in Programs : prog'[q] = NotRunning
        /\ \A a, b \in Busy' : a = b
    BY <1>1, <2>1, KeyFacts, GoesAlone
  <2>3. /\ promised' \in Maps /\ DOMAIN promised' = DOMAIN promised \cup prog[p].wants
        /\ \A n \in prog[p].wants : promised'[n] = prog[p].seed
        /\ \A n \in DOMAIN promised \ prog[p].wants : promised'[n] = promised[n]
    <3>1. PICK old, W, v, new : /\ old = promised /\ W = prog[p].wants /\ v = prog[p].seed
                                /\ new = promised'
      OBVIOUS
    <3>2. new = [n \in DOMAIN old \cup W |-> IF n \in W THEN v ELSE old[n]]
      BY <2>1, <3>1
    <3>3. old \in Maps /\ W \in SUBSET Wallets /\ v \in Nat
      BY <1>1, <1>2, <3>1 DEF KeyTypes
    <3>4. /\ new \in Maps /\ DOMAIN new = DOMAIN old \cup W
          /\ \A n \in W : new[n] = v
          /\ \A n \in DOMAIN old \ W : new[n] = old[n]
      BY ONLY <3>2, <3>3, MapsAdd
    <3> QED
      BY <3>1, <3>4
  <2>4. KeyTypes'
    BY <1>1, <1>2, <1>3, <2>2, <2>3 DEF KeyTypes
  <2>5. Covers(prog[p].mem, promised')
    <3>1. ASSUME NEW n \in DOMAIN promised'
          PROVE  n \in DOMAIN prog[p].mem /\ prog[p].mem[n] >= promised'[n]
      <4>1. CASE n \in prog[p].wants
        BY <1>2, <1>6, <2>3, <4>1
      <4>2. CASE n \notin prog[p].wants
        BY <1>2, <2>3, <4>2 DEF Covers
      <4> QED
        BY <4>1, <4>2
    <3> QED
      BY <3>1 DEF Covers
  <2>6. KeptFile(path, promised)'
    <3>1. path' # NoFile /\ inode'[path'] = inode[tmp]
      BY <1>1, <1>2, <1>3
    <3>2. inode'[path'].synced /\ inode'[path'].data = prog[p].mem
      BY <1>2, <3>1
    <3> QED
      BY <1>2, <2>5, <3>1, <3>2 DEF KeptFile, Covers
  <2>7. \A q \in Programs : Working(q)'
    BY <1>1, <2>2 DEF Working, NotRunning
  <2>8. \A n \in DOMAIN promised' : promised'[n] =< drawn
    <3>1. ASSUME NEW n \in DOMAIN promised' PROVE promised'[n] =< drawn
      <4>1. CASE n \in prog[p].wants
        BY <1>2, <2>3, <4>1
      <4>2. CASE n \notin prog[p].wants
        BY <2>3, <4>2 DEF KeyGood
      <4> QED
        BY <4>1, <4>2
    <3> QED
      BY <3>1
  <2> QED
    BY <1>1, <1>3, <1>4, <2>2, <2>4, <2>6, <2>7, <2>8 DEF KeyGood
<1> QED
  BY <1>5, <1>6

(* What is on disk becomes what the path leads to. *)
LEMMA WriteBackKeeps == ASSUME KeyGood, WriteBack PROVE KeyGood'
<1>1. disk' = path /\ settled' = promised /\ UNCHANGED <<path, tmp, inode, prog, drawn, promised>>
  BY DEF WriteBack
<1>2. KeyTypes'
  BY <1>1 DEF KeyGood, KeyTypes
<1>3. KeptFile(path, promised)' /\ KeptFile(disk, settled)'
  BY <1>1 DEF KeyGood, KeptFile, Covers
<1>4. Busy' = Busy
  BY <1>1 DEF Busy
<1>5. \A p \in Programs : Working(p)'
  BY <1>1 DEF KeyGood, Working, Covers
<1>6. /\ tmp' = NoFile \/ (tmp' # path' /\ tmp' # disk')
      /\ \A n \in DOMAIN promised' : promised'[n] =< drawn'
      /\ \A n \in DOMAIN settled' : settled'[n] =< drawn'
      /\ \A p, q \in Busy' : p = q
  BY <1>1, <1>4 DEF KeyGood
<1> QED
  BY <1>2, <1>3, <1>5, <1>6 DEF KeyGood

(* A power loss keeps what is flushed and named. *)
LEMMA PowerLossKeeps == ASSUME KeyGood, PowerLoss PROVE KeyGood'
<1>1. PICK kept \in BOOLEAN, intact \in SUBSET {i \in Inodes : ~inode[i].synced} :
         /\ path' = (IF kept THEN path ELSE disk) /\ disk' = path'
         /\ promised' = (IF kept THEN promised ELSE settled) /\ settled' = promised'
         /\ tmp' = NoFile
         /\ inode' = [i \in Inodes |->
                        [data |-> IF inode[i].synced \/ i \in intact THEN inode[i].data ELSE Torn,
                         synced |-> TRUE]]
         /\ prog' = [p \in Programs |-> NotRunning]
         /\ UNCHANGED drawn
  BY DEF PowerLoss
<1>2. KeyTypes /\ drawn \in Nat
  BY DEF KeyGood, KeyTypes
<1>3. \A i \in Inodes : inode[i].data \in Maps \cup {Torn}
  BY <1>2 DEF KeyTypes
<1>4. inode' \in [Inodes -> [data : Maps \cup {Torn}, synced : BOOLEAN]]
  <2>1. \A i \in Inodes : [data |-> IF inode[i].synced \/ i \in intact THEN inode[i].data ELSE Torn,
                           synced |-> TRUE] \in [data : Maps \cup {Torn}, synced : BOOLEAN]
    BY <1>3
  <2> QED
    BY <1>1, <2>1
<1>5. prog' \in [Programs -> Program] /\ \A p \in Programs : prog'[p] = NotRunning
  BY <1>1, KeyFacts
<1>6. KeyTypes'
  BY <1>1, <1>2, <1>4, <1>5 DEF KeyTypes
<1>7. ASSUME NEW f \in Inodes, inode[f].synced
      PROVE  inode'[f].synced /\ inode'[f].data = inode[f].data
  BY <1>1, <1>7
<1>8. KeptFile(path, promised)'
  <2>1. {path, disk} \subseteq Inodes \cup {NoFile}
    BY <1>2 DEF KeyTypes
  <2>2. ASSUME NEW f \in Inodes \cup {NoFile}, NEW names, KeptFile(f, names)
        PROVE  IF f = NoFile THEN DOMAIN names = {}
               ELSE inode'[f].synced /\ inode'[f].data \in Maps /\ Covers(inode'[f].data, names)
    BY <1>7, <2>2 DEF KeptFile
  <2>3. CASE kept
    <3>1. path' = path /\ promised' = promised
      BY <1>1, <2>3
    <3> QED
      BY <2>1, <2>2, <3>1 DEF KeyGood, KeptFile
  <2>4. CASE ~kept
    <3>1. path' = disk /\ promised' = settled
      BY <1>1, <2>4
    <3> QED
      BY <2>1, <2>2, <3>1 DEF KeyGood, KeptFile
  <2> QED
    BY <2>3, <2>4
<1>9. KeptFile(disk, settled)'
  BY <1>1, <1>8 DEF KeptFile
<1>10. \A p \in Programs : Working(p)'
  BY <1>1, <1>2, <1>5 DEF Working, NotRunning
<1>11. Busy' = {}
  BY <1>5, KeyFacts DEF Busy
<1>12. \A n \in DOMAIN promised' : promised'[n] =< drawn
  BY <1>1 DEF KeyGood
<1> QED
  BY <1>1, <1>6, <1>8, <1>9, <1>10, <1>11, <1>12 DEF KeyGood

(* Nothing is promised at first. *)
LEMMA KeyStarts == KeyInit => KeyInv
<1> SUFFICES ASSUME KeyInit PROVE KeyInv
  OBVIOUS
<1>1. KeyTypes
  BY KeyFacts DEF KeyInit, KeyTypes
<1>2. KeptFile(path, promised) /\ KeptFile(disk, settled) /\ DOMAIN promised = {} /\ DOMAIN settled = {}
  BY DEF KeyInit, KeptFile, NoWallets
<1>3. \A p \in Programs : Working(p)
  BY DEF KeyInit, Working, NotRunning
<1>4. Busy = {}
  BY KeyFacts DEF KeyInit, Busy
<1> QED
  BY <1>1, <1>2, <1>3, <1>4 DEF KeyInit, KeyInv, KeyGood

(* Every step. *)
LEMMA KeyStep == KeyInv /\ [KeyNext]_keyVars => KeyInv'
<1> SUFFICES ASSUME KeyInv, [KeyNext]_keyVars PROVE KeyInv'
  OBVIOUS
<1>1. CASE UNCHANGED keyVars
  BY <1>1 DEF keyVars, KeyInv, KeyGood, KeyTypes, Busy, KeptFile, Covers, Working
<1>2. CASE KeyNext /\ overlapped
  BY <1>2 DEF KeyInv, KeyNext, Run, Open, Put, Truncate, WriteTmp, Sync, Rename, Die, WriteBack,
              PowerLoss
<1>3. CASE KeyNext /\ ~overlapped
  <2>1. KeyGood
    BY <1>3 DEF KeyInv
  <2>2. ASSUME NEW p \in Programs, Run(p) PROVE KeyInv'
    BY <1>3, <2>1, <2>2, RunKeeps DEF KeyInv, Run
  <2>3. ASSUME NEW p \in Programs, Die(p) PROVE KeyInv'
    BY <1>3, <2>1, <2>3, EndsKeep DEF KeyInv, Die, SamePromises
  <2>4. ASSUME NEW p \in Programs,
               Open(p) \/ Put(p) \/ Truncate(p) \/ WriteTmp(p) \/ Sync(p) \/ Rename(p)
        PROVE  KeyInv'
    <3>1. UNCHANGED overlapped
      BY <2>4 DEF Open, Put, Truncate, WriteTmp, Sync, Rename
    <3>2. KeyGood'
      BY <2>1, <2>4, OpenKeeps, PutKeeps, TruncateKeeps, WriteKeeps, RenameKeeps
    <3> QED
      BY <1>3, <3>1, <3>2 DEF KeyInv
  <2>5. CASE WriteBack \/ PowerLoss
    <3>1. UNCHANGED overlapped
      BY <2>5 DEF WriteBack, PowerLoss
    <3>2. KeyGood'
      BY <2>1, <2>5, WriteBackKeeps, PowerLossKeeps
    <3> QED
      BY <1>3, <3>1, <3>2 DEF KeyInv
  <2> QED
    BY <1>3, <2>2, <2>3, <2>4, <2>5 DEF KeyNext
<1> QED
  BY <1>1, <1>2, <1>3 DEF KeyInv

(* While the keystore's programs run one after another, every wallet whose   *)
(* creation was reported is in the file the path leads to, and that file     *)
(* opens: wherever a call fails, a program is killed or the machine stops    *)
(* (keystore.go persist, Open and Put).                                      *)
THEOREM KeystoreKeeps == KeySpec => []WalletsKept
<1>1. KeyInv => WalletsKept
  <2> SUFFICES ASSUME KeyGood
               PROVE  /\ path # NoFile => inode[path].data # Torn
                      /\ DOMAIN promised # {} => path # NoFile
                      /\ \A n \in DOMAIN promised :
                           n \in DOMAIN inode[path].data /\ inode[path].data[n] >= promised[n]
    BY DEF KeyInv, WalletsKept
  <2> QED
    BY KeyFacts DEF KeyGood, KeptFile, Covers
<1> QED
  BY <1>1, KeyStarts, KeyStep, PTL DEF KeySpec

-----------------------------------------------------------------------------
(* Payments.                                                                 *)

Local == [slot : Nat, coins : SUBSET (Coins \cup Sends), price : Nat]
Call == [at : {"start", "slot", "priced", "answered", "failed"}, local : Local,
         knew : SUBSET Sends]

\* Which call a transaction is of, and that it says what the call signed.
Signed(t) == t.by \in Sends /\ Answered(t.by) /\ t.msg = Message(t.by, send[t.by].local)

WalletTypes ==
    /\ send \in [Sends -> Call] /\ tip \in Nat
    /\ IsFiniteSet(pool) /\ IsFiniteSet(mined)
    /\ \A t \in Live : Signed(t)

\* The nonces of transactions are 0, 1, ..., each once.
Numbered(L) ==
    /\ \A t \in L : t.msg.slot \in Nat /\ t.msg.slot < Cardinality(L)
    /\ \A n \in 0..(Cardinality(L) - 1) : \E t \in L : t.msg.slot = n
    /\ \A t, u \in L : t.msg.slot = u.msg.slot => t = u

\* A call that has read its nonce, and has not failed, knew of no transaction
\* with that nonce or a later one.
NonceRead(s) ==
    /\ send[s].at = "start" => send[s].knew = {}
    /\ send[s].at \in {"slot", "priced"} => send[s].local.slot =< Cardinality(Live)
    /\ send[s].at = "answered" => send[s].local.slot < Cardinality(Live)
    /\ send[s].at \in {"slot", "priced", "answered"} =>
          \A k \in send[s].knew : Answered(k) /\ send[k].local.slot < send[s].local.slot

\* Blocks have the first nonces, the pool the rest.
EthInv ==
    /\ Numbered(Live) /\ pool \cap mined = {}
    /\ \A t \in mined : t.msg.slot < Cardinality(mined)
    /\ \A t \in pool : t.msg.slot >= Cardinality(mined)
    /\ \A s \in Sends : NonceRead(s)

WalletInv ==
    /\ WalletTypes
    /\ net = "eth" => EthInv
    /\ net # "eth" => \A s \in Sends : Answered(s) =>
          \E t \in Live : t.by = s \/ t.msg = Message(s, send[s].local)

\* A call does not sign what one says whose transaction it knew of.
ReadSince(s) ==
    /\ send[s].at = "start" => send[s].knew = {}
    /\ send[s].at \in {"priced", "answered"} =>
          \A k \in send[s].knew : Answered(k) /\ send[k].local # send[s].local

\* On Stellar because sequence numbers are used up, on Bitcoin because outputs are.
SharedInv ==
    /\ net \in Networks
    /\ net \in {"xlm", "btc"} => \A s \in Sends : ReadSince(s)
    /\ net = "xlm" => pool = {} /\ \A t \in mined : t.msg.slot =< Cardinality(mined)

(* One more nonce. *)
LEMMA NumberedAdd ==
    ASSUME NEW L, IsFiniteSet(L), Numbered(L), NEW x, x \notin L, x.msg.slot = Cardinality(L)
    PROVE  Numbered(L \cup {x}) /\ Cardinality(L \cup {x}) = Cardinality(L) + 1
<1>1. PICK n \in Nat : n = Cardinality(L)
  BY FS_CardinalityType
<1>2. Cardinality(L \cup {x}) = n + 1
  BY <1>1, FS_AddElement
<1>3. \A t \in L : t.msg.slot \in Nat /\ t.msg.slot < n
  BY <1>1 DEF Numbered
<1>4. \A t \in L \cup {x} : t.msg.slot \in Nat /\ t.msg.slot < n + 1
  BY <1>1, <1>3
<1>5. \A k \in 0..n : \E t \in L \cup {x} : t.msg.slot = k
  <2>1. \A k \in 0..n : k \in 0..(n - 1) \/ k = n
    OBVIOUS
  <2> QED
    BY <1>1, <2>1 DEF Numbered
<1>6. \A t, u \in L \cup {x} : t.msg.slot = u.msg.slot => t = u
  <2>1. \A t \in L : t.msg.slot # n
    BY <1>3
  <2> QED
    BY <1>1, <2>1 DEF Numbered
<1>7. (n + 1) - 1 = n
  OBVIOUS
<1>8. PICK M : M = L \cup {x}
  OBVIOUS
<1>9. Numbered(M)
  <2>1. PICK c : c = Cardinality(M)
    OBVIOUS
  <2>2. c = n + 1 /\ c - 1 = n
    BY <1>2, <1>7, <1>8, <2>1
  <2>3. /\ \A t \in M : t.msg.slot \in Nat /\ t.msg.slot < c
        /\ \A k \in 0..(c - 1) : \E t \in M : t.msg.slot = k
        /\ \A t, u \in M : t.msg.slot = u.msg.slot => t = u
    BY ONLY <1>4, <1>5, <1>6, <1>8, <2>2
  <2> QED
    BY ONLY <2>1, <2>3 DEF Numbered
<1> QED
  BY <1>1, <1>2, <1>8, <1>9

(* A transaction takes the place of one with the same nonce. *)
LEMMA NumberedSwap ==
    ASSUME NEW L, IsFiniteSet(L), Numbered(L), NEW y \in L, NEW x, x \notin L,
           x.msg.slot = y.msg.slot
    PROVE  Numbered((L \ {y}) \cup {x}) /\ Cardinality((L \ {y}) \cup {x}) = Cardinality(L)
<1>1. PICK n \in Nat : n = Cardinality(L)
  BY FS_CardinalityType
<1>2. IsFiniteSet(L \ {y}) /\ Cardinality(L \ {y}) = n - 1
  BY <1>1, FS_RemoveElement
<1>3. Cardinality((L \ {y}) \cup {x}) = n
  <2>1. PICK K : K = L \ {y}
    OBVIOUS
  <2>2. Cardinality(K \cup {x}) = (n - 1) + 1
    BY <1>2, <2>1, FS_AddElement
  <2> QED
    BY <2>1, <2>2
<1>4. \A t \in (L \ {y}) \cup {x} : t.msg.slot \in Nat /\ t.msg.slot < n
  BY <1>1 DEF Numbered
<1>5. \A k \in 0..(n - 1) : \E t \in (L \ {y}) \cup {x} : t.msg.slot = k
  BY <1>1 DEF Numbered
<1>6. \A t, u \in (L \ {y}) \cup {x} : t.msg.slot = u.msg.slot => t = u
  BY DEF Numbered
<1> QED
  BY <1>1, <1>3, <1>4, <1>5, <1>6 DEF Numbered

(* How far a call has got, and what it remembers. *)
LEMMA StepTo ==
    ASSUME WalletTypes, NEW s \in Sends,
           NEW to \in {"slot", "priced", "answered", "failed"}, NEW l \in Local, Step(s, to, l)
    PROVE  /\ send' \in [Sends -> Call] /\ send'[s].at = to /\ send'[s].local = l
           /\ send'[s].knew = send[s].knew \cup (IF send[s].at = "start" THEN Broadcast ELSE {})
           /\ \A k \in Sends \ {s} : send'[k] = send[k]
<1>1. Broadcast \subseteq Sends
  BY DEF WalletTypes, Signed, Broadcast
<1>2. PICK new : new = [at |-> to, local |-> l,
                        knew |-> send[s].knew \cup (IF send[s].at = "start" THEN Broadcast ELSE {})]
  OBVIOUS
<1>3. new \in Call
  BY <1>1, <1>2 DEF WalletTypes, Call
<1>4. send' = [send EXCEPT ![s] = new]
  BY <1>2 DEF Step
<1> QED
  BY <1>2, <1>3, <1>4 DEF WalletTypes

(* Reading before a transaction is broadcast leaves the others alone. *)
LEMMA ReadsKeep ==
    ASSUME WalletInv, NEW s \in Sends, send[s].at \in {"start", "slot", "priced"},
           NEW to \in {"slot", "priced", "failed"}, NEW l \in Local, Step(s, to, l),
           UNCHANGED <<net, pool, mined, tip>>,
           net = "eth" /\ to # "failed" =>
              /\ l.slot =< Cardinality(Live)
              /\ \A k \in send'[s].knew : Answered(k) /\ send[k].local.slot < l.slot
    PROVE  WalletInv'
<1>1. WalletTypes /\ Live' = Live
  BY DEF WalletInv, Live
<1>2. /\ send' \in [Sends -> Call] /\ send'[s].at = to /\ send'[s].local = l
      /\ \A k \in Sends \ {s} : send'[k] = send[k]
  BY <1>1, StepTo
<1>3. \A k \in Sends : Answered(k) => k # s
  BY DEF Answered
<1>4. \A k \in Sends : /\ Answered(k)' <=> Answered(k)
                       /\ Answered(k) => send'[k] = send[k]
  BY <1>2, <1>3 DEF Answered
<1>5. \A t \in Live : Signed(t)'
  BY <1>1, <1>4 DEF WalletTypes, Signed, Message
<1>6. WalletTypes'
  BY <1>1, <1>2, <1>5 DEF WalletTypes
<1>7. ASSUME net = "eth" PROVE EthInv'
  <2>1. EthInv
    BY <1>7 DEF WalletInv
  <2>2. ASSUME NEW u \in Sends PROVE NonceRead(u)'
    <3>1. \A k \in send[u].knew : k \in Sends
      BY <1>1 DEF WalletTypes, Call
    <3>2. CASE u = s
      <4>1. \A k \in send'[s].knew : k \in Sends
        BY <1>2 DEF Call
      <4> QED
        BY <1>1, <1>2, <1>4, <1>7, <3>2, <4>1 DEF NonceRead
    <3>3. CASE u # s
      BY <1>1, <1>2, <1>4, <2>1, <3>1, <3>3 DEF NonceRead, EthInv
    <3> QED
      BY <3>2, <3>3
  <2> QED
    BY <1>1, <2>1, <2>2 DEF EthInv
<1>8. ASSUME net # "eth", NEW k \in Sends, Answered(k)'
      PROVE  \E t \in Live : t.by = k \/ t.msg = Message(k, send'[k].local)
  BY <1>4, <1>8 DEF WalletInv
<1> QED
  BY <1>1, <1>6, <1>7, <1>8 DEF WalletInv, Message

(* The reads of each chain. *)
LEMMA FailKeeps == ASSUME WalletInv, NEW s \in Sends, Fail(s) PROVE WalletInv'
<1>1. send[s].local \in Local
  BY DEF WalletInv, WalletTypes, Call
<1> QED
  BY <1>1, ReadsKeep DEF Fail

(* Stellar's sequence, Solana's blockhash and Bitcoin's coins. *)
LEMMA OtherReadsKeep ==
    ASSUME WalletInv, NEW s \in Sends, NEW cs \in SUBSET (Coins \cup Sends),
           ReadSequence(s) \/ ReadBlockhash(s) \/ SelectCoins(s, cs)
    PROVE  WalletInv'
<1>1. WalletTypes /\ net # "eth" /\ send[s].at = "start" /\ UNCHANGED <<net, pool, mined, tip>>
  BY DEF WalletInv, ReadSequence, ReadBlockhash, SelectCoins, Has
<1>2. PICK to \in {"priced", "failed"}, l \in Local : Step(s, to, l)
  <2>1. Cardinality(mined) + 1 \in Nat /\ tip \in Nat
    BY <1>1, FS_CardinalityType DEF WalletTypes
  <2>2. [Unread EXCEPT !.slot = Cardinality(mined) + 1] \in Local
    BY <2>1 DEF Unread, Local
  <2>3. [Unread EXCEPT !.slot = tip] \in Local /\ Unread \in Local
    BY <2>1 DEF Unread, Local
  <2>4. [Unread EXCEPT !.coins = cs] \in Local
    BY DEF Unread, Local
  <2> QED
    BY <2>2, <2>3, <2>4 DEF ReadSequence, ReadBlockhash, SelectCoins
<1> QED
  BY <1>1, <1>2, ReadsKeep

(* Ethereum's nonce: how many transactions are live. *)
LEMMA ReadNonceKeeps ==
    ASSUME WalletInv, NEW s \in Sends, ReadNonce(s) PROVE WalletInv'
<1>1. /\ WalletTypes /\ net = "eth" /\ EthInv /\ send[s].at = "start"
      /\ UNCHANGED <<net, pool, mined, tip>>
  BY DEF WalletInv, ReadNonce, Has
<1>2. Cardinality(Live) \in Nat
  BY <1>1, FS_Union, FS_CardinalityType DEF WalletTypes, Live
<1>3. PICK l : l = [Unread EXCEPT !.slot = Cardinality(Live)]
  OBVIOUS
<1>4. l \in Local /\ l.slot = Cardinality(Live)
  BY <1>2, <1>3 DEF Unread, Local
<1>5. Step(s, "slot", l)
  BY <1>3 DEF ReadNonce, Nonce
<1>6. send'[s].knew = Broadcast
  <2>1. send[s].knew = {}
    BY <1>1 DEF EthInv, NonceRead
  <2> QED
    BY <1>1, <1>4, <1>5, <2>1, StepTo
<1>7. \A k \in Broadcast : Answered(k) /\ send[k].local.slot < l.slot
  <2>1. ASSUME NEW t \in Live PROVE Answered(t.by) /\ send[t.by].local.slot < Cardinality(Live)
    <3>1. Signed(t) /\ t.msg.slot < Cardinality(Live)
      BY <1>1 DEF WalletTypes, EthInv, Numbered
    <3> QED
      BY <3>1 DEF Signed, Message
  <2> QED
    BY <1>4, <2>1 DEF Broadcast
<1>8. l.slot =< Cardinality(Live)
  BY <1>2, <1>4
<1> QED
  BY <1>1, <1>4, <1>5, <1>6, <1>7, <1>8, ReadsKeep

(* Its gas price. *)
LEMMA ReadGasPriceKeeps ==
    ASSUME WalletInv, NEW s \in Sends, NEW price \in GasPrices, ReadGasPrice(s, price)
    PROVE  WalletInv'
<1>1. /\ WalletTypes /\ net = "eth" /\ EthInv /\ send[s].at = "slot" /\ send[s].local \in Local
      /\ UNCHANGED <<net, pool, mined, tip>>
  BY DEF WalletInv, WalletTypes, ReadGasPrice, Has, Call
<1>2. PICK l : l = [send[s].local EXCEPT !.price = price]
  OBVIOUS
<1>3. l \in Local /\ l.slot = send[s].local.slot
  BY <1>1, <1>2, WalletAssumption DEF Local, WalletAssumption
<1>4. Step(s, "priced", l)
  BY <1>2 DEF ReadGasPrice
<1>5. send'[s].knew = send[s].knew
  BY <1>1, <1>3, <1>4, StepTo
<1>6. /\ l.slot =< Cardinality(Live)
      /\ \A k \in send'[s].knew : Answered(k) /\ send[k].local.slot < l.slot
  BY <1>1, <1>3, <1>5 DEF EthInv, NonceRead
<1> QED
  BY <1>1, <1>3, <1>4, <1>6, ReadsKeep

-----------------------------------------------------------------------------
(* A transaction is broadcast on another chain than Ethereum: it stays.      *)
LEMMA SubmitElsewhere ==
    ASSUME WalletInv, net # "eth", NEW s \in Sends, send[s].at = "priced",
           Step(s, "answered", send[s].local), UNCHANGED <<net, tip>>,
           IsFiniteSet(pool'), IsFiniteSet(mined'), Live \subseteq Live',
           NEW change, NEW x, x = Tx(s, change), Live' \subseteq Live \cup {x},
           x \in Live' \/ Twin(s) # {}
    PROVE  WalletInv'
<1>1. WalletTypes /\ send[s].local \in Local
  BY DEF WalletInv, WalletTypes, Call
<1>2. /\ send' \in [Sends -> Call] /\ send'[s].at = "answered" /\ send'[s].local = send[s].local
      /\ \A k \in Sends \ {s} : send'[k] = send[k]
  BY <1>1, StepTo
<1>3. \A k \in Sends : send'[k].local = send[k].local /\ (Answered(k)' <=> (Answered(k) \/ k = s))
  BY <1>2 DEF Answered
<1>4. \A t \in Live' : Signed(t)'
  <2>1. \A t \in Live : Signed(t)'
    BY <1>1, <1>3 DEF WalletTypes, Signed, Message
  <2>2. Signed(x)'
    BY <1>2, <1>3 DEF Signed, Tx, Message
  <2> QED
    BY <2>1, <2>2
<1>5. WalletTypes'
  BY <1>1, <1>2, <1>4 DEF WalletTypes
<1>6. ASSUME NEW k \in Sends, Answered(k)'
      PROVE  \E t \in Live' : t.by = k \/ t.msg = Message(k, send'[k].local)
  <2>1. CASE k = s
    BY <1>3, <2>1 DEF Tx, Twin
  <2>2. CASE k # s
    BY <1>3, <1>6, <2>2 DEF WalletInv
  <2> QED
    BY <2>1, <2>2
<1> QED
  BY <1>5, <1>6 DEF WalletInv, Message

(* On Ethereum a nonce is new, or that of the transaction it replaces. *)
LEMMA SubmitOnEthereum ==
    ASSUME WalletInv, net = "eth", NEW s \in Sends, send[s].at = "priced",
           Step(s, "answered", send[s].local), UNCHANGED <<net, tip, mined>>, NEW x,
           x = Tx(s, Change(s)), send[s].local.slot >= Cardinality(mined),
           pool' = (pool \ SameNonce(send[s].local)) \cup {x}
    PROVE  WalletInv'
<1>1. WalletTypes /\ EthInv /\ send[s].local \in Local
  BY DEF WalletInv, WalletTypes, Call
<1>2. PICK l : l = send[s].local
  OBVIOUS
<1>3. /\ l \in Local /\ l.slot \in Nat /\ l.slot =< Cardinality(Live) /\ l.slot >= Cardinality(mined)
      /\ x.msg.slot = l.slot /\ x.by = s
  BY <1>1, <1>2 DEF EthInv, NonceRead, Tx, Message, Local
<1>4. /\ send' \in [Sends -> Call] /\ send'[s].at = "answered" /\ send'[s].local = l
      /\ send'[s].knew = send[s].knew /\ \A k \in Sends \ {s} : send'[k] = send[k]
  BY <1>1, <1>2, StepTo
<1>5. x \notin Live
  BY <1>1, <1>3 DEF WalletTypes, Signed, Answered
<1>6. IsFiniteSet(Live) /\ Cardinality(Live) \in Nat /\ Cardinality(mined) \in Nat
  BY <1>1, FS_Union, FS_CardinalityType DEF WalletTypes, Live
<1>7. \A t \in Live : t.msg.slot = l.slot => t \in pool
  <2>1. \A t \in mined : t.msg.slot \in Nat /\ t.msg.slot < Cardinality(mined)
    BY <1>1 DEF EthInv, Numbered, Live
  <2> QED
    BY <1>3, <1>6, <2>1 DEF Live
<1>8. /\ Numbered(Live') /\ Cardinality(Live) =< Cardinality(Live') /\ l.slot < Cardinality(Live')
      /\ Live' \subseteq Live \cup {x}
  <2>1. CASE l.slot = Cardinality(Live)
    <3>1. \A t \in Live : t.msg.slot # l.slot
      BY <1>1, <1>3, <1>6, <2>1 DEF EthInv, Numbered
    <3>2. SameNonce(l) = {}
      BY <3>1 DEF SameNonce, Live
    <3>3. Live' = Live \cup {x}
      BY <1>2, <3>2 DEF Live
    <3>4. Numbered(Live \cup {x}) /\ Cardinality(Live \cup {x}) = Cardinality(Live) + 1
      BY <1>1, <1>3, <1>5, <1>6, <2>1, NumberedAdd DEF EthInv
    <3> QED
      BY <1>6, <2>1, <3>3, <3>4
  <2>2. CASE l.slot # Cardinality(Live)
    <3>1. l.slot \in 0..(Cardinality(Live) - 1)
      BY <1>3, <1>6, <2>2
    <3>2. PICK y \in Live : y.msg.slot = l.slot
      BY <1>1, <3>1 DEF EthInv, Numbered
    <3>3. y \in pool /\ y \notin mined
      BY <1>1, <1>7, <3>2 DEF EthInv
    <3>4. SameNonce(l) = {y}
      BY <1>1, <3>2, <3>3 DEF EthInv, Numbered, SameNonce, Live
    <3>5. Live' = (Live \ {y}) \cup {x}
      BY <1>2, <3>3, <3>4 DEF Live
    <3>6. /\ Numbered((Live \ {y}) \cup {x})
          /\ Cardinality((Live \ {y}) \cup {x}) = Cardinality(Live)
      BY <1>1, <1>3, <1>5, <1>6, <3>2, NumberedSwap DEF EthInv
    <3> QED
      BY <1>3, <1>6, <3>1, <3>5, <3>6
  <2> QED
    BY <2>1, <2>2
<1>9. IsFiniteSet(pool')
  <2>1. pool \ SameNonce(l) \in SUBSET pool
    OBVIOUS
  <2>2. IsFiniteSet(pool \ SameNonce(l))
    BY <1>1, <2>1, FS_Subset DEF WalletTypes
  <2> QED
    BY <1>2, <2>2, FS_AddElement
<1>10. \A k \in Sends : send'[k].local = send[k].local /\ (Answered(k)' <=> (Answered(k) \/ k = s))
  BY <1>2, <1>4 DEF Answered
<1>11. WalletTypes'
  <2>1. \A t \in Live : Signed(t)'
    BY <1>1, <1>10 DEF WalletTypes, Signed, Message
  <2>2. Signed(x)'
    BY <1>3, <1>10 DEF Signed, Tx, Message
  <2> QED
    BY <1>1, <1>4, <1>8, <1>9, <2>1, <2>2 DEF WalletTypes
<1>12. pool' \cap mined' = {} /\ \A t \in mined' : t.msg.slot < Cardinality(mined')
  BY <1>1, <1>5 DEF EthInv, Live
<1>13. \A t \in pool' : t.msg.slot >= Cardinality(mined')
  BY <1>1, <1>3 DEF EthInv
<1>14. ASSUME NEW u \in Sends PROVE NonceRead(u)'
  <2>1. send[u] \in Call /\ NonceRead(u) /\ Cardinality(Live') \in Nat
    <3>1. IsFiniteSet(Live')
      BY <1>11, FS_Union DEF WalletTypes, Live
    <3> QED
      BY <1>1, <3>1, FS_CardinalityType DEF WalletTypes, EthInv
  <2>2. send[u].local.slot \in Nat /\ send[u].knew \subseteq Sends
    BY <2>1 DEF Call, Local
  <2>3. CASE u = s
    <3>1. \A k \in send[s].knew : Answered(k) /\ send[k].local.slot < l.slot
      BY <1>2, <2>1, <2>3 DEF NonceRead
    <3>2. \A k \in send'[s].knew : Answered(k)' /\ send'[k].local.slot < l.slot
      BY <1>4, <1>10, <2>2, <2>3, <3>1
    <3> QED
      BY <1>4, <1>8, <2>3, <3>2 DEF NonceRead
  <2>4. CASE u # s
    <3>1. send'[u] = send[u]
      BY <1>4, <2>4
    <3>2. send[u].at \in {"slot", "priced"} => send[u].local.slot =< Cardinality(Live')
      BY <1>6, <1>8, <2>1, <2>2 DEF NonceRead
    <3>3. send[u].at = "answered" => send[u].local.slot < Cardinality(Live')
      BY <1>6, <1>8, <2>1, <2>2 DEF NonceRead
    <3>4. send[u].at \in {"slot", "priced", "answered"} =>
             \A k \in send[u].knew : Answered(k)' /\ send'[k].local.slot < send[u].local.slot
      BY <1>10, <2>1, <2>2 DEF NonceRead
    <3> QED
      BY <2>1, <3>1, <3>2, <3>3, <3>4 DEF NonceRead
  <2> QED
    BY <2>3, <2>4
<1> QED
  BY <1>8, <1>11, <1>12, <1>13, <1>14 DEF WalletInv, EthInv

(* What Submit does, on every chain. *)
LEMMA SubmitKeeps == ASSUME WalletInv, NEW s \in Sends, Submit(s) PROVE WalletInv'
<1>1. WalletTypes /\ send[s].at = "priced" /\ send[s].local \in Local /\ UNCHANGED <<net, tip>>
  BY DEF WalletInv, WalletTypes, Call, Submit, Has
<1>2. CASE ~Accepted(s, send[s].local)
  <2>1. Step(s, "failed", send[s].local) /\ UNCHANGED <<pool, mined>>
    BY <1>2 DEF Submit
  <2> QED
    BY <1>1, <2>1, ReadsKeep
<1>3. CASE Accepted(s, send[s].local) /\ Twin(s) # {}
  <2>1. PICK x : x = Tx(s, Change(s))
    OBVIOUS
  <2>2. Step(s, "answered", send[s].local) /\ UNCHANGED <<pool, mined>>
    BY <1>3 DEF Submit
  <2>3. net # "eth"
    BY <1>3 DEF Twin
  <2>4. IsFiniteSet(mined') /\ IsFiniteSet(pool') /\ Live' = Live
    BY <1>1, <2>2 DEF WalletTypes, Live
  <2> QED
    BY <1>1, <1>3, <2>1, <2>2, <2>3, <2>4, SubmitElsewhere
<1>4. CASE Accepted(s, send[s].local) /\ Twin(s) = {} /\ net = "xlm"
  <2>1. PICK x : x = Tx(s, 0)
    OBVIOUS
  <2>2. Step(s, "answered", send[s].local) /\ mined' = mined \cup {x} /\ UNCHANGED pool
    BY <1>4, <2>1 DEF Submit
  <2>3. IsFiniteSet(mined') /\ IsFiniteSet(pool')
    BY <1>1, <2>2, FS_AddElement DEF WalletTypes
  <2>4. Live' = Live \cup {x}
    BY <2>2 DEF Live
  <2> QED
    BY <1>1, <1>4, <2>1, <2>2, <2>3, <2>4, SubmitElsewhere
<1>5. CASE Accepted(s, send[s].local) /\ net = "eth"
  <2>1. PICK x : x = Tx(s, Change(s))
    OBVIOUS
  <2>2. /\ Step(s, "answered", send[s].local) /\ UNCHANGED mined
        /\ pool' = (pool \ SameNonce(send[s].local)) \cup {x}
    BY <1>5, <2>1 DEF Submit, Twin
  <2>3. send[s].local.slot >= Cardinality(mined)
    BY <1>5 DEF Accepted
  <2> QED
    BY <1>1, <1>5, <2>1, <2>2, <2>3, SubmitOnEthereum
<1>6. CASE Accepted(s, send[s].local) /\ Twin(s) = {} /\ net \notin {"xlm", "eth"}
  <2>1. PICK x : x = Tx(s, Change(s))
    OBVIOUS
  <2>2. /\ Step(s, "answered", send[s].local) /\ UNCHANGED mined
        /\ pool' = pool \cup {x}
    BY <1>6, <2>1 DEF Submit
  <2>3. IsFiniteSet(mined') /\ IsFiniteSet(pool')
    BY <1>1, <2>2, FS_AddElement DEF WalletTypes
  <2>4. Live' = Live \cup {x}
    BY <2>2 DEF Live
  <2> QED
    BY <1>1, <1>6, <2>1, <2>2, <2>3, <2>4, SubmitElsewhere
<1> QED
  BY <1>2, <1>3, <1>4, <1>5, <1>6

(* A block takes a transaction, on Ethereum the one whose turn it is. *)
LEMMA MineKeeps == ASSUME WalletInv, NEW t \in pool, Mine(t) PROVE WalletInv'
<1>1. /\ WalletTypes /\ UNCHANGED <<net, send, tip>>
      /\ pool' = pool \ {t} /\ mined' = mined \cup {t}
  BY DEF WalletInv, Mine
<1>2. Live' = Live
  BY <1>1 DEF Live
<1>3. IsFiniteSet(pool') /\ IsFiniteSet(mined')
  BY <1>1, FS_AddElement, FS_RemoveElement DEF WalletTypes
<1>4. WalletTypes'
  BY <1>1, <1>2, <1>3 DEF WalletTypes, Signed, Answered, Message
<1>5. ASSUME net = "eth" PROVE EthInv'
  <2>1. EthInv
    BY <1>5 DEF WalletInv
  <2>2. /\ Cardinality(Live) = Cardinality(pool) + Cardinality(mined)
        /\ Cardinality(pool) \in Nat /\ Cardinality(mined) \in Nat /\ Cardinality(pool) # 0
    <3>1. Cardinality(Live) = Cardinality(pool) + Cardinality(mined) - Cardinality(pool \cap mined)
      BY <1>1, FS_Union DEF WalletTypes, Live
    <3>2. Cardinality(pool \cap mined) = 0
      BY <2>1, FS_EmptySet DEF EthInv
    <3>3. Cardinality(pool) \in Nat /\ Cardinality(mined) \in Nat /\ Cardinality(pool) # 0
      BY <1>1, FS_CardinalityType, FS_EmptySet DEF WalletTypes
    <3> QED
      BY <3>1, <3>2, <3>3
  <2>3. PICK c \in Nat : c = Cardinality(mined)
    BY <2>2
  <2>4. c \in 0..(Cardinality(Live) - 1)
    BY <2>2, <2>3
  <2>5. PICK u \in Live : u.msg.slot = c
    BY <2>1, <2>4 DEF EthInv, Numbered
  <2>6. u \in pool
    BY <2>1, <2>3, <2>5 DEF EthInv, Live
  <2>7. t.msg.slot = c
    <3>1. t.msg.slot =< c /\ t.msg.slot >= c /\ t.msg.slot \in Nat
      BY <1>5, <2>1, <2>3, <2>5, <2>6 DEF Mine, EthInv, Numbered, Live
    <3> QED
      BY <3>1
  <2>8. Cardinality(mined') = c + 1
    <3>1. t \notin mined
      BY <2>1 DEF EthInv
    <3> QED
      BY <1>1, <2>3, <3>1, FS_AddElement DEF WalletTypes
  <2>9. \A v \in mined' : v.msg.slot < Cardinality(mined')
    <3>1. \A v \in mined : v.msg.slot \in Nat /\ v.msg.slot < c
      BY <2>1, <2>3 DEF EthInv, Numbered, Live
    <3> QED
      BY <1>1, <2>7, <2>8, <3>1
  <2>10. \A v \in pool' : v.msg.slot >= Cardinality(mined')
    <3>1. \A v \in pool : v.msg.slot \in Nat /\ v.msg.slot >= c /\ (v.msg.slot = c => v = t)
      BY <2>1, <2>3, <2>7 DEF EthInv, Numbered, Live
    <3> QED
      BY <1>1, <2>8, <3>1
  <2>11. pool' \cap mined' = {}
    BY <1>1, <2>1 DEF EthInv
  <2>12. \A s \in Sends : NonceRead(s)'
    BY <1>1, <1>2, <2>1 DEF EthInv, NonceRead, Answered
  <2> QED
    BY <1>2, <2>1, <2>9, <2>10, <2>11, <2>12 DEF EthInv
<1>6. net # "eth" => \A s \in Sends : Answered(s)' =>
        \E v \in Live : v.by = s \/ v.msg = Message(s, send'[s].local)
  BY <1>1 DEF WalletInv, Answered
<1> QED
  BY <1>1, <1>2, <1>4, <1>5, <1>6 DEF WalletInv, Message

-----------------------------------------------------------------------------
(* What a call knew of when it read, on Stellar and Bitcoin.                 *)

(* A transaction says what its call read. *)
LEMMA LiveSays ==
    ASSUME WalletTypes, NEW t \in Live
    PROVE  /\ t.by \in Sends /\ send[t.by].at = "answered"
           /\ t.msg.slot = send[t.by].local.slot /\ t.msg.slot \in Nat
           /\ t.msg.coins = send[t.by].local.coins
<1>1. t.by \in Sends /\ send[t.by].at = "answered" /\ t.msg = Message(t.by, send[t.by].local)
  <2>1. Signed(t)
    BY DEF WalletTypes
  <2> QED
    BY ONLY <2>1 DEF Signed, Answered
<1>2. send[t.by].local.slot \in Nat
  BY <1>1 DEF WalletTypes, Call, Local
<1>3. t.msg.slot = send[t.by].local.slot /\ t.msg.coins = send[t.by].local.coins
  BY ONLY <1>1 DEF Message
<1> QED
  BY <1>1, <1>2, <1>3

(* A call goes on, with what no call it knew of has signed, or fails. *)
LEMMA SinceOn ==
    ASSUME WalletTypes, \A u \in Sends : ReadSince(u), NEW s \in Sends,
           send[s].at \in {"start", "slot", "priced"},
           NEW to \in {"slot", "priced", "answered", "failed"}, NEW l \in Local, Step(s, to, l),
           to = "failed" \/ \A k \in send'[s].knew : Answered(k) /\ send[k].local # l
    PROVE  \A u \in Sends : ReadSince(u)'
<1>1. /\ send' \in [Sends -> Call] /\ send'[s].at = to /\ send'[s].local = l
      /\ \A k \in Sends \ {s} : send'[k] = send[k]
  BY StepTo
<1>2. \A k \in Sends : Answered(k) => Answered(k)' /\ send'[k] = send[k]
  BY <1>1 DEF Answered
<1> SUFFICES ASSUME NEW u \in Sends PROVE ReadSince(u)'
  OBVIOUS
<1>3. send[u].knew \subseteq Sends /\ send'[u].knew \subseteq Sends
  BY <1>1 DEF WalletTypes, Call
<1>4. CASE u = s
  BY <1>1, <1>2, <1>3, <1>4 DEF ReadSince
<1>5. CASE u # s
  BY <1>1, <1>2, <1>3, <1>5 DEF ReadSince
<1> QED
  BY <1>4, <1>5

(* A read at the start: the call knows of what is broadcast. *)
LEMMA SinceRead ==
    ASSUME WalletTypes, \A u \in Sends : ReadSince(u), NEW s \in Sends, send[s].at = "start",
           NEW l \in Local, Step(s, "priced", l), \A t \in Live : send[t.by].local # l
    PROVE  \A u \in Sends : ReadSince(u)'
<1>1. send[s].knew = {}
  BY DEF ReadSince
<1>2. send'[s].knew = Broadcast
  BY <1>1, StepTo
<1>3. \A k \in Broadcast : Answered(k) /\ send[k].local # l
  BY DEF Broadcast, WalletTypes, Signed
<1> QED
  BY <1>2, <1>3, SinceOn

(* Stellar's sequence number is after those of the transactions applied. *)
LEMMA SequenceSince ==
    ASSUME WalletTypes, SharedInv, NEW s \in Sends, ReadSequence(s) PROVE SharedInv'
<1>1. /\ net = "xlm" /\ send[s].at = "start" /\ UNCHANGED <<net, pool, mined, tip>>
      /\ Step(s, "priced", [Unread EXCEPT !.slot = Cardinality(mined) + 1])
  BY DEF ReadSequence, Has
<1>2. PICK c \in Nat : c = Cardinality(mined)
  BY FS_CardinalityType DEF WalletTypes
<1>3. PICK l : l = [Unread EXCEPT !.slot = c + 1]
  OBVIOUS
<1>4. l \in Local /\ l.slot = c + 1
  BY <1>2, <1>3 DEF Unread, Local
<1>5. \A t \in Live : send[t.by].local # l
  <2>1. \A t \in Live : t.msg.slot = send[t.by].local.slot /\ send[t.by].local.slot \in Nat
    BY LiveSays
  <2>2. \A t \in Live : t.msg.slot =< c
    BY <1>1, <1>2 DEF SharedInv, Live
  <2> QED
    BY <1>2, <1>4, <2>1, <2>2
<1>6. \A u \in Sends : ReadSince(u)'
  BY <1>1, <1>2, <1>3, <1>4, <1>5, SinceRead DEF SharedInv
<1> QED
  BY <1>1, <1>6 DEF SharedInv

(* Bitcoin's outputs are none that a transaction spends. *)
LEMMA CoinsSince ==
    ASSUME WalletTypes, SharedInv, NEW s \in Sends, NEW cs \in SUBSET (Coins \cup Sends),
           SelectCoins(s, cs)
    PROVE  SharedInv'
<1>1. net = "btc" /\ send[s].at = "start" /\ UNCHANGED <<net, pool, mined, tip>>
  BY DEF SelectCoins, Has
<1>2. \A u \in Sends : ReadSince(u)
  BY <1>1 DEF SharedInv
<1>3. PICK l : l = [Unread EXCEPT !.coins = cs]
  OBVIOUS
<1>4. l \in Local /\ l.coins = cs /\ Unread \in Local
  BY <1>3 DEF Unread, Local
<1>5. CASE Step(s, "failed", Unread)
  <2>1. \A u \in Sends : ReadSince(u)'
    BY <1>1, <1>2, <1>4, <1>5, SinceOn
  <2> QED
    BY <1>1, <2>1 DEF SharedInv
<1>6. CASE /\ Selection(cs, Order[s].amount + FlatFee)
           /\ Step(s, "priced", [Unread EXCEPT !.coins = cs])
  <2>1. PICK c \in cs : c \notin Spent
    BY <1>6 DEF Selection, Unspent
  <2>2. ASSUME NEW t \in Live PROVE send[t.by].local # l
    <3>1. t.msg.coins = send[t.by].local.coins
      BY LiveSays
    <3>2. c \notin t.msg.coins
      BY <2>1 DEF Spent
    <3> QED
      BY <1>4, <2>1, <3>1, <3>2
  <2>3. \A u \in Sends : ReadSince(u)'
    BY <1>1, <1>2, <1>3, <1>4, <1>6, <2>2, SinceRead
  <2> QED
    BY <1>1, <2>3 DEF SharedInv
<1> QED
  BY <1>5, <1>6 DEF SelectCoins

(* Broadcasting changes nothing of what was read. *)
LEMMA SubmitSince ==
    ASSUME WalletTypes, SharedInv, net \in {"xlm", "btc"}, NEW s \in Sends, Submit(s)
    PROVE  SharedInv'
<1>1. /\ send[s].at = "priced" /\ send[s].local \in Local /\ UNCHANGED <<net, tip>>
      /\ \A u \in Sends : ReadSince(u)
  BY DEF WalletTypes, Call, Submit, Has, SharedInv
<1>2. PICK to \in {"answered", "failed"} : Step(s, to, send[s].local)
  BY DEF Submit
<1>3. send'[s].knew = send[s].knew
  BY <1>1, <1>2, StepTo
<1>4. \A u \in Sends : ReadSince(u)'
  <2>1. \A k \in send[s].knew : Answered(k) /\ send[k].local # send[s].local
    BY <1>1 DEF ReadSince
  <2> QED
    BY <1>1, <1>2, <1>3, <2>1, SinceOn
<1>5. ASSUME net = "xlm" PROVE pool' = {} /\ \A t \in mined' : t.msg.slot =< Cardinality(mined')
  <2>1. pool = {} /\ \A t \in mined : t.msg.slot =< Cardinality(mined)
    BY <1>5 DEF SharedInv
  <2>2. CASE UNCHANGED <<pool, mined>>
    BY <2>1, <2>2
  <2>3. CASE /\ mined' = mined \cup {Tx(s, 0)} /\ UNCHANGED pool
             /\ send[s].local.slot = Cardinality(mined) + 1
    <3>1. PICK x : x = Tx(s, 0)
      OBVIOUS
    <3>2. x.by = s /\ x.msg.slot = send[s].local.slot
      BY <3>1 DEF Tx, Message
    <3>3. x \notin mined
      BY <1>1, <3>2 DEF WalletTypes, Signed, Answered, Live
    <3>4. PICK c \in Nat : c = Cardinality(mined)
      BY FS_CardinalityType DEF WalletTypes
    <3>5. Cardinality(mined') = c + 1
      BY <2>3, <3>1, <3>3, <3>4, FS_AddElement DEF WalletTypes
    <3>6. \A t \in mined : t.msg.slot \in Nat
      BY LiveSays DEF Live
    <3> QED
      BY <2>1, <2>3, <3>1, <3>2, <3>4, <3>5, <3>6
  <2> QED
    BY <1>5, <2>2, <2>3 DEF Submit, Accepted
<1> QED
  BY <1>1, <1>4, <1>5 DEF SharedInv

(* Every other step. *)
LEMMA SharedStep == WalletTypes /\ SharedInv /\ [WalletNext]_walletVars => SharedInv'
<1> SUFFICES ASSUME WalletTypes, SharedInv, [WalletNext]_walletVars PROVE SharedInv'
  OBVIOUS
<1>1. UNCHANGED net
  BY DEF WalletNext, walletVars, Fail, ReadSequence, ReadNonce, ReadGasPrice, ReadBlockhash,
         SelectCoins, Submit, Mine, Finalize
<1>2. CASE net \notin {"xlm", "btc"}
  BY <1>1, <1>2 DEF SharedInv
<1>3. CASE net \in {"xlm", "btc"}
  <2>1. ASSUME NEW s \in Sends, Fail(s) PROVE SharedInv'
    <3>1. send[s].local \in Local
      BY DEF WalletTypes, Call
    <3>2. \A u \in Sends : ReadSince(u)'
      BY <1>3, <2>1, <3>1, SinceOn DEF Fail, SharedInv
    <3> QED
      BY <2>1, <3>2 DEF Fail, SharedInv
  <2>2. ASSUME NEW t \in pool, Mine(t) PROVE SharedInv'
    BY <1>3, <2>2 DEF Mine, SharedInv, ReadSince, Answered
  <2>3. CASE UNCHANGED walletVars
    BY <2>3 DEF walletVars, SharedInv, ReadSince, Answered
  <2>4. ~ Finalize /\ \A s \in Sends : ~ ReadNonce(s) /\ ~ ReadBlockhash(s)
    BY <1>3 DEF Finalize, ReadNonce, ReadBlockhash
  <2>5. \A s \in Sends, price \in GasPrices : ~ ReadGasPrice(s, price)
    BY <1>3 DEF ReadGasPrice
  <2> QED
    BY <1>3, <2>1, <2>2, <2>3, <2>4, <2>5, SequenceSince, CoinsSince, SubmitSince DEF WalletNext
<1> QED
  BY <1>2, <1>3

(* Before the first call. *)
LEMMA WalletStarts == WalletInit => WalletInv /\ SharedInv
<1> SUFFICES ASSUME WalletInit PROVE WalletInv /\ SharedInv
  OBVIOUS
<1>1. Live = {} /\ IsFiniteSet({}) /\ Cardinality({}) = 0
  BY FS_EmptySet DEF WalletInit, Live
<1>2. send \in [Sends -> Call] /\ \A s \in Sends : send[s].at = "start" /\ send[s].knew = {}
  <2>1. [at |-> "start", local |-> Unread, knew |-> {}] \in Call
    BY DEF Call, Local, Unread
  <2> QED
    BY <2>1 DEF WalletInit
<1>3. WalletTypes
  BY <1>1, <1>2 DEF WalletInit, WalletTypes
<1>4. Numbered(Live)
  BY <1>1 DEF Numbered
<1>5. EthInv
  BY <1>1, <1>2, <1>4 DEF EthInv, NonceRead, WalletInit
<1>6. SharedInv
  BY <1>2 DEF SharedInv, ReadSince, WalletInit
<1> QED
  BY <1>2, <1>3, <1>5, <1>6 DEF WalletInv, Answered

(* A call of Send answered with a reference has a transaction of its own that *)
(* will be or was applied, however many calls run at once, but where Stellar *)
(* and Bitcoin take two equal payments that overlapped for one, Solana two   *)
(* under one blockhash, and where on Ethereum one that had read its nonce    *)
(* before replaces it (the Send methods of internal/custody).                *)
THEOREM WalletPays == WalletSpec => []PaymentsKept
<1>1. WalletInv /\ [WalletNext]_walletVars => WalletInv'
  <2> SUFFICES ASSUME WalletInv, [WalletNext]_walletVars PROVE WalletInv'
    OBVIOUS
  <2>1. CASE Finalize
    BY <2>1 DEF Finalize, WalletInv, WalletTypes, EthInv, NonceRead, Signed, Answered, Message,
                Live, Numbered
  <2>2. CASE UNCHANGED walletVars
    BY <2>2 DEF walletVars, WalletInv, WalletTypes, EthInv, NonceRead, Signed, Answered, Message,
                Live, Numbered
  <2>3. ASSUME NEW s \in Sends, ReadSequence(s) \/ ReadBlockhash(s) PROVE WalletInv'
    <3>1. {} \in SUBSET (Coins \cup Sends)
      OBVIOUS
    <3> QED
      BY <2>3, <3>1, OtherReadsKeep
  <2> QED
    BY <2>1, <2>2, <2>3, FailKeeps, OtherReadsKeep, ReadNonceKeeps, ReadGasPriceKeeps, SubmitKeeps,
       MineKeeps DEF WalletNext
<1>2. WalletInv /\ SharedInv => PaymentsKept
  <2> SUFFICES ASSUME WalletInv, SharedInv, NEW s \in Sends, Answered(s)
               PROVE  \E t \in Live :
                         \/ t.by = s
                         \/ /\ net \in {"xlm", "btc"} /\ t.msg = Message(s, send[s].local)
                            /\ t.by \notin send[s].knew
                         \/ net = "sol" /\ t.msg = Message(s, send[s].local)
                         \/ net = "eth" /\ t.msg.slot = send[s].local.slot /\ s \notin send[t.by].knew
    BY DEF PaymentsKept
  <2>1. CASE net # "eth"
    <3>1. PICK t \in Live : t.by = s \/ t.msg = Message(s, send[s].local)
      BY <2>1 DEF WalletInv
    <3>2. CASE t.by = s \/ net = "sol"
      BY <3>1, <3>2
    <3>3. CASE t.msg = Message(s, send[s].local) /\ net \in {"xlm", "btc"}
      <4>1. t.by \in Sends /\ t.msg = Message(t.by, send[t.by].local)
        BY DEF WalletInv, WalletTypes, Signed
      <4>2. PICK l \in Local, k \in Local : l = send[s].local /\ k = send[t.by].local
        BY <4>1 DEF WalletInv, WalletTypes, Call
      <4>3. l.slot = k.slot /\ l.coins = k.coins /\ l.price = k.price
        BY <3>3, <4>1, <4>2 DEF Message
      <4>4. l = k
        BY ONLY <4>3, l \in Local, k \in Local DEF Local
      <4>5. t.by \notin send[s].knew
        BY <3>3, <4>2, <4>4 DEF SharedInv, ReadSince, Answered
      <4> QED
        BY <3>3, <4>5
    <3>4. net \in {"xlm", "btc", "sol"}
      BY <2>1, WalletAssumption DEF SharedInv, WalletAssumption
    <3> QED
      BY <3>1, <3>2, <3>3, <3>4
  <2>2. CASE net = "eth"
    <3>1. EthInv /\ NonceRead(s) /\ WalletTypes /\ send[s] \in Call
      BY <2>2 DEF WalletInv, EthInv, WalletTypes
    <3>2. PICK n \in Nat : n = send[s].local.slot /\ n < Cardinality(Live)
      BY <3>1 DEF NonceRead, Answered, Call, Local
    <3>3. Cardinality(Live) \in Nat
      BY <3>1, FS_Union, FS_CardinalityType DEF WalletTypes, Live
    <3>4. PICK t \in Live : t.msg.slot = n
      <4>1. n \in 0..(Cardinality(Live) - 1)
        BY <3>2, <3>3
      <4> QED
        BY <3>1, <4>1 DEF EthInv, Numbered
    <3>5. t.by \in Sends /\ send[t.by].at = "answered" /\ send[t.by].local.slot = n
      <4>1. Signed(t)
        BY <3>1 DEF WalletTypes
      <4>2. t.by \in Sends /\ send[t.by].at = "answered" /\ t.msg = Message(t.by, send[t.by].local)
        BY ONLY <4>1 DEF Signed, Answered
      <4>3. t.msg.slot = send[t.by].local.slot
        BY ONLY <4>2 DEF Message
      <4> QED
        BY ONLY <3>4, <4>2, <4>3
    <3>6. s \notin send[t.by].knew
      BY <3>1, <3>2, <3>5 DEF EthInv, NonceRead
    <3> QED
      BY <2>2, <3>2, <3>4, <3>6
  <2> QED
    BY <2>1, <2>2
<1>3. WalletInv => WalletTypes
  BY DEF WalletInv
<1> QED
  BY <1>1, <1>2, <1>3, SharedStep, WalletStarts, PTL DEF WalletSpec

-----------------------------------------------------------------------------
(* The seeder.                                                               *)

IsOrder(o) ==
    /\ o = [id |-> o.id, synth |-> o.synth, side |-> o.side, price |-> o.price, vol |-> o.vol]
    /\ o.id \in Nat /\ o.vol \in Nat /\ o.synth \in BOOLEAN

EngineTypes ==
    /\ IsFiniteSet(resting) /\ last \in Nat
    /\ \A o \in resting : IsOrder(o) /\ o.vol > 0 /\ o.id \in 1..last
    /\ \A o, p \in resting : o.id = p.id => o = p
    /\ fills = [id \in DOMAIN fills |-> fills[id]]
    /\ \A id \in DOMAIN fills : id \in 1..last /\ fills[id] \in Nat

(* The smaller of two. *)
LEMMA MinOfTwo ==
    ASSUME NEW a \in Nat, NEW b \in Nat
    PROVE  Min({a, b}) = IF a =< b THEN a ELSE b
<1>1. PICK m : m = IF a =< b THEN a ELSE b
  OBVIOUS
<1>2. m \in {a, b} /\ \A x \in {a, b} : m =< x
  BY <1>1
<1>3. \A n \in {a, b} : (\A x \in {a, b} : n =< x) => n = m
  BY <1>1
<1> QED
  BY <1>1, <1>2, <1>3 DEF Min

(* The volume of some resting orders is a number. *)
LEMMA TotalIsNat ==
    ASSUME EngineTypes, NEW S \in SUBSET resting
    PROVE  Total(S) \in Nat
<1>1. IsFiniteSet(S)
  BY FS_Subset DEF EngineTypes
<1>2. [o \in S |-> o.vol] \in [S -> Nat]
  BY DEF EngineTypes, IsOrder
<1> QED
  BY <1>1, <1>2, UnitsFinite DEF Total

\* What an order executes changes: everyone involved loses the volume that it
\* trades, which the buffer gains if it is synthetic; and nothing else changes.
Trades(taker, rests, v) ==
    /\ v \in [resting \cup {taker} -> Nat]
    /\ \A o \in resting \cup {taker} : v[o] =< o.vol
    /\ resting' = {[o EXCEPT !.vol = o.vol - v[o]] :
                     o \in {p \in resting \cup {taker} : v[p] < p.vol /\ (p = taker => rests)}}
    /\ last' = last + 1
    /\ fills' = [id \in DOMAIN fills' |-> fills'[id]]
    /\ \A id \in DOMAIN fills' : id \in 1..(last + 1) /\ fills'[id] \in Nat
    /\ \A o \in resting \cup {taker} :
          Volume(fills', o.id) = Volume(fills, o.id) + (IF o.synth THEN v[o] ELSE 0)
    /\ \A id : (\A o \in resting \cup {taker} : o.id # id) => Volume(fills', id) = Volume(fills, id)

LEMMA ExecuteTrades ==
    ASSUME EngineTypes, NEW taker, IsOrder(taker), taker.id = last + 1, NEW rests, Execute(taker, rests)
    PROVE  \E v : Trades(taker, rests, v)
<1> DEFINE volume(o) == IF o = taker THEN Takes(taker) ELSE Gives(taker, o)
           involved  == resting \cup {taker}
           hit       == {o \in involved : o.synth /\ volume(o) > 0}
<1>1. last \in Nat /\ taker.id \in Nat /\ taker.vol \in Nat /\ taker \notin resting
  BY DEF EngineTypes, IsOrder
<1>2. \A o, p \in involved : o.id = p.id => o = p
  BY <1>1 DEF EngineTypes
<1>3. \A o \in involved : o.vol \in Nat /\ o.id \in 1..(last + 1)
  BY <1>1 DEF EngineTypes, IsOrder
<1>4. ASSUME NEW o \in involved PROVE volume(o) \in Nat /\ volume(o) =< o.vol
  <2>1. CASE o = taker
    <3>1. PICK n : n = Total({p \in resting : Reaches(taker, p)})
      OBVIOUS
    <3>2. n \in Nat
      BY <3>1, TotalIsNat
    <3> QED
      BY <1>1, <2>1, <3>1, <3>2, MinOfTwo DEF Takes
  <2>2. CASE o # taker
    <3>1. PICK n : n = Total(Ahead(taker, o))
      OBVIOUS
    <3>2. n \in Nat
      BY <3>1, TotalIsNat DEF Ahead
    <3>3. PICK k : k = taker.vol - n /\ k = LeftFor(taker, o)
      BY <3>1 DEF LeftFor
    <3>4. k \in Int
      BY <1>1, <3>2, <3>3
    <3>5. PICK m : m = Gives(taker, o)
      OBVIOUS
    <3>6. m = 0 \/ (k > 0 /\ m = Min({o.vol, k}))
      <4>1. CASE Reaches(taker, o) /\ LeftFor(taker, o) > 0
        BY <3>3, <3>5, <4>1 DEF Gives
      <4>2. CASE ~(Reaches(taker, o) /\ LeftFor(taker, o) > 0)
        BY ONLY <3>5, <4>2 DEF Gives
      <4> QED
        BY <4>1, <4>2
    <3>7. m \in Nat /\ m =< o.vol
      <4>1. CASE m = 0
        BY <1>3, <4>1
      <4>2. CASE k > 0 /\ m = Min({o.vol, k})
        BY <1>3, <3>4, <4>2, MinOfTwo
      <4> QED
        BY <3>6, <4>1, <4>2
    <3> QED
      BY <2>2, <3>5, <3>7
  <2> QED
    BY <2>1, <2>2
<1>5. PICK v : v = [o \in involved |-> volume(o)]
  OBVIOUS
<1>6. v \in [involved -> Nat] /\ \A o \in involved : v[o] = volume(o) /\ v[o] =< o.vol
  BY <1>4, <1>5
<1>7. /\ resting' = {[o EXCEPT !.vol = o.vol - volume(o)] :
                       o \in {p \in involved : p.vol - volume(p) > 0 /\ (p = taker => rests)}}
      /\ fills' = [id \in DOMAIN fills \cup {o.id : o \in hit} |->
                     IF \E o \in hit : o.id = id
                       THEN Report(id, volume(CHOOSE o \in hit : o.id = id)) ELSE fills[id]]
      /\ last' = taker.id
  BY DEF Execute
<1>8. resting' = {[o EXCEPT !.vol = o.vol - v[o]] :
                    o \in {p \in involved : v[p] < p.vol /\ (p = taker => rests)}}
  <2>1. \A o \in involved : o.vol - volume(o) > 0 <=> v[o] < o.vol
    BY <1>3, <1>6
  <2>2. {p \in involved : p.vol - volume(p) > 0 /\ (p = taker => rests)}
          = {p \in involved : v[p] < p.vol /\ (p = taker => rests)}
    BY <2>1
  <2> HIDE DEF volume
  <2> QED
    BY <1>6, <1>7, <2>2
<1>9. \A id \in DOMAIN fills : fills[id] \in Nat /\ id \in 1..last
  BY DEF EngineTypes
<1>10. \A id : Volume(fills, id) \in Nat
  BY <1>9 DEF Volume
<1> HIDE DEF volume
<1>11. ASSUME NEW o \in hit PROVE o.id \in DOMAIN fills' /\ fills'[o.id] = Volume(fills, o.id) + v[o]
  <2>1. (CHOOSE p \in hit : p.id = o.id) = o
    BY <1>2
  <2>2. volume(o) = v[o]
    BY <1>6
  <2> QED
    BY <1>7, <2>1, <2>2 DEF Report
<1>12. ASSUME NEW id, \A o \in hit : o.id # id PROVE Volume(fills', id) = Volume(fills, id)
  BY <1>7, <1>12 DEF Volume
<1>13. ASSUME NEW o \in involved
       PROVE  Volume(fills', o.id) = Volume(fills, o.id) + (IF o.synth THEN v[o] ELSE 0)
  <2>1. CASE o \in hit
    BY <1>11, <2>1 DEF Volume
  <2>2. CASE o \notin hit
    <3>1. \A p \in hit : p.id # o.id
      BY <1>2, <2>2
    <3>2. ~o.synth \/ v[o] = 0
      BY <1>6, <2>2
    <3> QED
      BY <1>10, <1>12, <3>1, <3>2
  <2> QED
    BY <2>1, <2>2
<1>14. ASSUME NEW id \in DOMAIN fills' PROVE id \in 1..(last + 1) /\ fills'[id] \in Nat
  <2>1. CASE \E o \in hit : o.id = id
    BY <1>3, <1>6, <1>10, <1>11, <2>1
  <2>2. CASE \A o \in hit : o.id # id
    BY <1>1, <1>7, <1>9, <2>2
  <2> QED
    BY <2>1, <2>2
<1>15. fills' = [id \in DOMAIN fills' |-> fills'[id]]
  BY <1>7
<1>16. Trades(taker, rests, v)
  BY <1>1, <1>6, <1>7, <1>8, <1>12, <1>13, <1>14, <1>15 DEF Trades
<1> QED
  BY <1>16

LevelOf(o) == <<o.side, o.price>>

\* What the seeder believes of a level, less the fills still buffered, is what
\* rests under its id there, or nothing where nothing rests under its id.
Known(l) ==
    /\ placed[l] = [id |-> placed[l].id, vol |-> placed[l].vol]
    /\ placed[l].id \in 1..last /\ placed[l].vol \in Nat
    /\ \/ \E o \in resting : /\ o.synth /\ LevelOf(o) = l /\ o.id = placed[l].id
                             /\ o.vol + Volume(fills, o.id) = placed[l].vol
       \/ /\ \A o \in resting : o.id # placed[l].id
          /\ Volume(fills, placed[l].id) = placed[l].vol

PlacedTypes ==
    /\ placed = [l \in DOMAIN placed |-> placed[l]]
    /\ DOMAIN placed \subseteq BookLevels
    /\ \A l \in DOMAIN placed : Known(l)
    /\ \A o \in resting : o.synth => LevelOf(o) \in DOMAIN placed /\ placed[LevelOf(o)].id = o.id

\* A level to be placed is free once the cancels are done.
PassTypes ==
    /\ pass = [stage |-> pass.stage, half |-> pass.half, cancels |-> pass.cancels,
               places |-> pass.places]
    /\ pass.cancels \subseteq DOMAIN placed
    /\ DOMAIN pass.places \subseteq BookLevels
    /\ \A l \in DOMAIN pass.places :
          /\ pass.places[l] \in Nat /\ pass.places[l] > 0
          /\ l \in DOMAIN placed => l \in pass.cancels

RefTypes ==
    /\ ref = [seen |-> ref.seen, book |-> ref.book]
    /\ ref.book \in [BookLevels -> Nat]

SeederInv == EngineTypes /\ PlacedTypes /\ PassTypes /\ RefTypes

\* An order that executes leaves the engine well formed.
LEMMA TradesKeepTypes ==
    ASSUME EngineTypes, NEW taker, IsOrder(taker), taker.id = last + 1, NEW rests, NEW v,
           Trades(taker, rests, v)
    PROVE  EngineTypes'
<1> DEFINE involved == resting \cup {taker}
           stays    == {p \in involved : v[p] < p.vol /\ (p = taker => rests)}
           less     == [o \in stays |-> [o EXCEPT !.vol = o.vol - v[o]]]
<1>1. IsFiniteSet(stays)
  <2>1. IsFiniteSet(involved)
    BY FS_AddElement DEF EngineTypes
  <2> QED
    BY <2>1, FS_Subset
<1>2. last \in Nat /\ last' = last + 1
  BY DEF EngineTypes, Trades
<1>3. \A o \in involved : IsOrder(o) /\ o.id \in 1..(last + 1) /\ v[o] \in Nat /\ v[o] =< o.vol
  BY <1>2 DEF EngineTypes, IsOrder, Trades
<1>4. \A o, p \in involved : o.id = p.id => o = p
  BY <1>2 DEF EngineTypes
<1>5. resting' = {less[o] : o \in stays}
  BY DEF Trades
<1>6. \A o \in stays : /\ less[o].id = o.id /\ less[o].synth = o.synth /\ less[o].vol = o.vol - v[o]
                       /\ less[o] = [id |-> less[o].id, synth |-> less[o].synth, side |-> less[o].side,
                                     price |-> less[o].price, vol |-> less[o].vol]
  BY <1>3 DEF IsOrder
<1>7. IsFiniteSet(resting')
  <2>1. less \in Surjection(stays, resting')
    BY <1>5 DEF Surjection
  <2> QED
    BY <1>1, <2>1, FS_Surjection
<1>8. ASSUME NEW q \in resting' PROVE IsOrder(q) /\ q.vol > 0 /\ q.id \in 1..last'
  <2>1. PICK o \in stays : q = less[o]
    BY <1>5
  <2>2. q.id = o.id /\ q.synth = o.synth /\ q.vol = o.vol - v[o]
    BY <1>6, <2>1
  <2>3. o.vol - v[o] \in Nat /\ o.vol - v[o] > 0
    BY <1>3 DEF IsOrder
  <2>4. q = [id |-> q.id, synth |-> q.synth, side |-> q.side, price |-> q.price, vol |-> q.vol]
    BY <1>6, <2>1
  <2>5. o.id \in Nat /\ o.id \in 1..(last + 1) /\ o.synth \in BOOLEAN
    BY <1>3 DEF IsOrder
  <2> QED
    BY <1>2, <2>2, <2>3, <2>4, <2>5 DEF IsOrder
<1>9. ASSUME NEW q \in resting', NEW r \in resting', q.id = r.id PROVE q = r
  <2>1. PICK o \in stays : q = less[o]
    BY <1>5
  <2>2. PICK p \in stays : r = less[p]
    BY <1>5
  <2> QED
    BY <1>4, <1>6, <1>9, <2>1, <2>2
<1>10. /\ fills' = [id \in DOMAIN fills' |-> fills'[id]]
       /\ \A id \in DOMAIN fills' : id \in 1..last' /\ fills'[id] \in Nat
  BY <1>2 DEF Trades
<1> QED
  BY <1>2, <1>7, <1>8, <1>9, <1>10 DEF EngineTypes

\* What the seeder knows of a level it still knows after any order of somebody
\* else or of another level has executed.
LEMMA TradesKeepKnown ==
    ASSUME EngineTypes, NEW taker, IsOrder(taker), taker.id = last + 1, NEW rests, NEW v,
           Trades(taker, rests, v), NEW l, Known(l), placed'[l] = placed[l]
    PROVE  Known(l)'
<1>1. last \in Nat /\ last' = last + 1
  BY DEF EngineTypes, Trades
<1>2. PICK w : w = placed[l] /\ w = [id |-> w.id, vol |-> w.vol] /\ w.id \in 1..last /\ w.vol \in Nat
  BY DEF Known
<1>3. w.id \in 1..last' /\ w.id # taker.id
  BY <1>1, <1>2
<1>4. ASSUME NEW o \in resting, o.synth, LevelOf(o) = l, o.id = w.id, o.vol + Volume(fills, o.id) = w.vol
      PROVE  Known(l)'
  <2>1. PICK n, m : n = o.vol /\ m = v[o]
    OBVIOUS
  <2>2. n \in Nat /\ m \in Nat /\ m =< n /\ IsOrder(o) /\ taker # o
    BY <1>3, <1>4, <2>1 DEF EngineTypes, IsOrder, Trades
  <2>3. PICK a, b : a = Volume(fills, o.id) /\ b = Volume(fills', o.id)
    OBVIOUS
  <2>4. a \in Nat
    BY <2>3 DEF EngineTypes, Volume
  <2>5. b = a + m
    BY <1>4, <2>1, <2>3 DEF Trades
  <2>6. CASE m < n
    <3>1. PICK q : q = [o EXCEPT !.vol = o.vol - v[o]]
      OBVIOUS
    <3>2. q \in resting'
      BY <2>1, <2>2, <2>6, <3>1 DEF Trades
    <3>3. q.synth = o.synth /\ q.side = o.side /\ q.price = o.price /\ q.id = o.id /\ q.vol = n - m
      BY <2>1, <2>2, <3>1 DEF IsOrder
    <3>4. q.vol + b = w.vol
      BY <1>4, <2>1, <2>2, <2>3, <2>4, <2>5, <3>3
    <3>5. LevelOf(q) = l
      BY <1>4, <3>3 DEF LevelOf
    <3> QED
      BY <1>2, <1>3, <1>4, <2>3, <3>2, <3>3, <3>4, <3>5 DEF Known
  <2>7. CASE m = n
    <3>1. b = w.vol
      BY <1>4, <2>1, <2>2, <2>3, <2>4, <2>5, <2>7
    <3>2. ASSUME NEW q \in resting' PROVE q.id # w.id
      <4>1. PICK p \in resting \cup {taker} : v[p] < p.vol /\ q = [p EXCEPT !.vol = p.vol - v[p]]
        BY DEF Trades
      <4>2. q.id = p.id
        BY <4>1 DEF EngineTypes, IsOrder
      <4>3. p # o
        <5>1. ~(m < n)
          BY <2>2, <2>7
        <5> QED
          BY ONLY <2>1, <4>1, <5>1
      <4> QED
        BY <1>3, <1>4, <4>2, <4>3 DEF EngineTypes
    <3> QED
      BY <1>2, <1>3, <1>4, <2>3, <3>1, <3>2 DEF Known
  <2> QED
    BY <2>2, <2>6, <2>7
<1>5. ASSUME \A o \in resting : o.id # w.id, Volume(fills, w.id) = w.vol
      PROVE  Known(l)'
  <2>1. Volume(fills', w.id) = w.vol
    BY <1>3, <1>5 DEF Trades
  <2>2. ASSUME NEW q \in resting' PROVE q.id # w.id
    <3>1. PICK p \in resting \cup {taker} : v[p] < p.vol /\ q = [p EXCEPT !.vol = p.vol - v[p]]
      BY DEF Trades
    <3>2. q.id = p.id
      BY <3>1 DEF EngineTypes, IsOrder
    <3> QED
      BY <1>3, <1>5, <3>2
  <2> QED
    BY <1>2, <1>3, <2>1, <2>2 DEF Known
<1> QED
  BY <1>2, <1>4, <1>5 DEF Known

\* The same of every level, when nothing is placed.
LEMMA OthersKeepInv ==
    ASSUME SeederInv, NEW taker, IsOrder(taker), taker.id = last + 1, ~taker.synth, NEW rests,
           Execute(taker, rests), UNCHANGED <<ref, placed, pass>>
    PROVE  SeederInv'
<1>1. PICK v : Trades(taker, rests, v)
  BY ExecuteTrades DEF SeederInv
<1>2. EngineTypes'
  BY <1>1, TradesKeepTypes DEF SeederInv
<1>3. \A l \in DOMAIN placed' : Known(l)'
  <2>1. SUFFICES ASSUME NEW l \in DOMAIN placed PROVE Known(l)'
    OBVIOUS
  <2> QED
    BY <1>1, TradesKeepKnown DEF SeederInv, PlacedTypes
<1>4. ASSUME NEW q \in resting', q.synth PROVE LevelOf(q) \in DOMAIN placed' /\ placed'[LevelOf(q)].id = q.id
  <2>1. PICK o \in resting \cup {taker} : q = [o EXCEPT !.vol = o.vol - v[o]]
    BY <1>1 DEF Trades
  <2>2. q.id = o.id /\ q.synth = o.synth /\ q.side = o.side /\ q.price = o.price
    BY <2>1 DEF SeederInv, EngineTypes, IsOrder
  <2>3. o \in resting /\ o.synth /\ LevelOf(q) = LevelOf(o)
    BY <1>4, <2>2 DEF LevelOf
  <2> QED
    BY <2>2, <2>3 DEF SeederInv, PlacedTypes
<1>5. PlacedTypes'
  BY <1>3, <1>4 DEF PlacedTypes, SeederInv, LevelOf
<1>6. PassTypes' /\ RefTypes'
  BY DEF SeederInv, PassTypes, RefTypes
<1> QED
  BY <1>2, <1>5, <1>6 DEF SeederInv

\* A level that is free when an order is placed there is known afterwards.
LEMMA PlaceKeepsInv ==
    ASSUME SeederInv, PlaceLevel
    PROVE  SeederInv'
<1>1. PICK l \in DOMAIN pass.places :
          LET new == NewOrder(TRUE, l[1], l[2], pass.places[l])
          IN  /\ Execute(new, TRUE)
              /\ placed' = [m \in DOMAIN placed \cup {l} |->
                              IF m = l THEN [id |-> new.id, vol |-> new.vol] ELSE placed[m]]
              /\ pass' = IF DOMAIN pass.places = {l} THEN Idle
                         ELSE [pass EXCEPT !.places = Without(@, {l})]
  BY DEF PlaceLevel
<1>2. PICK order :
          /\ order = NewOrder(TRUE, l[1], l[2], pass.places[l])
          /\ Execute(order, TRUE)
          /\ placed' = [m \in DOMAIN placed \cup {l} |->
                          IF m = l THEN [id |-> order.id, vol |-> order.vol] ELSE placed[m]]
          /\ pass' = IF DOMAIN pass.places = {l} THEN Idle
                     ELSE [pass EXCEPT !.places = Without(@, {l})]
  BY <1>1
<1>3. pass.cancels = {} /\ ref' = ref
  BY DEF PlaceLevel
<1>4. PICK n : n = pass.places[l]
  OBVIOUS
<1>5. n \in Nat /\ n > 0 /\ l \in BookLevels /\ l \notin DOMAIN placed
  BY <1>2, <1>3, <1>4 DEF SeederInv, PassTypes
<1>6. l = <<l[1], l[2]>>
  BY <1>5 DEF BookLevels
<1>7. last \in Nat
  BY DEF SeederInv, EngineTypes
<1>8. IsOrder(order) /\ order.id = last + 1 /\ order.synth /\ LevelOf(order) = l /\ order.vol = n
  <2>1. TRUE \in BOOLEAN /\ last + 1 \in Nat
    BY <1>7
  <2> QED
    BY <1>2, <1>3, <1>4, <1>5, <1>6, <2>1 DEF NewOrder, IsOrder, LevelOf
<1>9. PICK v : Trades(order, TRUE, v)
  BY <1>2, <1>3, <1>8, ExecuteTrades DEF SeederInv
<1>10. EngineTypes'
  BY <1>8, <1>9, TradesKeepTypes DEF SeederInv
<1>11. placed' = [m \in DOMAIN placed' |-> placed'[m]] /\ DOMAIN placed' = DOMAIN placed \cup {l}
  BY <1>2, <1>3
<1>12. placed'[l] = [id |-> last + 1, vol |-> n] /\ \A m \in DOMAIN placed : placed'[m] = placed[m]
  BY <1>2, <1>3, <1>5, <1>8
<1>13. \A m \in DOMAIN placed : Known(m)'
  <2>1. SUFFICES ASSUME NEW m \in DOMAIN placed PROVE Known(m)'
    OBVIOUS
  <2>2. placed'[m] = placed[m] /\ Known(m)
    BY <1>12 DEF SeederInv, PlacedTypes
  <2> QED
    BY <1>8, <1>9, <2>2, TradesKeepKnown DEF SeederInv
<1>14. Known(l)'
  <2>1. PICK m, a, b : m = v[order] /\ a = Volume(fills, last + 1) /\ b = Volume(fills', last + 1)
    OBVIOUS
  <2>2. m \in Nat /\ m =< n
    BY <1>8, <1>9, <2>1 DEF Trades
  <2>3. a = 0
    BY <1>7, <2>1 DEF SeederInv, EngineTypes, Volume
  <2>4. b = m
    <3>1. b = a + m
      BY <1>8, <1>9, <2>1 DEF Trades
    <3> QED
      BY <2>2, <2>3, <3>1
  <2>5. last' = last + 1 /\ last + 1 \in 1..last'
    BY <1>7, <1>9 DEF Trades
  <2>6. CASE m < n
    <3>1. PICK q : q = [order EXCEPT !.vol = order.vol - v[order]]
      OBVIOUS
    <3>2. q \in resting'
      BY <1>8, <1>9, <2>1, <2>6, <3>1 DEF Trades
    <3>3. q.synth = order.synth /\ q.side = order.side /\ q.price = order.price /\ q.id = last + 1
          /\ q.vol = n - m
      BY <1>8, <2>1, <3>1 DEF IsOrder
    <3>4. q.vol + b = n /\ LevelOf(q) = l /\ q.synth
      BY <1>5, <1>8, <2>2, <2>4, <3>3 DEF LevelOf
    <3> QED
      BY <1>5, <1>12, <2>1, <2>5, <3>2, <3>3, <3>4 DEF Known
  <2>7. CASE m = n
    <3>1. ASSUME NEW q \in resting' PROVE q.id # last + 1
      <4>1. PICK p \in resting \cup {order} : v[p] < p.vol /\ q = [p EXCEPT !.vol = p.vol - v[p]]
        BY <1>9 DEF Trades
      <4>2. q.id = p.id
        BY <1>8, <4>1 DEF SeederInv, EngineTypes, IsOrder
      <4>3. p # order
        <5>1. ~(m < n)
          BY <2>2, <2>7
        <5> QED
          BY ONLY <1>8, <2>1, <4>1, <5>1
      <4> QED
        BY <1>7, <4>2, <4>3 DEF SeederInv, EngineTypes
    <3> QED
      BY <1>5, <1>12, <2>1, <2>4, <2>5, <2>7, <3>1 DEF Known
  <2> QED
    BY <1>5, <2>2, <2>6, <2>7
<1>15. ASSUME NEW q \in resting', q.synth PROVE LevelOf(q) \in DOMAIN placed' /\ placed'[LevelOf(q)].id = q.id
  <2>1. PICK o \in resting \cup {order} : q = [o EXCEPT !.vol = o.vol - v[o]]
    BY <1>9 DEF Trades
  <2>2. q.id = o.id /\ q.synth = o.synth /\ q.side = o.side /\ q.price = o.price
    BY <1>8, <2>1 DEF SeederInv, EngineTypes, IsOrder
  <2>3. CASE o = order
    BY <1>8, <1>11, <1>12, <2>2, <2>3 DEF LevelOf
  <2>4. CASE o \in resting
    <3>1. LevelOf(q) = LevelOf(o) /\ o.synth
      BY <1>15, <2>2 DEF LevelOf
    <3>2. LevelOf(o) \in DOMAIN placed /\ placed[LevelOf(o)].id = o.id
      BY <2>4, <3>1 DEF SeederInv, PlacedTypes
    <3> QED
      BY <1>11, <1>12, <2>2, <3>1, <3>2
  <2> QED
    BY <2>3, <2>4
<1>16. PlacedTypes'
  <2>1. DOMAIN placed' \subseteq BookLevels
    BY <1>5, <1>11 DEF SeederInv, PlacedTypes
  <2>2. \A m \in DOMAIN placed' : Known(m)'
    BY <1>11, <1>13, <1>14
  <2> QED
    BY <1>11, <1>15, <2>1, <2>2 DEF PlacedTypes, LevelOf
<1>17. PassTypes'
  <2>1. CASE pass' = Idle
    BY <2>1 DEF PassTypes, Idle, NoLevels
  <2>2. CASE pass' = [pass EXCEPT !.places = Without(@, {l})]
    <3>1. pass'.cancels = {} /\ pass'.stage = pass.stage /\ pass'.half = pass.half
          /\ pass'.places = [m \in DOMAIN pass.places \ {l} |-> pass.places[m]]
          /\ pass' = [stage |-> pass'.stage, half |-> pass'.half, cancels |-> pass'.cancels,
                      places |-> pass'.places]
      BY <1>2, <1>3, <2>2 DEF SeederInv, PassTypes, Without
    <3>2. DOMAIN pass'.places = DOMAIN pass.places \ {l}
          /\ \A m \in DOMAIN pass'.places : pass'.places[m] = pass.places[m]
      BY <3>1
    <3>3. \A m \in DOMAIN pass'.places : m \notin DOMAIN placed'
      BY <1>2, <1>3, <1>11, <3>2 DEF SeederInv, PassTypes
    <3> QED
      BY <3>1, <3>2, <3>3 DEF SeederInv, PassTypes
  <2> QED
    BY <1>2, <1>3, <2>1, <2>2
<1>18. RefTypes'
  BY <1>2, <1>3 DEF SeederInv, RefTypes
<1> QED
  BY <1>10, <1>16, <1>17, <1>18 DEF SeederInv

\* A level cancelled takes with it the one order that rests under its id.
LEMMA CancelKeepsInv ==
    ASSUME SeederInv, NEW l, CancelLevel(l)
    PROVE  SeederInv'
<1>1. /\ l \in pass.cancels /\ l \in DOMAIN placed
      /\ resting' = {o \in resting : o.id # placed[l].id}
      /\ placed' = [m \in DOMAIN placed \ {l} |-> placed[m]]
      /\ UNCHANGED <<ref, last, fills>>
      /\ pass' = IF pass.cancels = {l} /\ pass.places = NoLevels THEN Idle
                 ELSE [pass EXCEPT !.cancels = @ \ {l}]
  BY DEF CancelLevel, Without, SeederInv, PassTypes
<1>2. resting' \subseteq resting /\ IsFiniteSet(resting')
  BY <1>1, FS_Subset DEF SeederInv, EngineTypes
<1>3. EngineTypes'
  BY <1>1, <1>2 DEF SeederInv, EngineTypes
<1>4. DOMAIN placed' = DOMAIN placed \ {l} /\ \A m \in DOMAIN placed' : placed'[m] = placed[m]
  BY <1>1
<1>5. Known(l) /\ \A o, p \in resting : o.id = p.id => o = p
  BY <1>1 DEF SeederInv, PlacedTypes, EngineTypes
<1>6. ASSUME NEW m \in DOMAIN placed' PROVE Known(m)'
  <2>1. Known(m) /\ m # l /\ placed'[m] = placed[m]
    BY <1>4 DEF SeederInv, PlacedTypes
  <2>2. ASSUME NEW o \in resting, LevelOf(o) = m, o.synth PROVE o \in resting'
    <3>1. placed[m].id = o.id /\ o.id # placed[l].id
      <4>1. placed[m].id = o.id
        BY <2>2 DEF SeederInv, PlacedTypes
      <4>2. o.id # placed[l].id
        BY <1>5, <2>1, <2>2 DEF Known
      <4> QED
        BY <4>1, <4>2
    <3> QED
      BY <1>1, <3>1
  <2> QED
    BY <1>1, <1>2, <2>1, <2>2 DEF Known
<1>7. ASSUME NEW o \in resting', o.synth PROVE LevelOf(o) \in DOMAIN placed' /\ placed'[LevelOf(o)].id = o.id
  <2>1. o \in resting /\ o.id # placed[l].id /\ LevelOf(o) \in DOMAIN placed /\ placed[LevelOf(o)].id = o.id
    BY <1>1, <1>7 DEF SeederInv, PlacedTypes
  <2> QED
    BY <1>4, <2>1
<1>8. PlacedTypes'
  <2>1. placed' = [m \in DOMAIN placed' |-> placed'[m]] /\ DOMAIN placed' \subseteq BookLevels
    BY <1>1, <1>4 DEF SeederInv, PlacedTypes
  <2> QED
    BY <1>6, <1>7, <2>1 DEF PlacedTypes, LevelOf
<1>9. PassTypes'
  <2>1. CASE pass' = Idle
    BY <2>1 DEF PassTypes, Idle, NoLevels
  <2>2. CASE pass' = [pass EXCEPT !.cancels = @ \ {l}]
    <3>1. pass'.cancels = pass.cancels \ {l} /\ pass'.stage = pass.stage /\ pass'.half = pass.half
          /\ pass'.places = pass.places
          /\ pass' = [stage |-> pass'.stage, half |-> pass'.half, cancels |-> pass'.cancels,
                      places |-> pass'.places]
      BY <2>2 DEF SeederInv, PassTypes
    <3> QED
      BY <1>4, <3>1 DEF SeederInv, PassTypes
  <2> QED
    BY <1>1, <2>1, <2>2
<1>10. RefTypes'
  BY <1>1 DEF SeederInv, RefTypes
<1> QED
  BY <1>3, <1>8, <1>9, <1>10 DEF SeederInv

\* Folding the buffer in leaves the levels under which an order rests, at what
\* rests there.
LEMMA PlanKeepsInv ==
    ASSUME SeederInv, Plan
    PROVE  SeederInv'
<1> DEFINE depth      == Depth(ref.book, DepthLevels)
           current(l) == IF l \in DOMAIN Folded THEN Folded[l].vol ELSE 0
           target(l)  == Target(current(l), depth[l])
           changes == {l \in BookLevels :
                         IF l \in DOMAIN Folded
                           THEN target(l) - current(l) \notin (-Eps)..Eps
                           ELSE target(l) > 0}
<1>1. /\ placed' = Folded /\ fills' = NoLevels /\ UNCHANGED <<ref, resting, last>>
      /\ pass' = IF changes = {} THEN Idle ELSE
                   [pass EXCEPT !.stage = "changing", !.cancels = changes \cap DOMAIN Folded,
                      !.places = [l \in {m \in changes : target(m) > 0} |-> target(l)]]
  BY DEF Plan
<1>2. \A x : Volume(fills, x) \in Nat /\ Volume(fills', x) = 0
  BY <1>1 DEF SeederInv, EngineTypes, Volume, NoLevels
<1>3. EngineTypes'
  <2>1. DOMAIN fills' = {} /\ fills' = [id \in DOMAIN fills' |-> fills'[id]]
    BY <1>1 DEF NoLevels
  <2> QED
    BY <1>1, <2>1 DEF SeederInv, EngineTypes
<1>4. /\ DOMAIN Folded = {l \in DOMAIN placed : placed[l].vol - Volume(fills, placed[l].id) > 0}
      /\ \A l \in DOMAIN Folded :
            Folded[l] = [placed[l] EXCEPT !.vol = placed[l].vol - Volume(fills, placed[l].id)]
      /\ Folded = [l \in DOMAIN Folded |-> Folded[l]]
  BY DEF Folded
<1>5. ASSUME NEW l \in DOMAIN Folded PROVE Known(l)' /\ Folded[l].vol \in Nat
  <2>1. l \in DOMAIN placed /\ Known(l)
    BY <1>4 DEF SeederInv, PlacedTypes
  <2>2. PICK n, a : n = placed[l].vol /\ a = Volume(fills, placed[l].id)
    OBVIOUS
  <2>3. n \in Nat /\ a \in Nat /\ n - a > 0
    BY <1>2, <1>4, <2>1, <2>2 DEF Known
  <2>4. Folded[l] = [id |-> placed[l].id, vol |-> n - a] /\ placed'[l] = Folded[l]
    BY <1>1, <1>4, <2>1, <2>2 DEF Known
  <2>5. PICK o \in resting : /\ o.synth /\ LevelOf(o) = l /\ o.id = placed[l].id
                             /\ o.vol + Volume(fills, o.id) = placed[l].vol
    BY <2>1, <2>2, <2>3 DEF Known
  <2>6. PICK k : k = o.vol
    OBVIOUS
  <2>7. k \in Nat /\ k + a = n
    BY <2>2, <2>5, <2>6 DEF SeederInv, EngineTypes, IsOrder
  <2>8. k = n - a /\ k + 0 = n - a
    BY <2>3, <2>7
  <2>9. o.vol + Volume(fills', o.id) = n - a
    BY <1>2, <2>6, <2>8
  <2> QED
    BY <1>1, <2>1, <2>3, <2>4, <2>5, <2>8, <2>9 DEF Known
<1>6. ASSUME NEW o \in resting, o.synth
      PROVE  LevelOf(o) \in DOMAIN Folded /\ Folded[LevelOf(o)].id = o.id
  <2>1. PICK l : l = LevelOf(o)
    OBVIOUS
  <2>2. l \in DOMAIN placed /\ placed[l].id = o.id /\ Known(l)
    BY <1>6, <2>1 DEF SeederInv, PlacedTypes
  <2>3. o.vol + Volume(fills, o.id) = placed[l].vol
    BY <2>2 DEF SeederInv, EngineTypes, Known
  <2>4. PICK k, a : k = o.vol /\ a = Volume(fills, o.id)
    OBVIOUS
  <2>5. k \in Nat /\ k > 0 /\ a \in Nat
    BY <1>2, <2>4 DEF SeederInv, EngineTypes, IsOrder
  <2>6. placed[l].vol - Volume(fills, placed[l].id) > 0
    <3>1. (k + a) - a > 0
      BY <2>5
    <3> QED
      BY <2>2, <2>3, <2>4, <3>1
  <2>7. l \in DOMAIN Folded
    BY <1>4, <2>2, <2>6
  <2>8. Folded[l].id = placed[l].id
    BY <1>4, <2>2, <2>7 DEF Known
  <2> QED
    BY <2>1, <2>2, <2>7, <2>8
<1>7. PlacedTypes'
  <2>1. DOMAIN placed' \subseteq BookLevels /\ placed' = [l \in DOMAIN placed' |-> placed'[l]]
    BY <1>1, <1>4 DEF SeederInv, PlacedTypes
  <2>2. \A l \in DOMAIN placed' : Known(l)'
    BY <1>1, <1>5
  <2>3. \A o \in resting' : o.synth => LevelOf(o) \in DOMAIN placed' /\ placed'[LevelOf(o)].id = o.id
    BY <1>1, <1>6
  <2> QED
    BY <2>1, <2>2, <2>3 DEF PlacedTypes, LevelOf
<1>8. ASSUME NEW l \in BookLevels PROVE target(l) \in Nat
  <2>1. PICK c : c = current(l)
    OBVIOUS
  <2>2. c \in Nat
    BY <1>5, <2>1
  <2>3. PICK w : w = depth[l]
    OBVIOUS
  <2>4. w \in Nat
    <3>1. DOMAIN ref.book = BookLevels /\ ref.book[l] \in Nat
      BY DEF SeederInv, RefTypes
    <3>2. depth[l] = ref.book[l] \/ depth[l] = 0
      BY <3>1 DEF Depth
    <3> QED
      BY <2>3, <3>1, <3>2
  <2>5. PICK h : h = Half(w - c)
    OBVIOUS
  <2>6. c + h \in Nat
    <3>1. CASE w >= c
      <4>1. w - c >= 0 /\ w - c \in Nat
        BY <2>2, <2>4, <3>1
      <4>2. h = (w - c) \div 2
        BY <2>5, <4>1 DEF Half
      <4>3. h \in Nat
        BY <4>1, <4>2
      <4> QED
        BY <2>2, <4>3
    <3>2. CASE w < c
      <4>1. ~(w - c >= 0) /\ -(w - c) = c - w
        BY <2>2, <2>4, <3>2
      <4>2. PICK g : g = (c - w) \div 2
        OBVIOUS
      <4>3. h = -g
        BY <2>5, <4>1, <4>2 DEF Half
      <4>4. g \in Nat /\ g =< c
        BY <2>2, <2>4, <3>2, <4>2
      <4> QED
        BY <2>2, <4>3, <4>4
    <3> QED
      BY <2>2, <2>4, <3>1, <3>2
  <2>7. target(l) = Target(c, w)
    BY <2>1, <2>3
  <2>8. Target(c, w) = w \/ Target(c, w) = c + h
    BY <2>5 DEF Target
  <2> QED
    BY ONLY <2>4, <2>6, <2>7, <2>8
<1>9. PassTypes'
  <2>1. CASE changes = {}
    <3>1. pass' = Idle
      BY <1>1, <2>1
    <3> QED
      BY <3>1 DEF PassTypes, Idle, NoLevels
  <2>2. CASE changes # {}
    <3>1. PICK C, P : /\ C = changes \cap DOMAIN Folded
                      /\ P = [l \in {m \in changes : target(m) > 0} |-> target(l)]
      OBVIOUS
    <3>2. /\ C \subseteq DOMAIN placed' /\ DOMAIN P \subseteq BookLevels
          /\ \A l \in DOMAIN P : P[l] \in Nat /\ P[l] > 0 /\ (l \in DOMAIN placed' => l \in C)
      BY <1>1, <1>8, <3>1
    <3>3. pass' = [pass EXCEPT !.stage = "changing", !.cancels = C, !.places = P]
      BY <1>1, <2>2, <3>1
    <3>4. pass' = [stage |-> "changing", half |-> pass.half, cancels |-> C, places |-> P]
      BY <3>3 DEF SeederInv, PassTypes
    <3> QED
      BY <3>2, <3>4 DEF PassTypes
  <2> QED
    BY <2>1, <2>2
<1>10. RefTypes'
  BY <1>1 DEF SeederInv, RefTypes
<1> QED
  BY <1>3, <1>7, <1>9, <1>10 DEF SeederInv

\* A frame leaves a book of quantities behind.
LEMMA FrameKeepsInv ==
    ASSUME SeederInv, NEW frame \in Frames, FrameArrives(frame)
    PROVE  SeederInv'
<1>1. ref' = ApplyFrame(ref, frame) /\ UNCHANGED <<resting, last, placed, fills, pass>>
  BY DEF FrameArrives
<1>2. PICK levels, seen, book : levels = frame.levels /\ seen = ref.seen /\ book = ref.book
  OBVIOUS
<1>3. \A l \in DOMAIN levels : levels[l] \in Nat
  BY <1>2, SeederAssumption
<1>4. book \in [BookLevels -> Nat] /\ ref = [seen |-> seen, book |-> book]
  BY <1>2 DEF SeederInv, RefTypes
<1>5. ASSUME NEW b \in [BookLevels -> Nat] PROVE Over(levels, b) \in [BookLevels -> Nat]
  BY <1>3, <1>5 DEF Over
<1>6. [l \in DOMAIN book |-> 0] \in [BookLevels -> Nat]
  BY <1>4
<1>7. \/ ref' = [seen |-> TRUE, book |-> Over(levels, [l \in DOMAIN book |-> 0])]
      \/ ref' = [seen |-> seen, book |-> Over(levels, book)]
      \/ ref' = ref
  BY <1>1, <1>2, <1>4 DEF ApplyFrame
<1>8. RefTypes'
  <2>1. CASE ref' = [seen |-> TRUE, book |-> Over(levels, [l \in DOMAIN book |-> 0])]
    BY <1>5, <1>6, <2>1 DEF RefTypes
  <2>2. CASE ref' = [seen |-> seen, book |-> Over(levels, book)]
    BY <1>4, <1>5, <2>2 DEF RefTypes
  <2>3. CASE ref' = ref
    BY <2>3 DEF SeederInv, RefTypes
  <2> QED
    BY <1>7, <2>1, <2>2, <2>3
<1>9. EngineTypes' /\ PlacedTypes' /\ PassTypes'
  BY <1>1 DEF SeederInv, EngineTypes, PlacedTypes, PassTypes, Known, Volume, LevelOf
<1> QED
  BY <1>8, <1>9 DEF SeederInv

LEMMA SeederStep == SeederInv /\ [SeederNext]_seederVars => SeederInv'
<1> SUFFICES ASSUME SeederInv, [SeederNext]_seederVars PROVE SeederInv'
  OBVIOUS
<1> USE DEF SeederNext, Converge
<1>1. ASSUME NEW half \in Halves, Check(half) PROVE SeederInv'
  <2>1. pass' = [Idle EXCEPT !.stage = "checked", !.half = half]
        /\ UNCHANGED <<ref, resting, last, placed, fills>>
    BY <1>1 DEF Check
  <2>2. pass' = [stage |-> "checked", half |-> half, cancels |-> {}, places |-> NoLevels]
    BY <2>1 DEF Idle
  <2>3. PassTypes'
    BY <2>2 DEF PassTypes, NoLevels
  <2> QED
    BY <2>1, <2>3 DEF SeederInv, EngineTypes, PlacedTypes, RefTypes, Known, Volume, LevelOf
<1>2. CASE Plan
  BY <1>2, PlanKeepsInv
<1>3. CASE PlaceLevel
  BY <1>3, PlaceKeepsInv
<1>4. ASSUME NEW l \in BookLevels, CancelLevel(l) PROVE SeederInv'
  BY <1>4, CancelKeepsInv
<1>5. ASSUME NEW frame \in Frames, FrameArrives(frame) PROVE SeederInv'
  BY <1>5, FrameKeepsInv
<1>6. ASSUME NEW side, NEW price, NEW vol \in Nat, NEW rests,
             Execute(NewOrder(FALSE, side, price, vol), rests), UNCHANGED <<ref, placed, pass>>
      PROVE  SeederInv'
  <2>1. PICK taker : taker = NewOrder(FALSE, side, price, vol)
    OBVIOUS
  <2>2. last + 1 \in Nat /\ FALSE \in BOOLEAN
    BY DEF SeederInv, EngineTypes
  <2>3. IsOrder(taker) /\ taker.id = last + 1 /\ ~taker.synth
    BY <1>6, <2>1, <2>2 DEF NewOrder, IsOrder
  <2> QED
    BY <1>6, <2>1, <2>3, OthersKeepInv
<1>7. ASSUME NEW order \in Flow, OthersTrade(order) PROVE SeederInv'
  BY <1>6, <1>7, SeederAssumption DEF OthersTrade
<1>8. ASSUME NEW side \in {"buy", "sell"}, NEW offset \in Offsets, Sweep(side, offset) PROVE SeederInv'
  <2>1. Execute(NewOrder(FALSE, side, SweepCap(side, offset), 100), FALSE) /\ UNCHANGED <<ref, placed, pass>>
    BY <1>8 DEF Sweep
  <2> QED
    BY <1>6, <2>1
<1>9. CASE UNCHANGED seederVars
  BY <1>9 DEF seederVars, SeederInv, EngineTypes, PlacedTypes, PassTypes, RefTypes, Known, Volume, LevelOf
<1> QED
  BY <1>1, <1>2, <1>3, <1>4, <1>5, <1>7, <1>8, <1>9

\* At most one synthetic order rests at a level: the one the seeder knows of.
LEMMA KnownIsResting ==
    ASSUME SeederInv
    PROVE  PlacedFollowsBook
<1> SUFFICES ASSUME NEW l \in BookLevels
             PROVE  Resting(l) = IF l \in DOMAIN placed
                                   THEN placed[l].vol - Volume(fills, placed[l].id) ELSE 0
  BY DEF PlacedFollowsBook
<1>1. Rests(l) = {o \in resting : o.synth /\ LevelOf(o) = l}
  BY DEF Rests, LevelOf
<1>2. CASE Rests(l) = {}
  <2>1. Resting(l) = 0
    <3>1. [o \in {} |-> o.vol] \in [{} -> Nat] /\ IsFiniteSet({})
      BY FS_EmptySet
    <3>2. SumOf([o \in {} |-> o.vol]) = 0
      BY <3>1, SumZero
    <3> QED
      BY <1>2, <3>2 DEF Resting, Total
  <2>2. CASE l \in DOMAIN placed
    <3>1. Known(l)
      BY <2>2 DEF SeederInv, PlacedTypes
    <3>2. Volume(fills, placed[l].id) = placed[l].vol /\ placed[l].vol \in Nat
      BY <1>1, <1>2, <3>1 DEF Known
    <3> QED
      BY <2>1, <2>2, <3>2
  <2> QED
    BY <2>1, <2>2
<1>3. ASSUME NEW o \in Rests(l) PROVE Resting(l) = placed[l].vol - Volume(fills, placed[l].id) /\ l \in DOMAIN placed
  <2>1. o \in resting /\ o.synth /\ LevelOf(o) = l /\ l \in DOMAIN placed /\ placed[l].id = o.id /\ Known(l)
    BY <1>1, <1>3 DEF SeederInv, PlacedTypes
  <2>2. Rests(l) = {o}
    BY <1>1, <1>3, <2>1 DEF SeederInv, PlacedTypes, EngineTypes
  <2>3. PICK n, a : n = o.vol /\ a = Volume(fills, o.id)
    OBVIOUS
  <2>4. n \in Nat /\ a \in Nat
    BY <2>1, <2>3 DEF SeederInv, EngineTypes, IsOrder, Volume
  <2>5. n + a = placed[l].vol
    BY <2>1, <2>3 DEF SeederInv, EngineTypes, Known
  <2>6. Resting(l) = n
    <3>1. IsFiniteSet({o}) /\ Cardinality({o}) = 1
      BY FS_Singleton
    <3>2. [p \in {o} |-> p.vol] = [p \in {o} |-> n]
      BY <2>3
    <3>3. SumOf([p \in {o} |-> n]) = 1 * n
      BY <2>4, <3>1, SumConstant
    <3> QED
      BY <2>2, <2>4, <3>2, <3>3 DEF Resting, Total
  <2>7. n = (n + a) - a
    BY <2>4
  <2> QED
    BY <2>1, <2>3, <2>5, <2>6, <2>7
<1> QED
  BY <1>2, <1>3

\* At every moment, also in the middle of a pass, what the seeder believes of a
\* level less the fills its hook has buffered is what rests there, and no order
\* of its own rests anywhere it does not know of (Converge, OnTrade).
THEOREM SeederKnows == SeederSpec => []PlacedFollowsBook
<1>1. SeederInit => SeederInv
  <2> SUFFICES ASSUME SeederInit PROVE SeederInv
    OBVIOUS
  <2> USE DEF SeederInit
  <2>1. EngineTypes
    BY FS_EmptySet DEF EngineTypes, NoLevels
  <2>2. PlacedTypes
    BY DEF PlacedTypes, NoLevels
  <2>3. PassTypes
    BY DEF PassTypes, Idle, NoLevels
  <2>4. RefTypes
    BY DEF RefTypes, Blank
  <2> QED
    BY <2>1, <2>2, <2>3, <2>4 DEF SeederInv
<1>2. SeederInv => PlacedFollowsBook
  BY KnownIsResting
<1> QED
  BY <1>1, <1>2, SeederStep, PTL DEF SeederSpec

-----------------------------------------------------------------------------
(* The dictionaries: the skip list's pointers.                               *)

\* S is what a level of the skip list holds: its pointers g lead from the head
\* and from every key to the next one, and from a key it does not hold nowhere.
Chain(g, S) ==
    /\ g \in [Nodes -> MapKeys \cup {Nil}]
    /\ \A n \in Nodes : g[n] \in S \cup {Nil} /\ n < g[n]
    /\ \A n \in {Root} \cup S, k \in S : n < k => g[n] =< k
    /\ \A n \in MapKeys \ S : g[n] = Nil

\* L is what each level holds: what the levels above it hold too, and nothing
\* above the top level in use.
Tower(f, top, L) ==
    /\ DOMAIN f = Heights
    /\ top \in Heights
    /\ L \in [Heights -> SUBSET MapKeys]
    /\ \A l \in Heights :
         /\ Chain(f[l], L[l])
         /\ top < l => L[l] = {}
         /\ \A m \in 1..l : L[l] \subseteq L[m]

\* p is the node of a level that holds S after which key is found or put.
IsPred(S, key, p) ==
    /\ p \in {Root} \cup S /\ p < key
    /\ \A k \in S : k < key => k =< p
Pred(S, key) == CHOOSE p : IsPred(S, key, p)

(* Keys and nodes are numbers, with the head before and nil after every key. *)
LEMMA KeysAreOrdered ==
    /\ MapKeys \subseteq Nat /\ Nodes \subseteq Nat /\ MapKeys \subseteq Nodes
    /\ Root \in Nodes /\ Root \in Nat /\ Nil \in Nat /\ Nil \notin Nodes
    /\ \A k \in MapKeys : Root < k /\ k < Nil
    /\ \A n \in Nodes : n =< KeyCount /\ n < Nil
    /\ Heights \subseteq Nat \ {0} /\ 1 \in Heights /\ MaxLevel \in Nat /\ KeyCount \in Nat
BY DictAssumption DEF MapKeys, Nodes, Root, Nil, Heights

(* A set of nodes that is not empty has a greatest one. *)
LEMMA GreatestNumber ==
    ASSUME NEW n \in Nat, NEW S \in SUBSET (0..n), S # {}
    PROVE  \E x \in S : \A y \in S : y =< x
<1> DEFINE T == {n - x : x \in S}
<1>1. T \in SUBSET Nat /\ T # {}
  <2>1. PICK x \in S : TRUE
    OBVIOUS
  <2>2. n - x \in T
    BY <2>1
  <2>3. \A y \in 0..n : n - y \in Nat
    OBVIOUS
  <2> QED
    BY <2>2, <2>3
<1>2. PICK t \in T : \A u \in T : t =< u
  BY <1>1, LeastNatural
<1> HIDE DEF T
<1>3. PICK x \in S : t = n - x
  BY DEF T
<1>4. ASSUME NEW y \in S PROVE y =< x
  <2>1. n - y \in T /\ t =< n - y
    BY <1>2 DEF T
  <2> QED
    BY ONLY <2>1, <1>3, x \in 0..n, y \in 0..n, n \in Nat
<1> QED
  BY <1>4

(* There is one such node. *)
LEMMA PredIs ==
    ASSUME NEW S \in SUBSET MapKeys, NEW key \in MapKeys
    PROVE  /\ IsPred(S, key, Pred(S, key))
           /\ \A p : IsPred(S, key, p) => p = Pred(S, key)
<1> DEFINE T == {p \in {Root} \cup S : p < key}
<1>1. T \in SUBSET (0..KeyCount) /\ Root \in T /\ KeyCount \in Nat
  <2>1. Root \in T /\ KeyCount \in Nat
    BY KeysAreOrdered
  <2>2. Root \in 0..KeyCount /\ MapKeys \subseteq 0..KeyCount
    BY <2>1 DEF MapKeys, Root
  <2> QED
    BY <2>1, <2>2
<1>2. PICK p \in T : \A q \in T : q =< p
  BY <1>1, GreatestNumber
<1>3. IsPred(S, key, p)
  BY <1>2 DEF IsPred
<1>4. IsPred(S, key, Pred(S, key))
  BY <1>3 DEF Pred
<1>5. ASSUME NEW q, NEW r, IsPred(S, key, q), IsPred(S, key, r)
      PROVE  q = r
  <2>1. q \in {Root} \cup S /\ r \in {Root} \cup S /\ q < key /\ r < key
    BY <1>5 DEF IsPred
  <2>2. q \in Nat /\ r \in Nat /\ Root =< q /\ Root =< r
    BY <2>1, KeysAreOrdered
  <2>3. q =< r /\ r =< q
    <3>1. q =< r
      BY <2>1, <2>2, <1>5 DEF IsPred
    <3>2. r =< q
      BY <2>1, <2>2, <1>5 DEF IsPred
    <3> QED
      BY <3>1, <3>2
  <2> QED
    BY <2>2, <2>3
<1> QED
  BY <1>4, <1>5

(* The pointer of that node is the key's, or that of a key after it. *)
LEMMA PointsPast ==
    ASSUME NEW f, NEW top, NEW L, Tower(f, top, L), NEW l \in Heights, NEW key \in MapKeys
    PROVE  LET p == Pred(L[l], key)
           IN  /\ p \in Nodes /\ p < key /\ p \in {Root} \cup L[l]
               /\ key =< f[l][p]
               /\ f[l][p] = key <=> key \in L[l]
<1> DEFINE p == Pred(L[l], key)
<1> HIDE DEF p
<1>1. L[l] \in SUBSET MapKeys
  BY DEF Tower, Chain
<1>2. IsPred(L[l], key, p)
  BY <1>1, PredIs DEF p
<1>3. p \in {Root} \cup L[l] /\ p < key /\ p \in Nodes /\ p \in Nat /\ key \in Nat
  BY <1>1, <1>2, KeysAreOrdered DEF IsPred
<1>4. f[l][p] \in L[l] \cup {Nil} /\ p < f[l][p] /\ f[l][p] \in Nat
  BY <1>1, <1>3, KeysAreOrdered DEF Tower, Chain
<1>5. key =< f[l][p]
  <2>1. CASE f[l][p] = Nil
    BY <2>1, KeysAreOrdered
  <2>2. CASE f[l][p] \in L[l]
    <3>1. f[l][p] < key => f[l][p] =< p
      BY <1>2, <2>2 DEF IsPred
    <3> QED
      BY <3>1, <1>3, <1>4
  <2> QED
    BY <1>4, <2>1, <2>2
<1>6. key \in L[l] => f[l][p] =< key
  BY <1>3 DEF Tower, Chain
<1>7. f[l][p] = key => key \in L[l]
  BY <1>4, KeysAreOrdered
<1> QED
  BY <1>3, <1>4, <1>5, <1>6, <1>7 DEF p

(* On a level, the search for key ends at the node before it, from wherever  *)
(* on the level it started.                                                  *)
LEMMA WalkStops ==
    ASSUME NEW L, Tower(forward, level, L), NEW l \in Heights, NEW key \in MapKeys,
           NEW n \in {Root} \cup L[l], n < key
    PROVE  Walk(l, key)[n] = Pred(L[l], key)
<1> DEFINE p == Pred(L[l], key)
           g == forward[l]
           step(w) == [m \in Nodes |-> IF g[m] < key THEN w[g[m]] ELSE m]
           shown == [m \in Nodes |-> IF g[m] < key THEN p ELSE m]
           w == Walk(l, key)
<1>1. /\ L[l] \in SUBSET MapKeys
      /\ \A m \in Nodes : g[m] \in L[l] \cup {Nil} /\ m < g[m]
      /\ \A m \in {Root} \cup L[l], k \in L[l] : m < k => g[m] =< k
  BY DEF Tower, Chain
<1>2. IsPred(L[l], key, p) /\ \A q : IsPred(L[l], key, q) => q = p
  BY <1>1, PredIs
<1>3. p \in Nodes /\ p < key /\ key =< g[p]
  BY PointsPast
<1> HIDE DEF p, g
<1>4. ASSUME NEW m \in {Root} \cup L[l], m < key, ~(g[m] < key)
      PROVE  m = p
  <2>1. m \in Nodes /\ m \in Nat /\ g[m] \in Nat /\ key \in Nat
    BY <1>1, KeysAreOrdered
  <2>2. ASSUME NEW k \in L[l], k < key PROVE k =< m
    <3>1. m < k => g[m] =< k
      BY <1>1
    <3>2. k \in Nat
      BY <1>1, KeysAreOrdered
    <3> QED
      BY <1>4, <2>1, <2>2, <3>1, <3>2
  <2> QED
    BY <1>2, <1>4, <2>2 DEF IsPred
<1>5. ASSUME NEW m \in Nodes, g[m] < key
      PROVE  g[m] \in L[l] /\ g[m] \in Nodes
  <2>1. g[m] # Nil
    <3>1. key \in Nat /\ Nil \in Nat /\ key < Nil
      BY KeysAreOrdered
    <3> QED
      BY <1>5, <3>1
  <2> QED
    BY <1>1, <2>1, KeysAreOrdered
<1>6. shown = step(shown)
  <2>1. ASSUME NEW m \in Nodes PROVE shown[m] = step(shown)[m]
    <3>1. CASE g[m] < key
      <4>1. g[m] \in L[l] /\ g[m] \in Nodes
        BY <1>5, <3>1
      <4>2. ~(g[g[m]] < key) => g[m] = p
        BY <1>4, <3>1, <4>1
      <4> QED
        BY <3>1, <4>1, <4>2
    <3>2. CASE ~(g[m] < key)
      BY <3>2
    <3> QED
      BY <3>1, <3>2
  <2> QED
    BY <2>1
<1>7. w = CHOOSE v : v = step(v)
  BY DEF Walk, g
<1>8. w = step(w)
  BY <1>6, <1>7
<1>9. ASSUME NEW m \in {Root} \cup L[l], m < key
      PROVE  w[m] = IF g[m] < key THEN w[g[m]] ELSE m
  BY <1>1, <1>8, KeysAreOrdered
<1> HIDE DEF w
<1> DEFINE B == {m \in {Root} \cup L[l] : m < key /\ w[m] # p}
<1>10. ASSUME B # {} PROVE FALSE
  <2>1. B \in SUBSET (0..KeyCount) /\ KeyCount \in Nat
    <3>1. KeyCount \in Nat
      BY KeysAreOrdered
    <3>2. Root \in 0..KeyCount /\ MapKeys \subseteq 0..KeyCount
      BY <3>1 DEF MapKeys, Root
    <3> QED
      BY <1>1, <3>1, <3>2
  <2>2. PICK b \in B : \A c \in B : c =< b
    BY <1>10, <2>1, GreatestNumber
  <2>3. b \in {Root} \cup L[l] /\ b < key /\ w[b] # p
    OBVIOUS
  <2>4. CASE g[b] < key
    <3>1. g[b] \in L[l] /\ b < g[b] /\ w[b] = w[g[b]] /\ b \in Nat /\ g[b] \in Nat
      BY <1>1, <1>5, <1>9, <2>3, <2>4, KeysAreOrdered
    <3>2. g[b] \in B
      BY <2>3, <2>4, <3>1
    <3> QED
      BY <2>2, <3>1, <3>2
  <2>5. CASE ~(g[b] < key)
    BY <1>4, <1>9, <2>3, <2>5
  <2> QED
    BY <2>4, <2>5
<1> QED
  BY <1>10 DEF p, w

(* The search keeps, for every level, the node before the key: it goes down  *)
(* from one to the next, and above the top level in use there is the head.   *)
LEMMA UpdateIs ==
    ASSUME NEW L, Tower(forward, level, L), NEW key \in MapKeys, NEW l \in Heights
    PROVE  Update(key)[l] = Pred(L[l], key)
<1> DEFINE at == Update(key)
           step(u) == [m \in Heights |-> IF m > level THEN Root
                                         ELSE Walk(m, key)[IF m = level THEN Root ELSE u[m + 1]]]
           shown == [m \in Heights |-> Pred(L[m], key)]
<1>1. \A m \in Heights : /\ L[m] \in SUBSET MapKeys
                         /\ level < m => L[m] = {}
                         /\ \A k \in 1..m : L[m] \subseteq L[k]
  BY DEF Tower, Chain
<1>2. level \in Heights /\ level \in Nat /\ \A m \in Heights : m \in Nat /\ m \in 1..MaxLevel
  BY KeysAreOrdered DEF Tower, Heights
<1>3. Root < key
  BY KeysAreOrdered
<1>4. ASSUME NEW m \in Heights, m > level PROVE Pred(L[m], key) = Root
  <2>1. L[m] = {}
    BY <1>1, <1>2, <1>4
  <2>2. IsPred(L[m], key, Root)
    BY <1>3, <2>1 DEF IsPred
  <2> QED
    BY <1>1, <2>2, PredIs
<1>5. Walk(level, key)[Root] = Pred(L[level], key)
  BY <1>2, <1>3, WalkStops
<1>6. ASSUME NEW m \in Heights, m < level
      PROVE  m + 1 \in Heights /\ Walk(m, key)[Pred(L[m + 1], key)] = Pred(L[m], key)
  <2>1. m + 1 \in Heights /\ m \in 1..(m + 1)
    BY <1>2, <1>6, KeysAreOrdered DEF Heights
  <2>2. /\ Pred(L[m + 1], key) \in {Root} \cup L[m + 1]
        /\ Pred(L[m + 1], key) < key
    BY <1>1, <2>1, PredIs DEF IsPred
  <2>3. L[m + 1] \subseteq L[m]
    BY <1>1, <2>1
  <2> QED
    BY <2>1, <2>2, <2>3, WalkStops
<1>7. shown = step(shown)
  <2>1. ASSUME NEW m \in Heights PROVE shown[m] = step(shown)[m]
    <3>1. CASE m > level
      BY <1>4, <3>1
    <3>2. CASE m = level
      BY <1>2, <1>5, <3>2
    <3>3. CASE m < level
      <4>1. m + 1 \in Heights /\ Walk(m, key)[shown[m + 1]] = shown[m]
        BY <1>6, <3>3
      <4>2. ~(m > level) /\ m # level
        BY <1>2, <3>3
      <4>3. step(shown)[m] = Walk(m, key)[shown[m + 1]]
        BY <4>2
      <4> QED
        BY <4>1, <4>3
    <3> QED
      BY <1>2, <3>1, <3>2, <3>3
  <2> QED
    BY <2>1
<1>8. at = CHOOSE u : u = step(u)
  BY DEF Update
<1>9. at = step(at)
  BY <1>7, <1>8
<1>10. \A m \in Heights : at[m] = IF m > level THEN Root
                                  ELSE Walk(m, key)[IF m = level THEN Root ELSE at[m + 1]]
  BY <1>9
<1> HIDE DEF at
<1> DEFINE B == {m \in Heights : at[m] # Pred(L[m], key)}
<1>11. ASSUME B # {} PROVE FALSE
  <2>1. B \in SUBSET (0..MaxLevel) /\ MaxLevel \in Nat
    BY KeysAreOrdered DEF Heights
  <2>2. PICK b \in B : \A c \in B : c =< b
    BY <1>11, <2>1, GreatestNumber
  <2>3. b \in Heights /\ at[b] # Pred(L[b], key) /\ b \in Nat
    BY <1>2
  <2>4. ~(b > level)
    BY <1>4, <1>10, <2>3
  <2>5. b # level
    BY <1>5, <1>10, <2>3, <2>4
  <2>6. b < level
    BY <1>2, <2>3, <2>4, <2>5
  <2>7. b + 1 \in Heights /\ Walk(b, key)[Pred(L[b + 1], key)] = Pred(L[b], key)
    BY <1>6, <2>3, <2>6
  <2>8. b + 1 \notin B
    BY <2>2, <2>3
  <2>9. at[b] = Walk(b, key)[at[b + 1]]
    BY <1>10, <2>3, <2>4, <2>5
  <2> QED
    BY <2>3, <2>7, <2>8, <2>9
<1> QED
  BY <1>11 DEF at

(* A key is found if the lowest level holds it. *)
LEMMA FoundIs ==
    \A L : Tower(forward, level, L) => \A k \in MapKeys : Found(k) <=> k \in L[1]
<1> SUFFICES ASSUME NEW L, Tower(forward, level, L), NEW k \in MapKeys
             PROVE  Found(k) <=> k \in L[1]
  OBVIOUS
<1>1. 1 \in Heights
  BY KeysAreOrdered
<1>2. Update(k)[1] = Pred(L[1], k)
  BY <1>1, UpdateIs
<1> QED
  BY <1>1, <1>2, PointsPast DEF Found

(* The same of the state after a step. *)
LEMMA FoundIsNext ==
    \A L : Tower(forward', level', L) => \A k \in MapKeys : Found(k)' <=> k \in L[1]
<1>1. (\A L : Tower(forward, level, L) => \A k \in MapKeys : Found(k) <=> k \in L[1])'
  BY FoundIs, PTL
<1> QED
  BY <1>1 DEF Tower

(* Linking a key to a level that does not hold it. *)
LEMMA ChainGains ==
    ASSUME NEW S \in SUBSET MapKeys, NEW g, Chain(g, S), NEW key \in MapKeys \ S,
           NEW p, p = Pred(S, key)
    PROVE  Chain([g EXCEPT ![key] = g[p], ![p] = key], S \cup {key})
<1> DEFINE h == [g EXCEPT ![key] = g[p], ![p] = key]
<1>1. /\ p \in {Root} \cup S /\ p < key /\ \A k \in S : k < key => k =< p
      /\ p \in Nodes /\ p # key /\ key \in Nodes /\ Root # key
  <2>1. key \in MapKeys /\ IsPred(S, key, p)
    BY PredIs
  <2> QED
    BY <2>1, KeysAreOrdered DEF IsPred
<1>2. /\ g \in [Nodes -> MapKeys \cup {Nil}]
      /\ \A n \in Nodes : g[n] \in S \cup {Nil} /\ n < g[n]
      /\ \A n \in {Root} \cup S, k \in S : n < k => g[n] =< k
      /\ \A n \in MapKeys \ S : g[n] = Nil
  BY DEF Chain
<1>3. /\ h \in [Nodes -> MapKeys \cup {Nil}] /\ h[key] = g[p] /\ h[p] = key
      /\ \A n \in Nodes : n # key /\ n # p => h[n] = g[n]
  BY <1>1, <1>2
<1>4. /\ g[p] \in S \cup {Nil} /\ key < g[p]
      /\ \A k \in S : key < k => g[p] =< k
  <2>1. g[p] \in S \cup {Nil} /\ p < g[p] /\ g[p] # key /\ g[p] \in Nat /\ key \in Nat /\ p \in Nat
    BY <1>1, <1>2, KeysAreOrdered
  <2>2. key < g[p]
    <3>1. CASE g[p] = Nil
      BY <3>1, KeysAreOrdered
    <3>2. CASE g[p] \in S
      <4>1. g[p] < key => g[p] =< p
        BY <1>1, <3>2
      <4> QED
        BY <2>1, <4>1
    <3> QED
      BY <2>1, <3>1, <3>2
  <2>3. ASSUME NEW k \in S, key < k PROVE g[p] =< k
    <3>1. p < k
      BY <1>1, <2>1, <2>3, KeysAreOrdered
    <3> QED
      BY <1>1, <1>2, <3>1
  <2> QED
    BY <2>1, <2>2, <2>3
<1> HIDE DEF h
<1>5. ASSUME NEW n \in Nodes PROVE h[n] \in (S \cup {key}) \cup {Nil} /\ n < h[n]
  <2>1. CASE n = key
    BY <1>3, <1>4, <2>1
  <2>2. CASE n = p
    BY <1>1, <1>3, <2>2
  <2>3. CASE n # key /\ n # p
    BY <1>2, <1>3, <2>3
  <2> QED
    BY <2>1, <2>2, <2>3
<1>6. ASSUME NEW n \in {Root} \cup (S \cup {key}), NEW k \in S \cup {key}, n < k
      PROVE  h[n] =< k
  <2>1. n \in Nodes /\ n \in Nat /\ k \in Nat /\ key \in Nat /\ p \in Nat
    BY <1>1, KeysAreOrdered
  <2>2. CASE n = key
    <3>1. k \in S /\ key < k
      BY <1>6, <2>1, <2>2
    <3> QED
      BY <1>3, <1>4, <2>2, <3>1
  <2>3. CASE n = p
    <3>1. k \in S /\ k < key => k =< p
      BY <1>1
    <3>2. ~(k \in S /\ k < key)
      BY ONLY <1>6, <2>1, <2>3, <3>1
    <3>3. key =< k
      BY <2>1, <3>2
    <3> QED
      BY <1>3, <2>3, <3>3
  <2>4. CASE n # key /\ n # p
    <3>1. n \in {Root} \cup S /\ h[n] = g[n] /\ g[n] \in S \cup {Nil} /\ g[n] \in Nat
      BY <1>2, <1>3, <2>1, <2>4, KeysAreOrdered
    <3>2. CASE k \in S
      BY <1>2, <1>6, <3>1, <3>2
    <3>3. CASE k = key
      <4>1. n < p
        <5>1. CASE n \in S
          <6>1. n =< p
            BY <1>1, <1>6, <3>3, <5>1
          <6> QED
            BY <2>1, <2>4, <6>1
        <5>2. CASE n = Root
          BY <1>1, <2>1, <2>4, <5>2, KeysAreOrdered
        <5> QED
          BY <3>1, <5>1, <5>2
      <4>2. p \in S
        <5>1. p # Root
          <6>1. n # Root => Root < n
            BY <3>1, KeysAreOrdered
          <6> QED
            BY <2>1, <4>1, <6>1, KeysAreOrdered
        <5> QED
          BY <1>1, <5>1
      <4>3. g[n] =< p
        BY <1>2, <3>1, <4>1, <4>2
      <4> QED
        BY <1>1, <2>1, <3>1, <3>3, <4>3
    <3> QED
      BY <3>2, <3>3
  <2> QED
    BY <2>2, <2>3, <2>4
<1>7. ASSUME NEW n \in MapKeys \ (S \cup {key}) PROVE h[n] = Nil
  <2>1. n # key /\ n # p /\ n \in Nodes
    BY <1>1, KeysAreOrdered
  <2> QED
    BY <1>2, <1>3, <2>1
<1> QED
  BY <1>3, <1>5, <1>6, <1>7 DEF Chain, h

(* Taking a key out of a level that holds it. *)
LEMMA ChainLoses ==
    ASSUME NEW S \in SUBSET MapKeys, NEW g, Chain(g, S), NEW key \in S,
           NEW p, p = Pred(S, key)
    PROVE  Chain([g EXCEPT ![p] = g[key], ![key] = Nil], S \ {key})
<1> DEFINE h == [g EXCEPT ![p] = g[key], ![key] = Nil]
<1>1. /\ p \in {Root} \cup S /\ p < key /\ \A k \in S : k < key => k =< p
      /\ p \in Nodes /\ p # key /\ key \in Nodes /\ Root # key /\ key \in MapKeys
      /\ p \in Nat /\ key \in Nat
  <2>1. key \in MapKeys /\ IsPred(S, key, p)
    BY PredIs
  <2> QED
    BY <2>1, KeysAreOrdered DEF IsPred
<1>2. /\ g \in [Nodes -> MapKeys \cup {Nil}]
      /\ \A n \in Nodes : g[n] \in S \cup {Nil} /\ n < g[n]
      /\ \A n \in {Root} \cup S, k \in S : n < k => g[n] =< k
      /\ \A n \in MapKeys \ S : g[n] = Nil
  BY DEF Chain
<1>3. /\ h \in [Nodes -> MapKeys \cup {Nil}] /\ h[key] = Nil /\ h[p] = g[key]
      /\ \A n \in Nodes : n # key /\ n # p => h[n] = g[n]
  BY <1>1, <1>2
<1>4. /\ g[key] \in S \cup {Nil} /\ key < g[key] /\ g[key] \in Nat
      /\ \A k \in S : key < k => g[key] =< k
  BY <1>1, <1>2, KeysAreOrdered
<1>5. ASSUME NEW n \in Nodes, n # key, n # p PROVE g[n] # key
  <2>1. ASSUME g[n] = key PROVE FALSE
    <3>1. n < key /\ n \in Nat
      BY <1>2, <2>1, KeysAreOrdered
    <3>2. n \in {Root} \cup S
      <4>1. n \in MapKeys \ S => g[n] = Nil
        BY <1>2
      <4>2. key # Nil
        BY <1>1, KeysAreOrdered
      <4> QED
        BY <2>1, <4>1, <4>2 DEF Nodes
    <3>3. n < p
      <4>1. CASE n \in S
        BY <1>1, <1>5, <3>1, <4>1
      <4>2. CASE n = Root
        BY <1>1, <1>5, <3>1, <4>2, KeysAreOrdered
      <4> QED
        BY <3>2, <4>1, <4>2
    <3>4. p # Root
      BY <3>1, <3>3 DEF Root
    <3>5. g[n] =< p
      BY <1>1, <1>2, <3>2, <3>3, <3>4
    <3> QED
      BY <1>1, <2>1, <3>5
  <2> QED
    BY <2>1
<1> HIDE DEF h
<1>6. ASSUME NEW n \in Nodes PROVE h[n] \in (S \ {key}) \cup {Nil} /\ n < h[n]
  <2>1. CASE n = key
    BY <1>1, <1>3, <2>1, KeysAreOrdered
  <2>2. CASE n = p
    <3>1. h[n] = g[key] /\ g[key] # key /\ p < g[key]
      BY <1>1, <1>3, <1>4, <2>2
    <3> QED
      BY <1>4, <2>2, <3>1
  <2>3. CASE n # key /\ n # p
    BY <1>2, <1>3, <1>5, <2>3
  <2> QED
    BY <2>1, <2>2, <2>3
<1>7. ASSUME NEW n \in {Root} \cup (S \ {key}), NEW k \in S \ {key}, n < k
      PROVE  h[n] =< k
  <2>1. n \in Nodes /\ n \in Nat /\ k \in Nat /\ n # key /\ k # key
    BY <1>1, KeysAreOrdered
  <2>2. CASE n = p
    <3>1. k < key => k =< p
      BY <1>1
    <3>2. key < k
      BY ONLY <1>1, <1>7, <2>1, <2>2, <3>1
    <3> QED
      BY <1>3, <1>4, <2>2, <3>2
  <2>3. CASE n # p
    BY <1>2, <1>3, <1>7, <2>1, <2>3
  <2> QED
    BY <2>2, <2>3
<1>8. ASSUME NEW n \in MapKeys \ (S \ {key}) PROVE h[n] = Nil
  <2>1. CASE n = key
    BY <1>3, <2>1
  <2>2. CASE n # key
    <3>1. n # p /\ n \in Nodes
      BY <1>1, <2>2, KeysAreOrdered
    <3> QED
      BY <1>2, <1>3, <2>2, <3>1
  <2> QED
    BY <2>1, <2>2
<1> QED
  BY <1>3, <1>6, <1>7, <1>8 DEF Chain, h

(* Inserting a node, on the levels its height gives it. *)
LEMMA LinkKeeps ==
    ASSUME NEW L, Tower(forward, level, L), NEW key \in MapKeys \ L[1], NEW height \in Heights,
           NEW top, top = IF height > level THEN height ELSE level
    PROVE  Tower(Link(key, height), top,
                 [l \in Heights |-> IF l > height THEN L[l] ELSE L[l] \cup {key}])
<1> DEFINE f == Link(key, height)
           M == [l \in Heights |-> IF l > height THEN L[l] ELSE L[l] \cup {key}]
<1>1. /\ level \in Heights /\ L \in [Heights -> SUBSET MapKeys]
      /\ \A l \in Heights : /\ Chain(forward[l], L[l])
                            /\ level < l => L[l] = {}
                            /\ \A m \in 1..l : L[l] \subseteq L[m]
  BY DEF Tower
<1>2. /\ \A l \in Heights : l \in Nat /\ 1 \in 1..l /\ (1..l) \subseteq Heights
      /\ top \in Heights /\ height =< top /\ level =< top
  BY <1>1, KeysAreOrdered DEF Heights
<1>3. \A l \in Heights : key \notin L[l]
  BY <1>1, <1>2
<1>4. /\ DOMAIN f = Heights
      /\ \A l \in Heights :
           f[l] = IF l > height THEN forward[l]
                  ELSE [forward[l] EXCEPT ![key] = forward[l][Pred(L[l], key)],
                                          ![Pred(L[l], key)] = key]
  BY UpdateIs DEF Link
<1> HIDE DEF f
<1>5. ASSUME NEW l \in Heights PROVE Chain(f[l], M[l])
  <2>1. CASE l > height
    BY <1>1, <1>4, <2>1
  <2>2. CASE ~(l > height)
    <3>1. L[l] \in SUBSET MapKeys /\ key \in MapKeys \ L[l] /\ Chain(forward[l], L[l])
      BY <1>1, <1>3
    <3>2. PICK p : p = Pred(L[l], key)
      OBVIOUS
    <3>3. Chain([forward[l] EXCEPT ![key] = forward[l][p], ![p] = key], L[l] \cup {key})
      BY <3>1, <3>2, ChainGains
    <3> QED
      BY <1>4, <2>2, <3>2, <3>3
  <2> QED
    BY <2>1, <2>2
<1>6. ASSUME NEW l \in Heights, top < l PROVE M[l] = {}
  <2>1. l > height /\ level < l
    BY <1>1, <1>2, <1>6
  <2> QED
    BY <1>1, <2>1
<1>7. ASSUME NEW l \in Heights, NEW m \in 1..l PROVE M[l] \subseteq M[m]
  <2>1. m \in Heights /\ m =< l /\ L[l] \subseteq L[m]
    BY <1>1, <1>2
  <2>2. m > height => l > height
    BY <1>2, <2>1
  <2> QED
    BY <2>1, <2>2
<1>8. M \in [Heights -> SUBSET MapKeys]
  BY <1>1
<1> QED
  BY <1>2, <1>4, <1>5, <1>6, <1>7, <1>8 DEF Tower, f

(* Deleting a node, and dropping the levels that are empty then. *)
LEMMA UnlinkKeeps ==
    ASSUME NEW L, Tower(forward, level, L), NEW key \in L[1]
    PROVE  Tower(Unlink(key), Lower(Unlink(key)), [l \in Heights |-> L[l] \ {key}])
<1> DEFINE f == Unlink(key)
           M == [l \in Heights |-> L[l] \ {key}]
           top == Lower(f)
<1>1. /\ level \in Heights /\ L \in [Heights -> SUBSET MapKeys]
      /\ \A l \in Heights : /\ Chain(forward[l], L[l])
                            /\ level < l => L[l] = {}
                            /\ \A m \in 1..l : L[l] \subseteq L[m]
  BY DEF Tower
<1>2. /\ \A l \in Heights : l \in Nat /\ l \in 1..l /\ (1..l) \subseteq Heights
      /\ 1 \in Heights /\ key \in MapKeys
  BY <1>1, KeysAreOrdered DEF Heights
<1>3. ASSUME NEW l \in Heights
      PROVE  (l =< level /\ \A m \in 1..l : forward[m][Update(key)[m]] = key) <=> key \in L[l]
  <2>1. \A m \in 1..l : forward[m][Update(key)[m]] = key <=> key \in L[m]
    BY <1>2, UpdateIs, PointsPast
  <2>2. key \in L[l] => l =< level
    BY <1>1, <1>2
  <2>3. key \in L[l] => \A m \in 1..l : key \in L[m]
    BY <1>1
  <2> QED
    BY <1>2, <2>1, <2>2, <2>3
<1>4. /\ DOMAIN f = Heights
      /\ \A l \in Heights :
           f[l] = IF key \in L[l]
                  THEN [forward[l] EXCEPT ![Pred(L[l], key)] = forward[l][key], ![key] = Nil]
                  ELSE forward[l]
  BY <1>2, <1>3, UpdateIs DEF Unlink
<1> HIDE DEF f
<1>5. ASSUME NEW l \in Heights PROVE Chain(f[l], M[l])
  <2>1. L[l] \in SUBSET MapKeys /\ Chain(forward[l], L[l])
    BY <1>1
  <2>2. CASE key \in L[l]
    <3>1. PICK p : p = Pred(L[l], key)
      OBVIOUS
    <3>2. Chain([forward[l] EXCEPT ![p] = forward[l][key], ![key] = Nil], L[l] \ {key})
      BY <2>1, <2>2, <3>1, ChainLoses
    <3> QED
      BY <1>4, <2>2, <3>1, <3>2
  <2>3. CASE key \notin L[l]
    <3>1. M[l] = L[l]
      BY <2>3
    <3> QED
      BY <1>4, <2>1, <2>3, <3>1
  <2> QED
    BY <2>2, <2>3
<1>6. /\ top \in 1..level
      /\ \A m \in (top + 1)..level : f[m][Root] = Nil
  <2> DEFINE T == {l \in 1..level : l = 1 \/ f[l][Root] # Nil}
  <2>1. T \in SUBSET (0..level) /\ T # {} /\ level \in Nat
    <3>1. 1 \in T /\ level \in Nat
      BY <1>1, <1>2, KeysAreOrdered DEF Heights
    <3> QED
      BY <3>1
  <2>2. PICK t \in T : \A u \in T : u =< t
    BY <2>1, GreatestNumber
  <2>3. ASSUME NEW m \in (t + 1)..level PROVE f[m][Root] = Nil
    <3>1. m \in 1..level /\ ~(m =< t)
      BY <2>1, <2>2
    <3> QED
      BY <2>2, <3>1
  <2>4. t \in 1..level /\ (t = 1 \/ f[t][Root] # Nil)
    OBVIOUS
  <2> HIDE DEF T
  <2> QED
    BY <2>3, <2>4 DEF Lower
<1> HIDE DEF top
<1>7. top \in Heights /\ top \in Nat /\ level \in Nat
  BY <1>1, <1>2, <1>6
<1>8. ASSUME NEW l \in Heights, top < l PROVE M[l] = {}
  <2>1. CASE level < l
    BY <1>1, <2>1
  <2>2. CASE ~(level < l)
    <3>1. l \in (top + 1)..level
      BY <1>2, <1>7, <1>8, <2>2
    <3>2. f[l][Root] = Nil /\ Root \in {Root} \cup M[l]
      BY <1>6, <3>1
    <3>3. ASSUME NEW k \in M[l] PROVE FALSE
      <4>1. k \in MapKeys
        BY <1>1
      <4>2. Root < k /\ k < Nil /\ k \in Nat /\ Nil \in Nat
        BY <4>1, KeysAreOrdered
      <4>3. f[l][Root] =< k
        BY <1>5, <3>2, <4>2 DEF Chain
      <4> QED
        BY <3>2, <4>2, <4>3
    <3> QED
      BY <3>3
  <2> QED
    BY <2>1, <2>2
<1>9. ASSUME NEW l \in Heights, NEW m \in 1..l PROVE M[l] \subseteq M[m]
  <2>1. m \in Heights /\ L[l] \subseteq L[m]
    BY <1>1, <1>2
  <2> QED
    BY <2>1
<1>10. M \in [Heights -> SUBSET MapKeys]
  BY <1>1
<1> QED
  BY <1>4, <1>5, <1>7, <1>8, <1>9, <1>10 DEF Tower, f, top

-----------------------------------------------------------------------------
(* The dictionaries: every call takes effect at one instant.                 *)

DictAnswers == BOOLEAN \cup Stored \cup Nat
CallerStates ==
    [at : {"idle"}] \cup [at : {"begun"}, call : D!Calls]
    \cup [at : {"cloned"}, call : D!Calls, old : Nat, clone : [MapKeys -> Stored]]
    \cup [at : {"done"}, call : D!Calls, answer : DictAnswers]

\* The pointers are those of a skip list.  A clone whose snapshot is still
\* published has what is stored.
DictInv ==
    /\ form \in {"snapshot", "skiplist", "sharded"}
    /\ value \in [MapKeys -> Stored]
    /\ swaps \in Nat
    /\ caller \in [Callers -> CallerStates]
    /\ \E L : Tower(forward, level, L)
    /\ \A c \in Callers :
         caller[c].at = "cloned" =>
            /\ form = "snapshot" /\ caller[c].old =< swaps
            /\ caller[c].old = swaps => caller[c].clone = value

\* What the abstract dictionary knows of a caller.
Calling(r) == CASE r.at = "idle" -> NotCalling
                [] r.at = "done" -> [told |-> r.answer]
                [] OTHER -> r.call
CallingNow == [c \in Callers |-> Calling(caller[c])]

(* What a caller can find, in terms of what the lowest level holds. *)
LEMMA ContentsAre ==
    /\ \A L : Tower(forward, level, L) =>
         Contents = [k \in MapKeys |-> IF form = "skiplist" /\ k \notin L[1] THEN Absent ELSE value[k]]
    /\ \A L : Tower(forward', level', L) =>
         Contents' = [k \in MapKeys |-> IF form' = "skiplist" /\ k \notin L[1] THEN Absent ELSE value'[k]]
<1>1. ASSUME NEW L, Tower(forward, level, L)
      PROVE  Contents = [k \in MapKeys |-> IF form = "skiplist" /\ k \notin L[1] THEN Absent ELSE value[k]]
  <2>1. \A k \in MapKeys : Found(k) <=> k \in L[1]
    BY <1>1, FoundIs
  <2> QED
    BY <2>1 DEF Contents
<1>2. ASSUME NEW L, Tower(forward', level', L)
      PROVE  Contents' = [k \in MapKeys |-> IF form' = "skiplist" /\ k \notin L[1] THEN Absent ELSE value'[k]]
  <2>1. \A k \in MapKeys : Found(k)' <=> k \in L[1]
    BY <1>2, FoundIsNext
  <2> QED
    BY <2>1 DEF Contents
<1> QED
  BY <1>1, <1>2

(* The abstract dictionary counts what it holds as this module counts. *)
LEMMA SameCount ==
    ASSUME NEW S
    PROVE  D!Cardinality(S) = Cardinality(S)
BY DEF D!Cardinality, Cardinality

(* A call leaves values for keys, and answers with one, a truth or a number. *)
LEMMA CallsTyped ==
    ASSUME NEW call \in D!Calls, NEW d \in [MapKeys -> Stored]
    PROVE  D!Effect(call, d) \in [MapKeys -> Stored] /\ D!Answer(call, d) \in DictAnswers
<1>1. /\ call.op \in {"set", "get", "delete", "len"}
      /\ call.op = "set" => call.key \in MapKeys /\ call.value \in MapValues
      /\ call.op \in {"get", "delete"} => call.key \in MapKeys
  BY DEF D!Calls
<1>2. D!Effect(call, d) \in [MapKeys -> Stored]
  BY <1>1 DEF D!Effect, Stored
<1>3. D!Cardinality(D!Present(d)) \in Nat
  <2>1. IsFiniteSet(MapKeys)
    BY KeysAreOrdered, FS_Interval DEF MapKeys
  <2>2. D!Present(d) \subseteq MapKeys
    BY DEF D!Present
  <2> QED
    BY <2>1, <2>2, FS_Subset, FS_CardinalityType, SameCount
<1>4. D!Answer(call, d) \in DictAnswers
  <2>1. CASE call.op = "set"
    BY <2>1 DEF D!Answer, DictAnswers
  <2>2. CASE call.op = "get"
    BY <1>1, <2>2 DEF D!Answer, DictAnswers
  <2>3. CASE call.op = "delete"
    BY <2>3 DEF D!Answer, DictAnswers
  <2>4. CASE call.op = "len"
    BY <1>3, <2>4 DEF D!Answer, DictAnswers
  <2>5. call.op = "set" \/ call.op = "get" \/ call.op = "delete" \/ call.op = "len"
    BY <1>1
  <2> QED
    BY <2>1, <2>2, <2>3, <2>4, <2>5
<1> QED
  BY <1>2, <1>4

(* Calls, answers and the mark of not calling differ. *)
LEMMA CallsDiffer ==
    ASSUME NEW call \in D!Calls, NEW answer \in DictAnswers
    PROVE  /\ NotCalling # call /\ NotCalling # [told |-> answer]
           /\ [told |-> answer] # call /\ [told |-> answer] \notin D!Calls
<1>1. NotCalling # call
  BY CallAssumption
<1>2. NotCalling # [told |-> answer]
  <2>1. \/ [told |-> answer] \in [told : BOOLEAN]
        \/ [told |-> answer] \in [told : Stored]
        \/ [told |-> answer] \in [told : Nat]
    BY DEF DictAnswers
  <2> QED
    BY <2>1, CallAssumption
<1>3. [told |-> answer] \notin D!Calls
  <2>1. \A c \in D!Calls : "op" \in DOMAIN c
    BY DEF D!Calls
  <2>2. "op" \notin DOMAIN [told |-> answer]
    OBVIOUS
  <2> QED
    BY <2>1, <2>2
<1> QED
  BY <1>1, <1>2, <1>3

(* A caller's locals, in each of its states. *)
LEMMA CallerHas ==
    ASSUME caller \in [Callers -> CallerStates], NEW c \in Callers
    PROVE  /\ caller[c].at \in {"idle", "begun", "cloned", "done"}
           /\ caller[c].at # "idle" => caller[c].call \in D!Calls
           /\ caller[c].at = "done" => caller[c].answer \in DictAnswers
           /\ caller[c].at = "cloned" => caller[c].old \in Nat /\ caller[c].clone \in [MapKeys -> Stored]
<1>1. caller[c] \in CallerStates
  OBVIOUS
<1>2. CASE caller[c] \in [at : {"idle"}]
  BY <1>2
<1>3. CASE caller[c] \in [at : {"begun"}, call : D!Calls]
  BY <1>3
<1>4. CASE caller[c] \in [at : {"cloned"}, call : D!Calls, old : Nat, clone : [MapKeys -> Stored]]
  BY <1>4
<1>5. CASE caller[c] \in [at : {"done"}, call : D!Calls, answer : DictAnswers]
  BY <1>5
<1> QED
  BY <1>1, <1>2, <1>3, <1>4, <1>5 DEF CallerStates

(* The abstract actions, on the mapped state. *)
LEMMA MappedSteps ==
    /\ D!DictNext <=> \E c \in Callers :
         /\ CallingNow'[c] # CallingNow[c]
         /\ \/ \E call \in D!Calls : /\ CallingNow[c] = NotCalling
                                     /\ CallingNow' = [CallingNow EXCEPT ![c] = call]
                                     /\ Contents' = Contents
            \/ /\ CallingNow[c] \in D!Calls
               /\ Contents' = D!Effect(CallingNow[c], Contents)
               /\ CallingNow' = [CallingNow EXCEPT ![c] = [told |-> D!Answer(CallingNow[c], Contents)]]
            \/ /\ CallingNow[c] # NotCalling /\ CallingNow[c] \notin D!Calls
               /\ CallingNow' = [CallingNow EXCEPT ![c] = NotCalling]
               /\ Contents' = Contents
    /\ (UNCHANGED D!dictVars) <=> Contents' = Contents /\ CallingNow' = CallingNow
    /\ D!DictInit <=> Contents = [k \in MapKeys |-> Absent] /\ CallingNow = [c \in Callers |-> NotCalling]
BY DEF D!DictNext, D!Invoke, D!TakeEffect, D!Return, D!Told, D!dictVars, D!DictInit, CallingNow, Calling

(* The mapped state of a caller, before and after it moves on. *)
LEMMA MappedCaller ==
    ASSUME DictInv, NEW c \in Callers, NEW r, caller' = [caller EXCEPT ![c] = r]
    PROVE  /\ CallingNow[c] = Calling(caller[c])
           /\ CallingNow'[c] = Calling(r)
           /\ CallingNow' = [CallingNow EXCEPT ![c] = Calling(r)]
<1>1. caller \in [Callers -> CallerStates]
  BY DEF DictInv
<1>2. \A x \in Callers : caller'[x] = IF x = c THEN r ELSE caller[x]
  BY <1>1
<1>3. CallingNow' = [x \in Callers |-> Calling(caller'[x])]
  BY DEF CallingNow, Calling
<1>4. \A x \in Callers : CallingNow'[x] = IF x = c THEN Calling(r) ELSE Calling(caller[x])
  BY <1>2, <1>3
<1>5. DOMAIN CallingNow' = Callers /\ CallingNow \in [Callers -> {CallingNow[x] : x \in Callers}]
  BY <1>3 DEF CallingNow
<1>6. CallingNow' = [CallingNow EXCEPT ![c] = Calling(r)]
  <2>1. CallingNow' = [x \in Callers |-> IF x = c THEN Calling(r) ELSE Calling(caller[x])]
    BY <1>2, <1>3
  <2>2. [CallingNow EXCEPT ![c] = Calling(r)]
          = [x \in Callers |-> IF x = c THEN Calling(r) ELSE Calling(caller[x])]
    BY DEF CallingNow
  <2> QED
    BY <2>1, <2>2
<1> QED
  BY <1>4, <1>6 DEF CallingNow

\* A step keeps the invariant, and is one of the abstract dictionary or none.
DictRefines == DictInv' /\ (D!DictNext \/ UNCHANGED D!dictVars)

(* The step in which a call takes effect. *)
LEMMA Concluded ==
    ASSUME DictInv, NEW c \in Callers, caller[c].at \in {"begun", "cloned"},
           NEW d \in [MapKeys -> Stored], Contents = d, Conclude(c, d),
           Contents' = D!Effect(caller[c].call, d)
    PROVE  /\ D!DictNext
           /\ value' = D!Effect(caller[c].call, d) /\ value' \in [MapKeys -> Stored]
           /\ caller' \in [Callers -> CallerStates]
           /\ caller'[c].at = "done" /\ \A x \in Callers : x # c => caller'[x] = caller[x]
<1>1. PICK call \in D!Calls : call = caller[c].call
  BY CallerHas DEF DictInv
<1>2. PICK answer \in DictAnswers : answer = D!Answer(call, d)
  BY <1>1, CallsTyped
<1>3. D!Effect(call, d) \in [MapKeys -> Stored]
  BY <1>1, CallsTyped
<1> DEFINE r == [at |-> "done", call |-> call, answer |-> answer]
<1>4. caller' = [caller EXCEPT ![c] = r] /\ value' = D!Effect(call, d)
  BY <1>1, <1>2 DEF Conclude, Become
<1>5. r \in CallerStates
  BY DEF CallerStates
<1>6. Calling(r) = [told |-> answer]
  BY DEF Calling
<1>7. CallingNow[c] = call
  BY <1>1, <1>4, MappedCaller DEF Calling
<1> HIDE DEF r
<1>8. CallingNow'[c] = [told |-> answer] /\ CallingNow' = [CallingNow EXCEPT ![c] = [told |-> answer]]
  BY <1>4, <1>6, MappedCaller
<1>9. [told |-> answer] # call
  BY CallsDiffer
<1>10. D!DictNext
  <2>1. /\ CallingNow'[c] # CallingNow[c]
        /\ CallingNow[c] \in D!Calls
        /\ Contents' = D!Effect(CallingNow[c], Contents)
        /\ CallingNow' = [CallingNow EXCEPT ![c] = [told |-> D!Answer(CallingNow[c], Contents)]]
    BY <1>1, <1>2, <1>7, <1>8, <1>9
  <2> QED
    BY <2>1, MappedSteps
<1>11. caller' \in [Callers -> CallerStates] /\ caller'[c] = r
       /\ \A x \in Callers : x # c => caller'[x] = caller[x]
  BY <1>4, <1>5 DEF DictInv
<1> QED
  BY <1>1, <1>3, <1>4, <1>10, <1>11 DEF r

(* What a caller can find, in a map without a skip list and after a step     *)
(* that leaves the pointers alone.                                           *)
LEMMA ContentsPlain ==
    ASSUME DictInv, UNCHANGED <<form, forward, level>>
    PROVE  /\ Contents \in [MapKeys -> Stored]
           /\ form # "skiplist" => Contents = value
           /\ form # "skiplist" /\ value' \in [MapKeys -> Stored] => Contents' = value'
           /\ value' = value \/ value' = Contents => Contents' = Contents
           /\ \E L : Tower(forward', level', L)
<1>1. PICK L : Tower(forward, level, L)
  BY DEF DictInv
<1>2. Tower(forward', level', L)
  BY <1>1
<1>3. Contents = [k \in MapKeys |-> IF form = "skiplist" /\ k \notin L[1] THEN Absent ELSE value[k]]
  BY <1>1, ContentsAre
<1>4. Contents' = [k \in MapKeys |-> IF form' = "skiplist" /\ k \notin L[1] THEN Absent ELSE value'[k]]
  BY <1>2, ContentsAre
<1>5. value \in [MapKeys -> Stored]
  BY DEF DictInv
<1>6. Contents \in [MapKeys -> Stored]
  BY <1>3, <1>5 DEF Stored
<1>7. form # "skiplist" => Contents = value
  BY <1>3, <1>5
<1>8. form # "skiplist" /\ value' \in [MapKeys -> Stored] => Contents' = value'
  BY <1>4
<1>9. value' = value => Contents' = Contents
  BY <1>3, <1>4
<1>10. value' = Contents => Contents' = Contents
  BY <1>3, <1>4
<1> QED
  BY <1>2, <1>6, <1>7, <1>8, <1>9, <1>10

(* A caller that moves on without an effect. *)
LEMMA DictMoves ==
    ASSUME DictInv, NEW c \in Callers, NEW r \in CallerStates, r.at # "cloned",
           Become(c, r), UNCHANGED <<form, value, swaps, forward, level>>
    PROVE  DictInv' /\ Contents' = Contents
           /\ CallingNow[c] = Calling(caller[c])
           /\ CallingNow'[c] = Calling(r) /\ CallingNow' = [CallingNow EXCEPT ![c] = Calling(r)]
<1>1. caller' = [caller EXCEPT ![c] = r]
  BY DEF Become
<1>2. Contents' = Contents /\ \E L : Tower(forward', level', L)
  BY ContentsPlain
<1>3. /\ caller' \in [Callers -> CallerStates]
      /\ \A x \in Callers : caller'[x] = IF x = c THEN r ELSE caller[x]
  BY <1>1 DEF DictInv
<1>4. DictInv'
  BY <1>2, <1>3 DEF DictInv
<1> QED
  BY <1>1, <1>2, <1>4, MappedCaller

(* A call begins. *)
LEMMA BeginRefines ==
    ASSUME DictInv, NEW c \in Callers, NEW call \in D!Calls, Begin(c, call)
    PROVE  DictRefines
<1> DEFINE r == [at |-> "begun", call |-> call]
<1>1. /\ Become(c, r) /\ UNCHANGED <<form, value, swaps, forward, level>>
      /\ r \in CallerStates /\ r.at # "cloned" /\ Calling(r) = call
      /\ Calling(caller[c]) = NotCalling
  BY DEF Begin, At, CallerStates, Calling
<1> HIDE DEF r
<1>2. /\ DictInv' /\ Contents' = Contents /\ CallingNow[c] = NotCalling
      /\ CallingNow'[c] = call /\ CallingNow' = [CallingNow EXCEPT ![c] = call]
  BY <1>1, DictMoves
<1>3. NotCalling # call
  BY CallAssumption
<1>4. D!DictNext
  <2>1. /\ CallingNow'[c] # CallingNow[c] /\ CallingNow[c] = NotCalling
        /\ CallingNow' = [CallingNow EXCEPT ![c] = call] /\ Contents' = Contents
    BY <1>2, <1>3
  <2> QED
    BY <2>1, MappedSteps
<1> QED
  BY <1>2, <1>4 DEF DictRefines

(* A call returns. *)
LEMMA ReturnRefines ==
    ASSUME DictInv, NEW c \in Callers, ReturnAnswer(c)
    PROVE  DictRefines
<1> DEFINE r == [at |-> "idle"]
<1>1. caller[c].answer \in DictAnswers /\ caller[c].call \in D!Calls
  BY CallerHas DEF DictInv, ReturnAnswer, At
<1>2. /\ Become(c, r) /\ UNCHANGED <<form, value, swaps, forward, level>>
      /\ r \in CallerStates /\ r.at # "cloned" /\ Calling(r) = NotCalling
      /\ Calling(caller[c]) = [told |-> caller[c].answer]
  BY DEF ReturnAnswer, At, CallerStates, Calling
<1> HIDE DEF r
<1>3. /\ DictInv' /\ Contents' = Contents /\ CallingNow[c] = [told |-> caller[c].answer]
      /\ CallingNow'[c] = NotCalling /\ CallingNow' = [CallingNow EXCEPT ![c] = NotCalling]
  BY <1>2, DictMoves
<1>4. NotCalling # [told |-> caller[c].answer] /\ [told |-> caller[c].answer] \notin D!Calls
  BY <1>1, CallsDiffer
<1>5. D!DictNext
  <2>1. /\ CallingNow'[c] # CallingNow[c] /\ CallingNow[c] # NotCalling /\ CallingNow[c] \notin D!Calls
        /\ CallingNow' = [CallingNow EXCEPT ![c] = NotCalling] /\ Contents' = Contents
    BY <1>3, <1>4
  <2> QED
    BY <2>1, MappedSteps
<1> QED
  BY <1>3, <1>5 DEF DictRefines

(* A call under a lock, and one that only reads the skip list. *)
LEMMA LockedRefines ==
    ASSUME DictInv, NEW c \in Callers, LockedCall(c) \/ SkipRead(c)
    PROVE  DictRefines
<1>1. /\ caller[c].at = "begun" /\ Conclude(c, Contents)
      /\ UNCHANGED <<form, swaps, forward, level>>
      /\ \/ form = "sharded"
         \/ form = "skiplist" /\ caller[c].call.op \in {"get", "len"}
  BY DEF LockedCall, SkipRead, Asks, At
<1>2. PICK d \in [MapKeys -> Stored] : d = Contents
  BY <1>1, ContentsPlain
<1>3. caller[c].call \in D!Calls
  BY <1>1, CallerHas DEF DictInv
<1>4. value' = D!Effect(caller[c].call, d) /\ value' \in [MapKeys -> Stored]
  <2>1. value' = D!Effect(caller[c].call, d)
    BY <1>1, <1>2 DEF Conclude
  <2> QED
    BY <1>3, <2>1, CallsTyped
<1>5. Contents' = D!Effect(caller[c].call, d)
  <2>1. CASE form = "sharded"
    <3>1. Contents' = value'
      BY <1>1, <1>4, <2>1, ContentsPlain
    <3> QED
      BY <1>4, <3>1
  <2>2. CASE form = "skiplist" /\ caller[c].call.op \in {"get", "len"}
    <3>1. D!Effect(caller[c].call, d) = d
      BY <2>2 DEF D!Effect
    <3>2. Contents' = Contents
      BY <1>1, <1>2, <1>4, <3>1, ContentsPlain
    <3> QED
      BY <1>2, <3>1, <3>2
  <2> QED
    BY <1>1, <2>1, <2>2
<1>6. /\ D!DictNext /\ caller' \in [Callers -> CallerStates]
      /\ caller'[c].at = "done" /\ \A x \in Callers : x # c => caller'[x] = caller[x]
  BY <1>1, <1>2, <1>5, Concluded
<1>7. \E L : Tower(forward', level', L)
  BY <1>1, ContentsPlain
<1>8. \A x \in Callers : caller'[x].at # "cloned"
  BY <1>1, <1>6 DEF DictInv
<1>9. DictInv'
  BY <1>1, <1>4, <1>6, <1>7, <1>8 DEF DictInv
<1> QED
  BY <1>6, <1>9 DEF DictRefines

(* A write to the skip list, from the levels L to the levels M. *)
LEMMA SkipWrites ==
    ASSUME DictInv, NEW c \in Callers, form = "skiplist", form' = form, swaps' = swaps,
           caller[c].at = "begun", Conclude(c, Contents),
           NEW key \in MapKeys, caller[c].call.op \in {"set", "delete"}, key = caller[c].call.key,
           NEW L, Tower(forward, level, L), NEW M, Tower(forward', level', M),
           M[1] = IF caller[c].call.op = "set" THEN L[1] \cup {key} ELSE L[1] \ {key}
    PROVE  DictRefines
<1>2. /\ Contents = [k \in MapKeys |-> IF k \notin L[1] THEN Absent ELSE value[k]]
      /\ Contents' = [k \in MapKeys |-> IF k \notin M[1] THEN Absent ELSE value'[k]]
  BY ContentsAre
<1>3. PICK d \in [MapKeys -> Stored] : d = Contents
  BY <1>2 DEF DictInv, Stored
<1>4. PICK call \in D!Calls : call = caller[c].call
  BY CallerHas DEF DictInv
<1>5. value' = D!Effect(call, d) /\ value' \in [MapKeys -> Stored]
  <2>1. value' = D!Effect(call, d)
    BY <1>3, <1>4 DEF Conclude
  <2> QED
    BY <2>1, CallsTyped
<1>6. \A k \in MapKeys : k # key => value'[k] = d[k]
  BY <1>4, <1>5 DEF D!Effect
<1>7. \A k \in MapKeys : k \notin L[1] => d[k] = Absent
  BY <1>2, <1>3
<1>8. call.op = "delete" => value'[key] = Absent
  BY <1>4, <1>5 DEF D!Effect
<1>9. \A k \in MapKeys : k \notin M[1] => value'[k] = Absent
  <2> SUFFICES ASSUME NEW k \in MapKeys, k \notin M[1] PROVE value'[k] = Absent
    OBVIOUS
  <2>1. CASE call.op = "set"
    <3>1. k # key /\ k \notin L[1]
      BY <1>4, <2>1
    <3> QED
      BY <1>6, <1>7, <3>1
  <2>2. CASE call.op = "delete"
    <3>1. CASE k = key
      BY <1>8, <2>2, <3>1
    <3>2. CASE k # key
      <4>1. k \notin L[1]
        BY <1>4, <2>2, <3>2
      <4> QED
        BY <1>6, <1>7, <3>2, <4>1
    <3> QED
      BY <3>1, <3>2
  <2> QED
    BY <1>4, <2>1, <2>2
<1>10. Contents' = value'
  <2>1. Contents' = [k \in MapKeys |-> value'[k]]
    BY <1>2, <1>9
  <2> QED
    BY <1>5, <2>1
<1>11. Contents' = D!Effect(caller[c].call, d)
  BY <1>4, <1>5, <1>10
<1>12. /\ D!DictNext /\ caller' \in [Callers -> CallerStates]
       /\ caller'[c].at = "done" /\ \A x \in Callers : x # c => caller'[x] = caller[x]
  BY <1>3, <1>11, Concluded
<1>13. \A x \in Callers : caller'[x].at # "cloned"
  BY <1>12 DEF DictInv
<1>14. DictInv'
  BY <1>5, <1>12, <1>13 DEF DictInv
<1> QED
  BY <1>12, <1>14 DEF DictRefines

(* Set of the skip list. *)
LEMMA SkipSetRefines ==
    ASSUME DictInv, NEW c \in Callers, NEW height \in Heights, SkipSet(c, height)
    PROVE  DictRefines
<1>1. PICK L : Tower(forward, level, L)
  BY DEF DictInv
<1>2. /\ form = "skiplist" /\ form' = form /\ swaps' = swaps
      /\ caller[c].at = "begun" /\ caller[c].call.op = "set" /\ Conclude(c, Contents)
  BY DEF SkipSet, Asks, At
<1>3. PICK key \in MapKeys : key = caller[c].call.key
  <2>1. caller[c].call \in D!Calls
    BY <1>2, CallerHas DEF DictInv
  <2> QED
    BY <1>2, <2>1 DEF D!Calls
<1>4. Found(key) <=> key \in L[1]
  BY <1>1, FoundIs
<1>5. 1 \in Heights /\ L \in [Heights -> SUBSET MapKeys] /\ ~(1 > height)
  BY <1>1, KeysAreOrdered DEF Tower
<1>6. CASE key \in L[1]
  <2>1. forward' = forward /\ level' = level
    BY <1>3, <1>4, <1>6 DEF SkipSet
  <2>2. L[1] = L[1] \cup {key} /\ Tower(forward', level', L)
    BY <1>1, <1>6, <2>1
  <2> QED
    BY <1>1, <1>2, <1>3, <2>2, SkipWrites
<1>7. CASE key \notin L[1]
  <2> DEFINE M == [l \in Heights |-> IF l > height THEN L[l] ELSE L[l] \cup {key}]
  <2>1. forward' = Link(key, height) /\ level' = IF height > level THEN height ELSE level
    BY <1>3, <1>4, <1>7 DEF SkipSet
  <2>2. Tower(forward', level', M)
    <3>1. PICK top : top = IF height > level THEN height ELSE level
      OBVIOUS
    <3> QED
      BY <1>1, <1>7, <2>1, <3>1, LinkKeeps
  <2>3. M[1] = L[1] \cup {key}
    BY <1>5
  <2> HIDE DEF M
  <2> QED
    BY <1>1, <1>2, <1>3, <2>2, <2>3, SkipWrites
<1> QED
  BY <1>6, <1>7

(* Delete of the skip list. *)
LEMMA SkipDeleteRefines ==
    ASSUME DictInv, NEW c \in Callers, SkipDelete(c)
    PROVE  DictRefines
<1>1. PICK L : Tower(forward, level, L)
  BY DEF DictInv
<1>2. /\ form = "skiplist" /\ form' = form /\ swaps' = swaps
      /\ caller[c].at = "begun" /\ caller[c].call.op = "delete" /\ Conclude(c, Contents)
  BY DEF SkipDelete, Asks, At
<1>3. PICK key \in MapKeys : key = caller[c].call.key
  <2>1. caller[c].call \in D!Calls
    BY <1>2, CallerHas DEF DictInv
  <2> QED
    BY <1>2, <2>1 DEF D!Calls
<1>4. Found(key) <=> key \in L[1]
  BY <1>1, FoundIs
<1>5. 1 \in Heights /\ L \in [Heights -> SUBSET MapKeys]
  BY <1>1, KeysAreOrdered DEF Tower
<1>6. CASE key \notin L[1]
  <2>1. forward' = forward /\ level' = level
    BY <1>3, <1>4, <1>6 DEF SkipDelete
  <2>2. L[1] = L[1] \ {key} /\ Tower(forward', level', L)
    BY <1>1, <1>6, <2>1
  <2> QED
    BY <1>1, <1>2, <1>3, <2>2, SkipWrites
<1>7. CASE key \in L[1]
  <2> DEFINE M == [l \in Heights |-> L[l] \ {key}]
  <2>1. forward' = Unlink(key) /\ level' = Lower(Unlink(key))
    BY <1>3, <1>4, <1>7 DEF SkipDelete
  <2>2. Tower(forward', level', M)
    BY <1>1, <1>7, <2>1, UnlinkKeeps
  <2>3. M[1] = L[1] \ {key}
    BY <1>5
  <2> HIDE DEF M
  <2> QED
    BY <1>1, <1>2, <1>3, <2>2, <2>3, SkipWrites
<1> QED
  BY <1>6, <1>7

(* A read, or a write that clones the published snapshot. *)
LEMMA LoadRefines ==
    ASSUME DictInv, NEW c \in Callers, Load(c)
    PROVE  DictRefines
<1>1. form = "snapshot" /\ caller[c].at = "begun" /\ UNCHANGED <<form, swaps, forward, level>>
  BY DEF Load, Asks, At
<1>2. PICK call \in D!Calls : call = caller[c].call
  BY <1>1, CallerHas DEF DictInv
<1>3. Contents = value /\ value \in [MapKeys -> Stored]
  BY <1>1, ContentsPlain DEF DictInv
<1>4. CASE call.op \in {"get", "len"} \/ (call.op = "delete" /\ value[call.key] = Absent)
  <2>1. Conclude(c, value)
    BY <1>2, <1>4 DEF Load
  <2>2. D!Effect(call, value) = value
    <3>1. CASE call.op \in {"get", "len"}
      BY <3>1 DEF D!Effect
    <3>2. CASE call.op = "delete" /\ value[call.key] = Absent
      <4>1. D!Effect(call, value) = [value EXCEPT ![call.key] = Absent]
        BY <3>2 DEF D!Effect
      <4>2. [value EXCEPT ![call.key] = Absent] = value
        BY <1>3, <3>2
      <4> QED
        BY <4>1, <4>2
    <3> QED
      BY <1>4, <3>1, <3>2
  <2>3. value' = value
    BY <1>2, <2>1, <2>2 DEF Conclude
  <2>4. Contents' = D!Effect(caller[c].call, value) /\ \E L : Tower(forward', level', L)
    BY <1>1, <1>2, <1>3, <2>2, <2>3, ContentsPlain
  <2>5. /\ D!DictNext /\ caller' \in [Callers -> CallerStates]
        /\ caller'[c].at = "done" /\ \A x \in Callers : x # c => caller'[x] = caller[x]
    BY <1>1, <1>3, <2>1, <2>4, Concluded
  <2>6. DictInv'
    <3>1. \A x \in Callers :
             caller'[x].at = "cloned" =>
                /\ form' = "snapshot" /\ caller'[x].old =< swaps'
                /\ caller'[x].old = swaps' => caller'[x].clone = value'
      BY <1>1, <2>3, <2>5 DEF DictInv
    <3> QED
      BY <1>1, <1>3, <2>3, <2>4, <2>5, <3>1 DEF DictInv
  <2> QED
    BY <2>5, <2>6 DEF DictRefines
<1>5. CASE ~(call.op \in {"get", "len"} \/ (call.op = "delete" /\ value[call.key] = Absent))
  <2> DEFINE r == [at |-> "cloned", call |-> call, old |-> swaps, clone |-> value]
  <2>1. caller' = [caller EXCEPT ![c] = r] /\ value' = value
    BY <1>2, <1>5 DEF Load, Become
  <2>2. r \in CallerStates /\ Calling(r) = call /\ Calling(caller[c]) = call
        /\ r.at = "cloned" /\ r.old = swaps /\ r.clone = value
    BY <1>1, <1>2, <1>3 DEF CallerStates, Calling, DictInv
  <2> HIDE DEF r
  <2>3. caller' \in [Callers -> CallerStates] /\ \A x \in Callers : caller'[x] = IF x = c THEN r ELSE caller[x]
    BY <2>1, <2>2 DEF DictInv
  <2>4. Contents' = Contents /\ \E L : Tower(forward', level', L)
    BY <1>1, <2>1, ContentsPlain
  <2>5. DictInv'
    <3>1. \A x \in Callers :
             caller'[x].at = "cloned" =>
                /\ form' = "snapshot" /\ caller'[x].old =< swaps'
                /\ caller'[x].old = swaps' => caller'[x].clone = value'
      BY <1>1, <2>1, <2>2, <2>3 DEF DictInv
    <3> QED
      BY <1>1, <1>3, <2>1, <2>3, <2>4, <3>1 DEF DictInv
  <2>6. CallingNow' = CallingNow
    <3>1. CallingNow[c] = call /\ CallingNow' = [CallingNow EXCEPT ![c] = call]
      BY <2>1, <2>2, MappedCaller
    <3> QED
      BY <3>1 DEF CallingNow
  <2> QED
    BY <2>4, <2>5, <2>6, MappedSteps DEF DictRefines
<1> QED
  BY <1>4, <1>5

(* A write publishes its clone, or starts over. *)
LEMMA SwapRefines ==
    ASSUME DictInv, NEW c \in Callers, Swap(c)
    PROVE  DictRefines
<1>1. caller[c].at = "cloned" /\ UNCHANGED <<form, forward, level>>
  BY DEF Swap, At
<1>2. PICK call \in D!Calls : call = caller[c].call
  BY <1>1, CallerHas DEF DictInv
<1>3. /\ form = "snapshot"
      /\ caller[c].old = swaps => caller[c].clone = value
      /\ swaps \in Nat
      /\ \A x \in Callers : caller[x].at = "cloned" => caller[x].old \in Nat /\ caller[x].old =< swaps
  BY <1>1, CallerHas DEF DictInv
<1>4. Contents = value /\ value \in [MapKeys -> Stored] /\ \E L : Tower(forward', level', L)
  BY <1>1, <1>3, ContentsPlain DEF DictInv
<1>5. CASE caller[c].old = swaps
  <2>1. Conclude(c, value) /\ swaps' = swaps + 1
    BY <1>3, <1>5 DEF Swap
  <2>2. value' = D!Effect(call, value) /\ value' \in [MapKeys -> Stored]
    <3>1. value' = D!Effect(call, value)
      BY <1>2, <2>1 DEF Conclude
    <3> QED
      BY <1>4, <3>1, CallsTyped
  <2>3. Contents' = D!Effect(caller[c].call, value)
    BY <1>1, <1>2, <1>3, <2>2, ContentsPlain
  <2>4. /\ D!DictNext /\ caller' \in [Callers -> CallerStates]
        /\ caller'[c].at = "done" /\ \A x \in Callers : x # c => caller'[x] = caller[x]
    BY <1>1, <1>4, <2>1, <2>3, Concluded
  <2>5. DictInv'
    <3>1. ASSUME NEW x \in Callers, caller'[x].at = "cloned"
          PROVE  form' = "snapshot" /\ caller'[x].old =< swaps' /\ caller'[x].old # swaps'
      <4>1. caller'[x] = caller[x]
        BY <2>4, <3>1
      <4>2. caller[x].old \in Nat /\ caller[x].old =< swaps
        BY <1>3, <3>1, <4>1
      <4> QED
        BY <1>1, <1>3, <2>1, <4>1, <4>2
    <3>2. swaps' \in Nat
      BY <1>3, <2>1
    <3> QED
      BY <1>1, <1>3, <1>4, <2>2, <2>4, <3>1, <3>2 DEF DictInv
  <2> QED
    BY <2>4, <2>5 DEF DictRefines
<1>6. CASE caller[c].old # swaps
  <2> DEFINE r == [at |-> "begun", call |-> call]
  <2>1. Become(c, r) /\ UNCHANGED <<form, value, swaps, forward, level>>
    BY <1>2, <1>6 DEF Swap
  <2>2. r \in CallerStates /\ Calling(r) = call /\ Calling(caller[c]) = call /\ r.at # "cloned"
    BY <1>1, <1>2 DEF CallerStates, Calling
  <2> HIDE DEF r
  <2>3. DictInv' /\ Contents' = Contents /\ CallingNow[c] = call
        /\ CallingNow' = [CallingNow EXCEPT ![c] = call]
    BY <2>1, <2>2, DictMoves
  <2>4. CallingNow' = CallingNow
    BY <2>3 DEF CallingNow
  <2> QED
    BY <2>3, <2>4, MappedSteps DEF DictRefines
<1> QED
  BY <1>5, <1>6

(* Every step. *)
LEMMA DictStep ==
    ASSUME DictInv, [CDNext]_cdVars
    PROVE  DictRefines
<1>1. ASSUME NEW c \in Callers, NEW call \in D!Calls, Begin(c, call) PROVE DictRefines
  BY <1>1, BeginRefines
<1>2. ASSUME NEW c \in Callers, NEW height \in Heights, SkipSet(c, height) PROVE DictRefines
  BY <1>2, SkipSetRefines
<1>3. ASSUME NEW c \in Callers, SkipDelete(c) PROVE DictRefines
  BY <1>3, SkipDeleteRefines
<1>4. ASSUME NEW c \in Callers, SkipRead(c) \/ LockedCall(c) PROVE DictRefines
  BY <1>4, LockedRefines
<1>5. ASSUME NEW c \in Callers, Load(c) PROVE DictRefines
  BY <1>5, LoadRefines
<1>6. ASSUME NEW c \in Callers, Swap(c) PROVE DictRefines
  BY <1>6, SwapRefines
<1>7. ASSUME NEW c \in Callers, ReturnAnswer(c) PROVE DictRefines
  BY <1>7, ReturnRefines
<1>8. CASE UNCHANGED cdVars
  <2>1. /\ UNCHANGED <<form, value, swaps, forward, level, caller>>
        /\ Contents' = Contents
    BY <1>8, ContentsPlain DEF cdVars
  <2>2. CallingNow' = CallingNow
    BY <2>1 DEF CallingNow, Calling
  <2>3. DictInv'
    BY <2>1 DEF DictInv
  <2> QED
    BY <2>1, <2>2, <2>3, MappedSteps DEF DictRefines
<1> QED
  BY <1>1, <1>2, <1>3, <1>4, <1>5, <1>6, <1>7, <1>8 DEF CDNext

(* An empty map. *)
LEMMA DictStart ==
    ASSUME CDInit
    PROVE  DictInv /\ D!DictInit
<1> DEFINE L == [l \in Heights |-> {}]
<1>1. Tower(forward, level, L)
  <2>1. \A l \in Heights : Chain(forward[l], {})
    <3>1. [n \in Nodes |-> Nil] \in [Nodes -> MapKeys \cup {Nil}] /\ \A n \in Nodes : n < Nil
      BY KeysAreOrdered
    <3>2. Chain([n \in Nodes |-> Nil], {})
      BY <3>1, KeysAreOrdered DEF Chain
    <3> QED
      BY <3>2 DEF CDInit
  <2> QED
    BY <2>1, KeysAreOrdered DEF CDInit, Tower
<1>2. DictInv
  <2>1. caller \in [Callers -> CallerStates] /\ \A c \in Callers : caller[c].at = "idle"
    BY DEF CDInit, CallerStates
  <2>2. value \in [MapKeys -> Stored] /\ swaps \in Nat /\ form \in {"snapshot", "skiplist", "sharded"}
    BY DictAssumption DEF CDInit, Stored
  <2> QED
    BY <1>1, <2>1, <2>2 DEF DictInv
<1>3. Contents = [k \in MapKeys |-> Absent]
  BY <1>1, ContentsAre DEF CDInit
<1>4. CallingNow = [c \in Callers |-> NotCalling]
  BY DEF CDInit, CallingNow, Calling
<1> QED
  BY <1>2, <1>3, <1>4, MappedSteps

(* ImplementsDictionary: the calls of every implementation take effect at    *)
(* one instant, between call and return.                                     *)
THEOREM DictImplements == CDSpec => ImplementsDictionary
<1>1. CDInit => DictInv /\ D!DictInit
  BY DictStart
<1>2. DictInv /\ [CDNext]_cdVars => DictInv' /\ [D!DictNext]_D!dictVars
  BY DictStep DEF DictRefines
<1> QED
  BY <1>1, <1>2, PTL DEF CDSpec, ImplementsDictionary, D!DictSpec
=============================================================================
