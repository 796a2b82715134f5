-------------------------- MODULE TransferHubProofs --------------------------
(* The watcher's bookkeeping, for every number of venues, workers, payments  *)
(* and crashes and every page size: its types, and that a process credits a  *)
(* payment at most once, skips none, and never saves a cursor ahead of what  *)
(* it credited.                                                              *)
EXTENDS TransferHub, SumTheorems, TLAPS

(* The three properties are not inductive: they rest on where the cursors    *)
(* stand while the process starts, on every position being one of the chain, *)
(* and on every credited payment lying behind its venue's cursor.            *)
Positioned ==
    /\ \A v \in Venues : cursor[v] =< Len(chain) /\ saved[v] =< Len(chain)
    /\ upto =< Len(chain)

Starting ==
    /\ phase # "watch" => polling = Nobody
    /\ phase = "down" => \A v \in Venues : cursor[v] = 0 /\ start[v] = 0
    /\ phase = "init" =>
         /\ \A v \in Venues : cursor[v] = start[v]
         /\ \A v \in Venues : v \notin todo /\ saved[v] # NoCursor => cursor[v] = saved[v]
         /\ \A p \in Positions : credits[p] = 0

CreditedIsBehind ==
    phase # "down" => \A p \in Positions : credits[p] > 0 =>
        /\ p =< Len(chain)
        /\ chain[p].to \in Venues
        /\ p =< cursor[chain[p].to]

HubInv ==
    /\ TypeOK
    /\ Positioned
    /\ Starting
    /\ CreditedIsBehind
    /\ CreditedOnce
    /\ NoneSkipped
    /\ SavedNotAhead

-----------------------------------------------------------------------------
(* What Withdraw debits is a number of ledger units.                         *)
LEMMA QuantizedInt ==
    ASSUME NEW amt \in Amounts PROVE Quantized(amt) \in Int
<1>1. amt \in Nat /\ Quantum \in Nat /\ Quantum > 0 BY HubAssumption
<1>2. amt \div Quantum \in Int BY <1>1
<1> QED BY <1>1, <1>2 DEF Quantized

(* Reading a worker's step off its "at": only Idle is not a withdrawal.      *)
LEMMA WorkerBusy ==
    ASSUME TypeOK, NEW w \in Workers, worker[w].at \in {"send", "record", "refund"}
    PROVE  worker[w] \in InWithdraw
BY DEF TypeOK, Idle

(* A step of the program keeps the types.                                    *)
LEMMA HubTypesStep == TypeOK /\ [Next]_vars => TypeOK'
<1> SUFFICES ASSUME TypeOK, [Next]_vars PROVE TypeOK' OBVIOUS
<1> USE HubAssumption
<1>1. CASE Boot BY <1>1 DEF TypeOK, Boot, chainVars
<1>2. ASSUME NEW v \in Venues, InitCursor(v) PROVE TypeOK'
  <2>1. PICK c \in IF saved[v] # NoCursor THEN {saved[v]}
                   ELSE Latest(History(v)) \cup (IF LatestFails THEN {0} ELSE {}) :
             cursor' = [cursor EXCEPT ![v] = c] /\ start' = [start EXCEPT ![v] = c]
    BY <1>2 DEF InitCursor
  <2>2. c \in Nat BY <2>1 DEF TypeOK, Latest, History, NoCursor
  <2> QED BY <1>2, <2>1, <2>2 DEF TypeOK, InitCursor, chainVars
<1>3. CASE StartWatch BY <1>3 DEF TypeOK, StartWatch, SaveCursors, watchVars, histVars
<1>4. CASE Crash
  <2>1. /\ ledger' \in [Venues -> Nat] /\ cursor' \in [Venues -> Nat] /\ start' \in [Venues -> Nat]
        /\ worker' \in [Workers -> InWithdraw \cup {Idle}]
    BY <1>4 DEF Crash
  <2>2. /\ todo' \subseteq Venues /\ polling' \in Venues \cup {Nobody} /\ upto' \in 0..MaxPayments
        /\ crashes' \in Nat /\ phase' \in {"down", "init", "watch"}
    BY <1>4 DEF Crash, TypeOK
  <2>3. inflight' = {} BY <1>4 DEF Crash
  <2>4. changed' \in BOOLEAN BY <1>4, Zenon DEF Crash
  <2> QED BY <1>4, <2>1, <2>2, <2>3, <2>4 DEF TypeOK, Crash
<1>5. ASSUME NEW w \in Workers, NEW v \in Venues, NEW dest \in Addresses, NEW amt \in Amounts,
             Withdraw(w, v, dest, amt)
      PROVE  TypeOK'
  <2>1. Quantized(amt) \in Nat /\ ledger[v] - Quantized(amt) \in Nat
    BY <1>5, QuantizedInt DEF Withdraw, Debitable, TypeOK
  <2>2. [at |-> "send", from |-> v, to |-> dest, amt |-> Quantized(amt), tx |-> 0] \in InWithdraw
    BY <2>1 DEF InWithdraw
  <2> QED BY <1>5, <2>1, <2>2 DEF TypeOK, Withdraw, chainVars, watchVars, histVars
<1>6. ASSUME NEW w \in Workers, Send(w) PROVE TypeOK'
  <2>1. worker[w] \in InWithdraw BY <1>6, WorkerBusy DEF Send
  <2>2. chain' \in Seq(Payment) /\ Len(chain') =< MaxPayments /\ Len(chain) + 1 \in 0..MaxPayments
    <3>1. [from |-> worker[w].from, to |-> worker[w].to, amt |-> worker[w].amt] \in Payment
      BY <2>1 DEF Payment, InWithdraw, Addresses
    <3>2. Len(chain) \in Nat /\ Len(chain) < MaxPayments BY <1>6 DEF TypeOK, Send, Pay
    <3> QED BY <1>6, <3>1, <3>2 DEF TypeOK, Send, Pay
  <2>3. worker' \in [Workers -> InWithdraw \cup {Idle}]
    <3>1. \A at \in {"record", "refund"} :
             [worker[w] EXCEPT !.at = at, !.tx = Len(chain) + 1] \in InWithdraw
      BY <2>1, <2>2 DEF InWithdraw
    <3>2. \E at \in {"record", "refund"} :
             worker' = [worker EXCEPT ![w] = [worker[w] EXCEPT !.at = at, !.tx = Len(chain) + 1]]
      BY <1>6 DEF TypeOK, Send
    <3> QED BY <3>1, <3>2 DEF TypeOK
  <2> QED BY <1>6, <2>2, <2>3 DEF TypeOK, Send, watchVars, histVars
<1>7. ASSUME NEW w \in Workers, SendFails(w) PROVE TypeOK'
  <2>1. worker[w] \in InWithdraw BY <1>7, WorkerBusy DEF SendFails
  <2> QED BY <1>7, <2>1 DEF TypeOK, SendFails, InWithdraw, chainVars, watchVars, histVars
<1>8. ASSUME NEW w \in Workers, Refund(w) PROVE TypeOK'
  <2>1. worker[w] \in InWithdraw BY <1>8, WorkerBusy DEF Refund
  <2>2. ledger' \in [Venues -> Nat] BY <1>8, <2>1 DEF TypeOK, Refund, InWithdraw
  <2> QED BY <1>8, <2>2 DEF TypeOK, Refund, chainVars, watchVars, histVars
<1>9. ASSUME NEW w \in Workers, RecordInflight(w) PROVE TypeOK'
  <2>1. worker[w] \in InWithdraw BY <1>9, WorkerBusy DEF RecordInflight
  <2> QED BY <1>9, <2>1 DEF TypeOK, RecordInflight, InWithdraw, chainVars, watchVars, histVars
<1>10. CASE BeginPoll BY <1>10 DEF TypeOK, BeginPoll, chainVars, histVars
<1>11. ASSUME NEW v \in Venues, Receive(v) PROVE TypeOK'
  <2>1. upto' \in 0..MaxPayments BY <1>11 DEF TypeOK, Receive, Latest, Page, History
  <2> QED BY <1>11, <2>1 DEF TypeOK, Receive, chainVars, histVars
<1>12. ASSUME NEW v \in Venues, ReceiveFails(v) PROVE TypeOK'
  BY <1>12 DEF TypeOK, ReceiveFails, chainVars, histVars
<1>13. CASE CreditNext
  <2>1. PICK p \in Incoming(polling, cursor[polling], upto) :
             /\ ledger' = [ledger EXCEPT ![polling] = @ + chain[p].amt]
             /\ cursor' = [cursor EXCEPT ![polling] = p]
             /\ credits' = [credits EXCEPT ![p] = @ + 1]
             /\ Settle(p)
    BY <1>13 DEF CreditNext
  <2>2. polling \in Venues BY <1>13 DEF TypeOK, CreditNext
  <2>3. p \in 1..Len(chain) /\ p \in Positions /\ chain[p] \in Payment
    BY <2>2, HubAssumption DEF TypeOK, Incoming, Positions
  <2>4. inflight' \subseteq [tx : Nat, status : {"pending", "settled"}]
    BY <2>1 DEF TypeOK, Settle
  <2>5. ledger' \in [Venues -> Nat] /\ cursor' \in [Venues -> Nat] /\ credits' \in [Positions -> Nat]
    <3>1. ledger[polling] \in Nat /\ chain[p].amt \in Nat /\ credits[p] \in Nat /\ p \in Nat
      BY <2>2, <2>3 DEF TypeOK, Payment
    <3>2. ledger' \in [Venues -> Nat] BY <2>1, <2>2, <3>1 DEF TypeOK
    <3>3. cursor' \in [Venues -> Nat] BY <2>1, <2>2, <3>1 DEF TypeOK
    <3>4. credits' \in [Positions -> Nat] BY <2>1, <2>3, <3>1 DEF TypeOK
    <3> QED BY <3>2, <3>3, <3>4
  <2> QED BY <1>13, <2>4, <2>5 DEF TypeOK, CreditNext, chainVars
<1>14. CASE VenueDone BY <1>14 DEF TypeOK, VenueDone, chainVars, histVars
<1>15. CASE EndPoll BY <1>15 DEF TypeOK, EndPoll, SaveCursors, histVars
<1>16. ASSUME NEW v \in Venues, NEW amt \in Amounts, Deposit(v, amt) PROVE TypeOK'
  <2>1. [from |-> Outside, to |-> v, amt |-> amt] \in Payment BY DEF Payment, Addresses
  <2>2. chain' \in Seq(Payment) /\ Len(chain') =< MaxPayments
    BY <1>16, <2>1 DEF TypeOK, Deposit, Pay
  <2> QED BY <1>16, <2>2 DEF TypeOK, Deposit, watchVars, histVars
<1>17. CASE UNCHANGED vars BY <1>17 DEF TypeOK, vars, chainVars, watchVars, histVars
<1> QED BY <1>1, <1>2, <1>3, <1>4, <1>5, <1>6, <1>7, <1>8, <1>9, <1>10, <1>11, <1>12, <1>13,
           <1>14, <1>15, <1>16, <1>17 DEF Next

(* The configuration the program starts from.                                *)
LEMMA HubTypesInit == Init => TypeOK
<1> SUFFICES ASSUME Init PROVE TypeOK OBVIOUS
<1>1. chain \in Seq(Payment) /\ Len(chain) =< MaxPayments
  <2>1. \A v \in Venues, a \in Amounts : [from |-> Outside, to |-> v, amt |-> a] \in Payment
    BY HubAssumption DEF Payment, Addresses
  <2>2. CASE chain = <<>> BY <2>2, HubAssumption
  <2>3. CASE chain # <<>>
    <3>1. PICK v \in Venues, a \in Amounts : chain = <<[from |-> Outside, to |-> v, amt |-> a]>>
      BY <2>3 DEF Init
    <3> QED BY <2>1, <3>1, HubAssumption
  <2> QED BY <2>2, <2>3
<1>2. /\ ledger \in [Venues -> Nat] /\ cursor \in [Venues -> Nat] /\ start \in [Venues -> Nat]
      /\ saved \in [Venues -> Nat \cup {NoCursor}]
      /\ worker \in [Workers -> InWithdraw \cup {Idle}]
      /\ credits \in [Positions -> Nat]
  BY HubAssumption DEF Init
<1>3. /\ crashes \in Nat /\ phase \in {"down", "init", "watch"}
      /\ inflight = {} /\ todo \subseteq Venues /\ polling \in Venues \cup {Nobody}
      /\ upto \in 0..MaxPayments /\ born \in 0..MaxPayments
  BY HubAssumption DEF Init
<1>4. changed \in BOOLEAN BY Zenon DEF Init
<1> QED BY <1>1, <1>2, <1>3, <1>4 DEF TypeOK

(* TypeOK (what the watcher and the withdrawals may hold): hub.go's state    *)
(* keeps its types, a free balance never goes below zero, and no worker      *)
(* records a payment that is not on the chain.                               *)
THEOREM HubTypes == Spec => []TypeOK
<1>1. Init => TypeOK BY HubTypesInit
<1>2. TypeOK /\ [Next]_vars => TypeOK' BY HubTypesStep
<1> QED BY <1>1, <1>2, PTL DEF Spec

-----------------------------------------------------------------------------
(* Steps of a withdrawal, and a poll that finds nothing, leave the watcher's *)
(* bookkeeping alone.                                                        *)
LEMMA QuietKeeps ==
    ASSUME HubInv, TypeOK',
           UNCHANGED <<chain, saved, phase, cursor, polling, upto, start, credits>>,
           phase = "init" => todo' = todo
    PROVE  HubInv'
<1>1. Positioned' /\ Starting' BY DEF HubInv, Positioned, Starting
<1>2. CreditedIsBehind' /\ CreditedOnce' BY DEF HubInv, CreditedIsBehind, CreditedOnce
<1>3. NoneSkipped' /\ SavedNotAhead' BY DEF HubInv, NoneSkipped, SavedNotAhead
<1> QED BY <1>1, <1>2, <1>3 DEF HubInv

(* A new payment lies beyond every cursor, so it disturbs none of it.        *)
LEMMA PaymentKeeps ==
    ASSUME HubInv, TypeOK', NEW e, chain' = Append(chain, e),
           UNCHANGED <<saved, phase, cursor, todo, polling, upto, start, credits>>
    PROVE  HubInv'
<1> USE HubAssumption
<1>1. Len(chain') = Len(chain) + 1 /\ Len(chain) \in Nat BY DEF HubInv, TypeOK
<1>2. \A p \in 1..Len(chain) : chain'[p] = chain[p] BY DEF HubInv, TypeOK
<1>3. upto \in Int /\ upto =< Len(chain) BY DEF HubInv, TypeOK, Positioned
<1>4. \A v \in Venues : /\ cursor[v] \in Int /\ cursor[v] =< Len(chain)
                         /\ saved[v] \in Int /\ saved[v] =< Len(chain)
  BY DEF HubInv, TypeOK, Positioned, NoCursor
<1>5. Positioned' BY <1>1, <1>3, <1>4 DEF Positioned
<1>6. Starting' BY DEF HubInv, Starting
<1>7. CreditedIsBehind' BY <1>1, <1>2 DEF HubInv, CreditedIsBehind, Positions
<1>8. CreditedOnce' BY DEF HubInv, CreditedOnce
<1>9. NoneSkipped'
  <2> SUFFICES ASSUME NEW p \in 1..Len(chain'), chain'[p].to \in Venues,
                      start[chain'[p].to] < p, p =< cursor[chain'[p].to]
               PROVE  credits[p] = 1
    BY DEF NoneSkipped
  <2>1. p \in 1..Len(chain) BY <1>1 DEF HubInv, Positioned, TypeOK
  <2> QED BY <1>2, <2>1 DEF HubInv, NoneSkipped
<1>10. SavedNotAhead'
  <2> SUFFICES ASSUME phase = "watch", NEW v \in Venues
               PROVE  /\ saved[v] =< cursor[v]
                      /\ \A p \in 1..Len(chain') :
                            chain'[p].to = v /\ start[v] < p /\ p =< saved[v] => credits[p] = 1
    BY DEF SavedNotAhead
  <2>1. saved[v] =< cursor[v] BY DEF HubInv, SavedNotAhead
  <2>2. ASSUME NEW p \in 1..Len(chain'), chain'[p].to = v, start[v] < p, p =< saved[v]
        PROVE  credits[p] = 1
    <3>1. p \in 1..Len(chain)
      BY <1>1, <1>4, <2>2
    <3> QED BY <1>2, <2>2, <3>1 DEF HubInv, SavedNotAhead
  <2> QED BY <2>1, <2>2
<1> QED BY <1>5, <1>6, <1>7, <1>8, <1>9, <1>10 DEF HubInv

(* CreditNext takes the first payment beyond the cursor, which is the only   *)
(* one the cursor passes.                                                    *)
LEMMA CreditKeeps == ASSUME HubInv, TypeOK', CreditNext PROVE HubInv'
<1> DEFINE v == polling
<1>1. phase = "watch" /\ v \in Venues /\ phase' = phase /\ chain' = chain /\ saved' = saved
      /\ polling' = polling /\ upto' = upto /\ start' = start
  BY DEF HubInv, TypeOK, CreditNext, chainVars
<1>2. PICK p \in Incoming(v, cursor[v], upto) :
           /\ \A q \in Incoming(v, cursor[v], upto) : p =< q
           /\ cursor' = [cursor EXCEPT ![v] = p]
           /\ credits' = [credits EXCEPT ![p] = @ + 1]
  BY DEF CreditNext
<1>3. /\ p \in 1..Len(chain) /\ p \in Positions /\ p > cursor[v] /\ p =< upto /\ chain[p].to = v
      /\ cursor[v] \in Nat /\ Len(chain) \in Nat /\ upto \in Nat
  BY <1>1, <1>2, HubAssumption DEF HubInv, TypeOK, Incoming, Positions
<1>4. \A q \in 1..Len(chain) : chain[q].to = v /\ cursor[v] < q /\ q =< p => q = p
  <2> SUFFICES ASSUME NEW q \in 1..Len(chain), chain[q].to = v, cursor[v] < q, q =< p
               PROVE  q = p
    OBVIOUS
  <2>1. DOMAIN chain = 1..Len(chain) BY DEF HubInv, TypeOK
  <2>2. q \in (cursor[v] + 1)..upto BY <1>3
  <2>3. q \in Incoming(v, cursor[v], upto) BY <2>1, <2>2 DEF Incoming
  <2> QED BY <1>2, <1>3, <2>3
<1>5. credits[p] = 0
  <2>1. credits[p] \in Nat BY <1>3 DEF HubInv, TypeOK
  <2>2. credits[p] > 0 => p =< cursor[v] BY <1>1, <1>3 DEF HubInv, CreditedIsBehind
  <2>3. p \in Nat BY <1>3
  <2> QED BY <1>3, <2>1, <2>2, <2>3
<1>6. /\ cursor'[v] = p /\ (\A u \in Venues : u # v => cursor'[u] = cursor[u])
      /\ credits'[p] = 1 /\ (\A q \in Positions : q # p => credits'[q] = credits[q])
  BY <1>1, <1>2, <1>3, <1>5 DEF HubInv, TypeOK
<1> HIDE DEF v
<1>7. Positioned' BY <1>1, <1>3, <1>6 DEF HubInv, Positioned
<1>8. Starting' BY <1>1 DEF Starting
<1>9. CreditedIsBehind'
  <2> SUFFICES ASSUME NEW q \in Positions, credits'[q] > 0
               PROVE  q =< Len(chain) /\ chain[q].to \in Venues /\ q =< cursor'[chain[q].to]
    BY <1>1 DEF CreditedIsBehind
  <2>1. CASE q = p BY <1>1, <1>3, <1>6, <2>1
  <2>2. CASE q # p
    <3>1. q =< Len(chain) /\ chain[q].to \in Venues /\ q =< cursor[chain[q].to]
      BY <1>1, <1>6, <2>2 DEF HubInv, CreditedIsBehind
    <3>3. cursor[chain[q].to] \in Nat /\ cursor'[chain[q].to] \in Nat /\ q \in Nat
      BY <3>1 DEF HubInv, TypeOK, Positions
    <3>2. cursor[chain[q].to] =< cursor'[chain[q].to]
      <4>1. CASE chain[q].to = v BY <1>3, <1>6, <4>1
      <4>2. CASE chain[q].to # v BY <1>6, <3>1, <3>3, <4>2
      <4> QED BY <4>1, <4>2
    <3> QED BY <3>1, <3>2, <3>3
  <2> QED BY <2>1, <2>2
<1>10. CreditedOnce' BY <1>6 DEF HubInv, CreditedOnce
<1>11. \A q \in 1..Len(chain) : q \in Positions BY <1>3, HubAssumption DEF HubInv, TypeOK, Positions
<1>12. NoneSkipped'
  <2> SUFFICES ASSUME NEW q \in 1..Len(chain), chain[q].to \in Venues,
                      start[chain[q].to] < q, q =< cursor'[chain[q].to]
               PROVE  credits'[q] = 1
    BY <1>1 DEF NoneSkipped
  <2>1. CASE q = p BY <1>6, <2>1
  <2>2. CASE q # p
    <3>1. q =< cursor[chain[q].to]
      <4>1. CASE chain[q].to = v BY <1>3, <1>4, <1>6, <2>2, <4>1
      <4>2. CASE chain[q].to # v BY <1>6, <4>2
      <4> QED BY <4>1, <4>2
    <3> QED BY <1>6, <1>11, <2>2, <3>1 DEF HubInv, NoneSkipped
  <2> QED BY <2>1, <2>2
<1>13. SavedNotAhead'
  <2> SUFFICES ASSUME NEW u \in Venues
               PROVE  /\ saved[u] =< cursor'[u]
                      /\ \A q \in 1..Len(chain) :
                            chain[q].to = u /\ start[u] < q /\ q =< saved[u] => credits'[q] = 1
    BY <1>1 DEF SavedNotAhead
  <2>1. saved[u] =< cursor[u] BY <1>1 DEF HubInv, SavedNotAhead
  <2>2. saved[u] =< cursor'[u]
    <3>1. CASE u = v
      <4>1. saved[v] \in Int BY <1>1 DEF HubInv, TypeOK, NoCursor
      <4> QED BY <1>3, <1>6, <2>1, <3>1, <4>1
    <3>2. CASE u # v BY <1>6, <2>1, <3>2
    <3> QED BY <3>1, <3>2
  <2>3. ASSUME NEW q \in 1..Len(chain), chain[q].to = u, start[u] < q, q =< saved[u]
        PROVE  credits'[q] = 1
    <3>1. credits[q] = 1 BY <1>1, <2>3 DEF HubInv, SavedNotAhead
    <3> QED BY <1>5, <1>6, <1>11, <3>1
  <2> QED BY <2>2, <2>3
<1> QED BY <1>7, <1>8, <1>9, <1>10, <1>12, <1>13 DEF HubInv

(* While the process starts nothing has been credited, and each cursor is    *)
(* the one the process counts from.                                          *)
LEMMA InitCursorKeeps ==
    ASSUME HubInv, TypeOK', NEW v \in Venues, InitCursor(v) PROVE HubInv'
<1> USE HubAssumption
<1>1. PICK c \in IF saved[v] # NoCursor THEN {saved[v]}
                 ELSE Latest(History(v)) \cup (IF LatestFails THEN {0} ELSE {}) :
           cursor' = [cursor EXCEPT ![v] = c] /\ start' = [start EXCEPT ![v] = c]
  BY DEF InitCursor
<1>2. /\ c =< Len(chain) /\ (saved[v] # NoCursor => c = saved[v])
      /\ cursor'[v] = c /\ start'[v] = c
      /\ \A u \in Venues : u # v => cursor'[u] = cursor[u] /\ start'[u] = start[u]
  BY <1>1 DEF HubInv, TypeOK, Positioned, Latest, History
<1>3. /\ phase = "init" /\ phase' = phase /\ chain' = chain /\ saved' = saved /\ credits' = credits
      /\ polling' = polling /\ upto' = upto /\ v \in todo /\ todo' = todo \ {v}
  BY DEF InitCursor, chainVars
<1>4. Positioned' BY <1>2, <1>3 DEF HubInv, Positioned
<1>5. Starting' BY <1>2, <1>3 DEF HubInv, Starting
<1>6. CreditedIsBehind' BY <1>3 DEF HubInv, Starting, CreditedIsBehind
<1>7. CreditedOnce' BY <1>3 DEF HubInv, CreditedOnce
<1>8. NoneSkipped'
  <2> SUFFICES ASSUME NEW p \in 1..Len(chain), chain[p].to \in Venues,
                      start'[chain[p].to] < p, p =< cursor'[chain[p].to]
               PROVE  FALSE
    BY <1>3 DEF NoneSkipped
  <2>1. cursor'[chain[p].to] = start'[chain[p].to] BY <1>3, <1>5 DEF Starting
  <2>2. start'[chain[p].to] \in Nat /\ p \in Int BY DEF TypeOK
  <2> QED BY <2>1, <2>2
<1>9. SavedNotAhead' BY <1>3 DEF SavedNotAhead
<1> QED BY <1>4, <1>5, <1>6, <1>7, <1>8, <1>9 DEF HubInv

(* When the loop begins the file holds the cursors themselves, or what they  *)
(* were taken from, or nothing.                                              *)
LEMMA StartWatchKeeps == ASSUME HubInv, TypeOK', StartWatch PROVE HubInv'
<1>1. /\ phase = "init" /\ phase' = "watch" /\ todo = {} /\ saved' \in {cursor, saved}
      /\ UNCHANGED <<chain, cursor, polling, upto, start, credits>>
  BY DEF StartWatch, SaveCursors, watchVars, histVars
<1>2. Positioned' BY <1>1 DEF HubInv, Positioned
<1>3. Starting' BY <1>1 DEF Starting
<1>4. CreditedIsBehind' /\ CreditedOnce' /\ NoneSkipped'
  BY <1>1 DEF HubInv, CreditedIsBehind, CreditedOnce, NoneSkipped
<1>5. SavedNotAhead'
  <2>1. ASSUME NEW v \in Venues PROVE saved'[v] =< cursor[v] /\ cursor[v] = start[v]
    BY <1>1 DEF HubInv, TypeOK, Starting, NoCursor
  <2>2. ASSUME NEW v \in Venues, NEW p \in 1..Len(chain), start[v] < p, p =< saved'[v]
        PROVE  FALSE
    <3>1. saved'[v] \in Int /\ cursor[v] \in Int /\ p \in Int /\ start[v] \in Int
      BY <1>1 DEF HubInv, TypeOK, NoCursor
    <3> QED BY <2>1, <2>2, <3>1
  <2> QED BY <1>1, <2>1, <2>2 DEF SavedNotAhead
<1> QED BY <1>2, <1>3, <1>4, <1>5 DEF HubInv

(* A crash leaves a process that has credited nothing; so does its restart.  *)
LEMMA CrashKeeps == ASSUME HubInv, TypeOK', Crash \/ Boot PROVE HubInv'
<1> USE HubAssumption
<1>1. CASE Crash
  <2>1. /\ phase' = "down" /\ polling' = Nobody /\ upto' = 0
        /\ UNCHANGED <<chain, saved, credits>>
        /\ \A v \in Venues : cursor'[v] = 0 /\ start'[v] = 0
    BY <1>1 DEF Crash
  <2>2. Positioned' BY <2>1 DEF HubInv, TypeOK, Positioned
  <2>3. Starting' BY <2>1 DEF Starting
  <2>4. CreditedIsBehind' /\ CreditedOnce' /\ SavedNotAhead'
    BY <2>1 DEF HubInv, CreditedIsBehind, CreditedOnce, SavedNotAhead
  <2>5. NoneSkipped' BY <2>1 DEF NoneSkipped
  <2> QED BY <2>2, <2>3, <2>4, <2>5 DEF HubInv
<1>2. CASE Boot
  <2>1. /\ phase = "down" /\ phase' = "init" /\ todo' = Venues
        /\ UNCHANGED <<chain, saved, cursor, polling, upto, start>>
        /\ \A p \in Positions : credits'[p] = 0
    BY <1>2 DEF Boot, chainVars
  <2>2. Positioned' BY <2>1 DEF HubInv, Positioned
  <2>3. Starting' BY <2>1 DEF HubInv, Starting
  <2>4. CreditedIsBehind' /\ CreditedOnce' /\ SavedNotAhead'
    BY <2>1 DEF CreditedIsBehind, CreditedOnce, SavedNotAhead
  <2>5. NoneSkipped' BY <2>1 DEF HubInv, Starting, NoneSkipped
  <2> QED BY <2>2, <2>3, <2>4, <2>5 DEF HubInv
<1> QED BY <1>1, <1>2

(* Reading a page, leaving a venue, and ending a poll.                       *)
LEMMA PollKeeps ==
    ASSUME HubInv, TypeOK', (\E v \in Venues : Receive(v)) \/ VenueDone \/ EndPoll
    PROVE  HubInv'
<1>1. /\ phase = "watch" /\ upto' =< Len(chain) /\ saved' \in {cursor, saved}
      /\ UNCHANGED <<chain, phase, cursor, start, credits>>
  <2>1. ASSUME NEW v \in Venues, Receive(v) PROVE upto' =< Len(chain)
    BY <2>1 DEF HubInv, TypeOK, Receive, Latest, Page, History
  <2>2. CASE VenueDone BY <2>2 DEF HubInv, TypeOK, VenueDone, chainVars, histVars
  <2>3. CASE EndPoll BY <2>3 DEF HubInv, Positioned, EndPoll, SaveCursors, histVars
  <2> QED BY <2>1, <2>2, <2>3 DEF Receive, chainVars, histVars
<1>2. Positioned' BY <1>1 DEF HubInv, Positioned
<1>3. Starting' BY <1>1 DEF Starting
<1>4. CreditedIsBehind' /\ CreditedOnce' /\ NoneSkipped'
  BY <1>1 DEF HubInv, CreditedIsBehind, CreditedOnce, NoneSkipped
<1>5. SavedNotAhead'
  <2> SUFFICES ASSUME NEW v \in Venues
               PROVE  /\ saved'[v] =< cursor[v]
                      /\ \A p \in 1..Len(chain) :
                            chain[p].to = v /\ start[v] < p /\ p =< saved'[v] => credits[p] = 1
    BY <1>1 DEF SavedNotAhead
  <2>1. CASE saved' = saved BY <1>1, <2>1 DEF HubInv, SavedNotAhead
  <2>2. CASE saved' = cursor
    <3>1. cursor[v] =< cursor[v] BY DEF HubInv, TypeOK
    <3>2. ASSUME NEW p \in 1..Len(chain), chain[p].to = v, start[v] < p, p =< cursor[v]
          PROVE  credits[p] = 1
      BY <3>2 DEF HubInv, NoneSkipped
    <3> QED BY <2>2, <3>1, <3>2
  <2> QED BY <1>1, <2>1, <2>2
<1> QED BY <1>2, <1>3, <1>4, <1>5 DEF HubInv

(* A step of the program keeps the watcher's bookkeeping.                    *)
LEMMA HubStep == HubInv /\ [Next]_vars => HubInv'
<1> SUFFICES ASSUME HubInv, [Next]_vars PROVE HubInv' OBVIOUS
<1>1. TypeOK' BY HubTypesStep DEF HubInv
<1>2. CASE Boot \/ Crash BY <1>1, <1>2, CrashKeeps
<1>3. ASSUME NEW v \in Venues, InitCursor(v) PROVE HubInv' BY <1>1, <1>3, InitCursorKeeps
<1>4. CASE StartWatch BY <1>1, <1>4, StartWatchKeeps
<1>5. ASSUME NEW w \in Workers,
             \/ \E v \in Venues, dest \in Addresses, amt \in Amounts : Withdraw(w, v, dest, amt)
             \/ SendFails(w) \/ Refund(w) \/ RecordInflight(w)
      PROVE  HubInv'
  <2>1. UNCHANGED <<chain, saved, phase, cursor, todo, polling, upto, start, credits>>
    BY <1>5 DEF Withdraw, SendFails, Refund, RecordInflight, chainVars, watchVars, histVars
  <2> QED BY <1>1, <2>1, QuietKeeps
<1>6. ASSUME NEW w \in Workers, Send(w) PROVE HubInv'
  <2>1. /\ chain' = Append(chain, [from |-> worker[w].from, to |-> worker[w].to, amt |-> worker[w].amt])
        /\ UNCHANGED <<saved, phase, cursor, todo, polling, upto, start, credits>>
    BY <1>6 DEF Send, Pay, watchVars, histVars
  <2> QED BY <1>1, <2>1, PaymentKeeps
<1>7. ASSUME NEW v \in Venues, NEW amt \in Amounts, Deposit(v, amt) PROVE HubInv'
  <2>1. /\ chain' = Append(chain, [from |-> Outside, to |-> v, amt |-> amt])
        /\ UNCHANGED <<saved, phase, cursor, todo, polling, upto, start, credits>>
    BY <1>7 DEF Deposit, Pay, watchVars, histVars
  <2> QED BY <1>1, <2>1, PaymentKeeps
<1>8. ASSUME BeginPoll \/ (\E v \in Venues : ReceiveFails(v)) PROVE HubInv'
  <2>1. /\ phase = "watch"
        /\ UNCHANGED <<chain, saved, phase, cursor, polling, upto, start, credits>>
    BY <1>8 DEF BeginPoll, ReceiveFails, chainVars, histVars
  <2> QED BY <1>1, <2>1, QuietKeeps
<1>9. CASE CreditNext BY <1>1, <1>9, CreditKeeps
<1>10. CASE (\E v \in Venues : Receive(v)) \/ VenueDone \/ EndPoll BY <1>1, <1>10, PollKeeps
<1>11. CASE UNCHANGED vars
  <2>1. UNCHANGED <<chain, saved, phase, cursor, todo, polling, upto, start, credits>>
    BY <1>11 DEF vars, chainVars, watchVars, histVars
  <2> QED BY <1>1, <2>1, QuietKeeps
<1> QED BY <1>2, <1>3, <1>4, <1>5, <1>6, <1>7, <1>8, <1>9, <1>10, <1>11 DEF Next

(* HubInv holds in every state of the program.                               *)
LEMMA HubInductive == Spec => []HubInv
<1>1. Init => HubInv
  <2> SUFFICES ASSUME Init PROVE HubInv OBVIOUS
  <2>1. TypeOK BY HubTypesInit
  <2>2. Positioned BY <2>1, HubAssumption DEF Init, TypeOK, Positioned, NoCursor
  <2>3. Starting BY DEF Init, Starting
  <2>4. CreditedIsBehind /\ CreditedOnce /\ SavedNotAhead
    BY DEF Init, CreditedIsBehind, CreditedOnce, SavedNotAhead
  <2>5. NoneSkipped BY DEF Init, NoneSkipped
  <2> QED BY <2>1, <2>2, <2>3, <2>4, <2>5 DEF HubInv
<1>2. HubInv /\ [Next]_vars => HubInv' BY HubStep
<1> QED BY <1>1, <1>2, PTL DEF Spec

(* CreditedOnce: poll (hub.go) never credits a payment to a ledger twice,    *)
(* however the pages overlap with new payments, withdrawals and crashes.     *)
THEOREM HubCreditsOnce == Spec => []CreditedOnce
<1>1. HubInv => CreditedOnce BY DEF HubInv
<1> QED BY <1>1, HubInductive, PTL

(* NoneSkipped: poll's cursor never passes a deposit it did not credit.      *)
THEOREM HubSkipsNone == Spec => []NoneSkipped
<1>1. HubInv => NoneSkipped BY DEF HubInv
<1> QED BY <1>1, HubInductive, PTL

(* SavedNotAhead: saveCursors never stores a cursor beyond what was          *)
(* credited, so a crash at any point loses no deposit to the next process.   *)
THEOREM HubSavesBehind == Spec => []SavedNotAhead
<1>1. HubInv => SavedNotAhead BY DEF HubInv
<1> QED BY <1>1, HubInductive, PTL

-----------------------------------------------------------------------------
(* Value.  A process starts with the configured ledgers and no withdrawals,  *)
(* on a chain that may be as long as it likes.                               *)
ValueInv ==
    /\ HubInv
    /\ born =< Len(chain)
    /\ phase = "down" => /\ ledger = [v \in Venues |-> Funding]
                         /\ worker = [w \in Workers |-> Idle]
    /\ ValueConserved

Amounted ==
    /\ IsFiniteSet(Positions)
    /\ ledger \in [Venues -> Nat] /\ Carried \in [Workers -> Nat]
    /\ PaidOut \in [Positions -> Nat] /\ CameIn \in [Positions -> Nat]
    /\ \A p \in 1..Len(chain) : p \in Positions /\ chain[p].amt \in Nat

(* What is added up are amounts. *)
LEMMA HubAmounts == HubInv /\ phase # "down" => Amounted
<1> SUFFICES ASSUME HubInv, phase # "down" PROVE Amounted
  OBVIOUS
<1> USE HubAssumption
<1>0. TypeOK
  BY DEF HubInv
<1>1. IsFiniteSet(Positions)
  BY FS_Interval DEF Positions
<1>2. \A p \in 1..Len(chain) : p \in Positions /\ chain[p] \in Payment
  BY <1>0 DEF TypeOK, Positions
<1>3. \A p \in 1..Len(chain) : chain[p].amt \in Nat
  BY <1>2 DEF Payment
<1>4. ASSUME NEW w \in Workers PROVE Carried[w] \in Nat
  <2>1. CASE worker[w].at \in {"send", "refund"}
    <3>1. worker[w] \in InWithdraw
      BY <1>0, <2>1, WorkerBusy
    <3> QED
      BY <2>1, <3>1 DEF Carried, InWithdraw
  <2>2. CASE worker[w].at \notin {"send", "refund"}
    BY <2>2 DEF Carried
  <2> QED
    BY <2>1, <2>2
<1>5. ASSUME NEW p \in Positions PROVE PaidOut[p] \in Nat /\ CameIn[p] \in Nat
  <2>1. p \in Made => p \in 1..Len(chain)
    BY <1>0 DEF Made, TypeOK
  <2>2. credits[p] > 0 => p \in 1..Len(chain)
    BY <1>0 DEF HubInv, CreditedIsBehind, Positions, TypeOK
  <2> QED
    BY <1>3, <2>1, <2>2 DEF PaidOut, CameIn
<1> QED
  BY <1>0, <1>1, <1>2, <1>3, <1>4, <1>5 DEF Amounted, TypeOK, Carried, PaidOut, CameIn

(* One amount of each sum may change; the property is kept when they         *)
(* balance.                                                                  *)
LEMMA ValueBalances ==
    ASSUME HubInv, HubInv', phase # "down", phase' # "down", ValueConserved,
           NEW v \in Venues, NEW p \in Positions, NEW c \in Nat, NEW d \in Nat,
           \A u \in Venues \ {v} : ledger'[u] = ledger[u],
           SumOf(Carried') + c = SumOf(Carried) + d,
           \A q \in Positions \ {p} : PaidOut'[q] = PaidOut[q] /\ CameIn'[q] = CameIn[q],
           ledger'[v] + d + PaidOut'[p] + CameIn[p] = ledger[v] + c + PaidOut[p] + CameIn'[p]
    PROVE  ValueConserved'
<1> USE HubAssumption
<1>1. Amounted
  BY HubAmounts
<1>2. (HubInv /\ phase # "down" => Amounted)'
  BY HubAmounts, PTL
<1>3. Amounted'
  BY <1>2
<1>4. /\ SumOf(ledger) \in Nat /\ SumOf(ledger') \in Nat
      /\ SumOf(ledger') + ledger[v] = SumOf(ledger) + ledger'[v]
      /\ ledger[v] \in Nat /\ ledger'[v] \in Nat
  <2>1. ledger \in [Venues -> Nat] /\ ledger' \in [Venues -> Nat] /\ IsFiniteSet(Venues)
    BY <1>1, <1>3 DEF Amounted
  <2>2. \A x \in Venues \ {v} : ledger'[x] = ledger[x]
    OBVIOUS
  <2>3. /\ SumOf(ledger) \in Nat /\ SumOf(ledger') \in Nat
        /\ SumOf(ledger') + ledger[v] = SumOf(ledger) + ledger'[v]
    BY <2>1, <2>2, SumChanges
  <2> QED
    BY <2>1, <2>3
<1>5. SumOf(Carried) \in Nat /\ SumOf(Carried') \in Nat
  BY <1>1, <1>3, UnitsFinite, HubAssumption DEF Amounted
<1>6. /\ SumOf(PaidOut) \in Nat /\ SumOf(PaidOut') \in Nat
      /\ SumOf(PaidOut') + PaidOut[p] = SumOf(PaidOut) + PaidOut'[p]
      /\ PaidOut[p] \in Nat /\ PaidOut'[p] \in Nat
  <2>1. PaidOut \in [Positions -> Nat] /\ PaidOut' \in [Positions -> Nat] /\ IsFiniteSet(Positions)
    BY <1>1, <1>3 DEF Amounted
  <2>2. \A x \in Positions \ {p} : PaidOut'[x] = PaidOut[x]
    OBVIOUS
  <2>3. /\ SumOf(PaidOut) \in Nat /\ SumOf(PaidOut') \in Nat
        /\ SumOf(PaidOut') + PaidOut[p] = SumOf(PaidOut) + PaidOut'[p]
    BY <2>1, <2>2, SumChanges
  <2> QED
    BY <2>1, <2>3
<1>7. /\ SumOf(CameIn) \in Nat /\ SumOf(CameIn') \in Nat
      /\ SumOf(CameIn') + CameIn[p] = SumOf(CameIn) + CameIn'[p]
      /\ CameIn[p] \in Nat /\ CameIn'[p] \in Nat
  <2>1. CameIn \in [Positions -> Nat] /\ CameIn' \in [Positions -> Nat] /\ IsFiniteSet(Positions)
    BY <1>1, <1>3 DEF Amounted
  <2>2. \A x \in Positions \ {p} : CameIn'[x] = CameIn[x]
    OBVIOUS
  <2>3. /\ SumOf(CameIn) \in Nat /\ SumOf(CameIn') \in Nat
        /\ SumOf(CameIn') + CameIn[p] = SumOf(CameIn) + CameIn'[p]
    BY <2>1, <2>2, SumChanges
  <2> QED
    BY <2>1, <2>3
<1>8. SumOf(ledger) + SumOf(Carried) + SumOf(PaidOut) = Cardinality(Venues) * Funding + SumOf(CameIn)
  BY DEF ValueConserved
<1>9. Cardinality(Venues) * Funding \in Nat
  BY FS_CardinalityType
<1> DEFINE total == Cardinality(Venues) * Funding
           L == SumOf(ledger)   LL == SumOf(ledger')
           C == SumOf(Carried)  CC == SumOf(Carried')
           P == SumOf(PaidOut)  PP == SumOf(PaidOut')
           I == SumOf(CameIn)   II == SumOf(CameIn')
<1>10. LL + CC + PP = total + II
  <2> HIDE DEF total, L, LL, C, CC, P, PP, I, II
  <2>1. /\ L \in Nat /\ LL \in Nat /\ C \in Nat /\ CC \in Nat /\ P \in Nat /\ PP \in Nat
        /\ I \in Nat /\ II \in Nat /\ total \in Nat
        /\ LL + ledger[v] = L + ledger'[v] /\ CC + c = C + d
        /\ PP + PaidOut[p] = P + PaidOut'[p] /\ II + CameIn[p] = I + CameIn'[p]
        /\ L + C + P = total + I
    BY <1>4, <1>5, <1>6, <1>7, <1>8, <1>9 DEF total, L, LL, C, CC, P, PP, I, II
  <2> QED
    BY <1>4, <1>5, <1>6, <1>7, <2>1
<1> QED
  BY <1>10 DEF ValueConserved

(* Nothing that is added up changes. *)
LEMMA ValueStill ==
    ASSUME HubInv, phase' # "down" => phase # "down", ValueConserved,
           ledger' = ledger, Carried' = Carried, PaidOut' = PaidOut, CameIn' = CameIn
    PROVE  ValueConserved'
BY DEF ValueConserved

(* A step of one withdrawal changes what is carried by what it carries.      *)
LEMMA CarriedChanges ==
    ASSUME Amounted, Amounted', NEW w \in Workers, \A u \in Workers \ {w} : Carried'[u] = Carried[u]
    PROVE  /\ Carried[w] \in Nat /\ Carried'[w] \in Nat
           /\ SumOf(Carried') + Carried[w] = SumOf(Carried) + Carried'[w]
<1>1. Carried \in [Workers -> Nat] /\ Carried' \in [Workers -> Nat] /\ IsFiniteSet(Workers)
  BY HubAssumption DEF Amounted
<1>2. SumOf(Carried') + Carried[w] = SumOf(Carried) + Carried'[w]
  BY <1>1, SumChanges
<1> QED
  BY <1>1, <1>2

(* With a chain that does not answer with an error for a payment it made, a  *)
(* step of a withdrawal moves what it takes.                                 *)
LEMMA WithdrawalBalances ==
    ASSUME ValueInv, HubInv', ~LostReply, NEW w \in Workers, phase # "down",
           \/ \E v \in Venues, dest \in Addresses, amt \in Amounts : Withdraw(w, v, dest, amt)
           \/ Send(w) \/ SendFails(w) \/ Refund(w) \/ RecordInflight(w)
    PROVE  phase' = phase /\ born =< Len(chain') /\ ValueConserved'
<1>0. TypeOK /\ TypeOK' /\ ValueConserved /\ Amounted
  BY HubAmounts DEF ValueInv, HubInv
<1>1. phase' = phase /\ born' = born
  BY DEF Withdraw, Send, SendFails, Refund, RecordInflight, histVars
<1>2. (HubInv /\ phase # "down" => Amounted)'
  BY HubAmounts, PTL
<1>3. /\ worker' = [worker EXCEPT ![w] = worker'[w]] /\ worker'[w] \in InWithdraw \cup {Idle}
      /\ worker[w] \in InWithdraw \cup {Idle}
  BY <1>0 DEF TypeOK, Withdraw, Send, SendFails, Refund, RecordInflight
<1>4. \A u \in Workers \ {w} : Carried'[u] = Carried[u]
  BY <1>0, <1>3 DEF Carried, TypeOK
<1>5. /\ Carried[w] \in Nat /\ Carried'[w] \in Nat
      /\ SumOf(Carried') + Carried[w] = SumOf(Carried) + Carried'[w]
  BY <1>0, <1>1, <1>2, <1>4, CarriedChanges
<1>6. CASE UNCHANGED <<chain, credits>>
  <2>1. PaidOut' = PaidOut /\ CameIn' = CameIn /\ born =< Len(chain')
    BY <1>1, <1>6 DEF PaidOut, CameIn, Made, ValueInv
  <2>2. 1 \in Positions
    BY HubAssumption DEF Positions
  <2>3. ASSUME NEW v \in Venues, NEW dest \in Addresses, NEW amt \in Amounts, Withdraw(w, v, dest, amt)
        PROVE  ValueConserved'
    <3>1. /\ \A u \in Venues \ {v} : ledger'[u] = ledger[u]
          /\ ledger'[v] = ledger[v] - Quantized(amt)
          /\ Carried[w] = 0 /\ Carried'[w] = Quantized(amt)
      BY <1>0, <2>3 DEF Withdraw, TypeOK, Carried, Idle
    <3>2. Quantized(amt) \in Int /\ ledger[v] \in Nat
      BY <1>0, QuantizedInt DEF TypeOK
    <3>3. ledger'[v] + Carried'[w] = ledger[v] + Carried[w]
      BY <3>1, <3>2
    <3>5. ledger'[v] + Carried'[w] + PaidOut'[1] + CameIn[1] = ledger[v] + Carried[w] + PaidOut[1] + CameIn'[1]
      BY <1>0, <2>1, <2>2, <3>3 DEF Amounted
    <3> QED
      BY <1>0, <1>1, <1>5, <2>1, <2>2, <3>1, <3>5, ValueBalances DEF ValueInv
  <2>4. CASE Refund(w)
    <3>1. PICK v \in Venues : v = worker[w].from
      BY <1>0, <2>4, WorkerBusy DEF Refund, InWithdraw
    <3>2. worker[w].amt \in Nat /\ ledger[v] \in Nat
      BY <1>0, <2>4, WorkerBusy DEF Refund, InWithdraw, TypeOK
    <3>3. /\ \A u \in Venues \ {v} : ledger'[u] = ledger[u]
          /\ ledger'[v] = ledger[v] + worker[w].amt
          /\ Carried[w] = worker[w].amt /\ Carried'[w] = 0
      BY <1>0, <2>4, <3>1 DEF Refund, TypeOK, Carried, Idle
    <3>4. ledger'[v] + Carried'[w] = ledger[v] + Carried[w]
      BY <3>2, <3>3
    <3>5. ledger'[v] + Carried'[w] + PaidOut'[1] + CameIn[1] = ledger[v] + Carried[w] + PaidOut[1] + CameIn'[1]
      BY <1>0, <2>1, <2>2, <3>4 DEF Amounted
    <3> QED
      BY <1>0, <1>1, <1>5, <2>1, <2>2, <3>3, <3>5, ValueBalances DEF ValueInv
  <2>5. CASE SendFails(w) \/ RecordInflight(w)
    <3>1. ledger' = ledger
      BY <2>5 DEF SendFails, RecordInflight
    <3>2. Carried'[w] = Carried[w]
      <4>1. CASE SendFails(w)
        <5>1. worker'[w].at = "refund" /\ worker'[w].amt = worker[w].amt
          BY <1>0, <4>1, WorkerBusy DEF SendFails, TypeOK, InWithdraw
        <5> QED
          BY <4>1, <5>1 DEF SendFails, Carried
      <4>2. CASE RecordInflight(w)
        <5>1. worker'[w] = Idle
          BY <1>0, <4>2 DEF RecordInflight, TypeOK
        <5> QED
          BY <4>2, <5>1 DEF RecordInflight, Carried, Idle
      <4> QED
        BY <2>5, <4>1, <4>2
    <3>3. Carried' = Carried
      BY <1>4, <3>2 DEF Carried
    <3> QED
      BY <1>0, <1>1, <2>1, <3>1, <3>3, ValueStill DEF ValueInv
  <2>6. CASE Send(w)
    BY <1>0, <1>6, <2>6 DEF Send, Pay, TypeOK
  <2> QED
    BY <1>1, <2>1, <2>3, <2>4, <2>5, <2>6
<1>7. CASE Send(w)
  <2> DEFINE p == Len(chain) + 1
  <2>1. /\ Len(chain) \in Nat /\ Len(chain') = p /\ p \in Positions /\ born =< Len(chain)
        /\ chain'[p] = [from |-> worker[w].from, to |-> worker[w].to, amt |-> worker[w].amt]
        /\ \A q \in 1..Len(chain) : chain'[q] = chain[q]
        /\ ledger' = ledger /\ credits' = credits
    <3>1. chain' = Append(chain, [from |-> worker[w].from, to |-> worker[w].to, amt |-> worker[w].amt])
          /\ ledger' = ledger /\ credits' = credits /\ Len(chain) < MaxPayments
      BY <1>7 DEF Send, Pay, histVars
    <3>2. chain \in Seq(Payment) /\ Len(chain) \in Nat /\ MaxPayments \in Nat
      BY <1>0, HubAssumption DEF TypeOK
    <3>3. p \in Positions
      BY <3>1, <3>2 DEF Positions
    <3>4. /\ Len(chain') = p
          /\ chain'[p] = [from |-> worker[w].from, to |-> worker[w].to, amt |-> worker[w].amt]
          /\ \A q \in 1..Len(chain) : chain'[q] = chain[q]
      BY <3>1, <3>2
    <3> QED
      BY <3>1, <3>2, <3>3, <3>4 DEF ValueInv
  <2>2. /\ worker[w].at = "send" /\ worker'[w].at = "record" /\ worker[w] \in InWithdraw
    BY <1>0, <1>7, WorkerBusy DEF Send, TypeOK, InWithdraw
  <2>3. Carried[w] = worker[w].amt /\ Carried'[w] = 0 /\ worker[w].amt \in Nat /\ worker[w].from \in Venues
    BY <2>2 DEF Carried, InWithdraw
  <2>4. credits[p] = 0 /\ born \in Nat
    <3>1. credits[p] \in Nat /\ born \in Nat
      BY <1>0, <2>1 DEF TypeOK
    <3>2. credits[p] > 0 => p =< Len(chain)
      BY <2>1 DEF ValueInv, HubInv, CreditedIsBehind
    <3> QED
      BY <2>1, <3>1, <3>2
  <2>5. \A q \in Positions \ {p} : q \in Made' <=> q \in Made
    BY <1>1, <2>1, <2>4 DEF Made, Positions
  <2>6. p \in Made' /\ p \notin Made
    BY <1>1, <2>1, <2>3, <2>4 DEF Made
  <2>7. \A q \in Positions \ {p} : PaidOut'[q] = PaidOut[q] /\ CameIn'[q] = CameIn[q]
    <3> SUFFICES ASSUME NEW q \in Positions \ {p} PROVE PaidOut'[q] = PaidOut[q] /\ CameIn'[q] = CameIn[q]
      OBVIOUS
    <3>1. q \in Made => q \in 1..Len(chain)
      BY <2>4 DEF Made
    <3>2. credits[q] > 0 => q \in 1..Len(chain)
      BY DEF ValueInv, HubInv, CreditedIsBehind, Positions
    <3> QED
      BY <2>1, <2>5, <3>1, <3>2 DEF PaidOut, CameIn
  <2>8. PaidOut[p] = 0 /\ PaidOut'[p] = worker[w].amt /\ CameIn[p] = 0 /\ CameIn'[p] = 0
    BY <2>1, <2>4, <2>6 DEF PaidOut, CameIn
  <2>9. PICK v \in Venues : v = worker[w].from
    BY <2>3
  <2>10. ledger'[v] + Carried'[w] + PaidOut'[p] + CameIn[p] = ledger[v] + Carried[w] + PaidOut[p] + CameIn'[p]
    BY <1>0, <2>1, <2>3, <2>8 DEF TypeOK
  <2>11. ValueConserved'
    BY <1>0, <1>1, <1>5, <2>1, <2>7, <2>10, ValueBalances DEF ValueInv
  <2> QED
    BY <1>1, <2>1, <2>4, <2>11
<1> QED
  BY <1>6, <1>7 DEF Withdraw, Send, SendFails, Refund, RecordInflight, chainVars, histVars

(* A payment from outside belongs to nobody until it is credited.            *)
LEMMA DepositBalances ==
    ASSUME ValueInv, HubInv', NEW v \in Venues, NEW amt \in Amounts, Deposit(v, amt)
    PROVE  phase' = phase /\ born =< Len(chain') /\ ValueConserved'
<1> DEFINE p == Len(chain) + 1
           e == [from |-> Outside, to |-> v, amt |-> amt]
<1>0. TypeOK /\ TypeOK'
  BY DEF ValueInv, HubInv
<1>1. /\ chain' = Append(chain, e) /\ phase' = phase /\ born' = born /\ credits' = credits
      /\ ledger' = ledger /\ worker' = worker
  BY DEF Deposit, Pay, histVars
<1>2. chain \in Seq(Payment) /\ Len(chain) \in Nat /\ born \in Nat /\ born =< Len(chain)
  BY <1>0 DEF TypeOK, ValueInv
<1>3. /\ Len(chain') = p /\ chain'[p] = e /\ \A q \in 1..Len(chain) : chain'[q] = chain[q]
  BY <1>1, <1>2
<1>4. Made' = Made
  <2>1. p \notin Made'
    BY <1>3, HubAssumption DEF Made
  <2>2. \A q : q \in (born' + 1)..Len(chain') <=> q \in (born + 1)..Len(chain) \/ q = p
    BY <1>1, <1>2, <1>3
  <2>3. \A q \in (born + 1)..Len(chain) : q \in 1..Len(chain)
    BY <1>2
  <2>4. p \notin Made
    BY <1>2 DEF Made
  <2> QED
    BY <1>3, <2>1, <2>2, <2>3, <2>4 DEF Made
<1>5. ASSUME phase # "down" PROVE PaidOut' = PaidOut /\ CameIn' = CameIn
  <2>1. \A q \in Made : q \in 1..Len(chain)
    BY <1>2 DEF Made
  <2>2. \A q \in Positions : credits[q] > 0 => q \in 1..Len(chain)
    BY <1>5 DEF ValueInv, HubInv, CreditedIsBehind, Positions
  <2> QED
    BY <1>1, <1>3, <1>4, <2>1, <2>2 DEF PaidOut, CameIn
<1>6. ValueConserved'
  <2>1. CASE phase = "down"
    BY <1>1, <2>1 DEF ValueConserved
  <2>2. CASE phase # "down"
    <3>1. Carried' = Carried
      BY <1>1 DEF Carried
    <3> QED
      BY <1>1, <1>5, <2>2, <3>1, ValueStill DEF ValueInv
  <2> QED
    BY <2>1, <2>2
<1> QED
  BY <1>1, <1>2, <1>3, <1>6

(* What a ledger is credited with was on the chain and had not been.         *)
LEMMA CreditBalances ==
    ASSUME ValueInv, HubInv', CreditNext
    PROVE  phase' = phase /\ born =< Len(chain') /\ ValueConserved'
<1>0. TypeOK /\ TypeOK' /\ phase = "watch" /\ Amounted
  BY HubAmounts DEF ValueInv, HubInv, CreditNext
<1>1. /\ phase' = phase /\ chain' = chain /\ born' = born /\ worker' = worker
  BY DEF CreditNext, chainVars
<1>2. PICK p \in Incoming(polling, cursor[polling], upto) :
           /\ ledger' = [ledger EXCEPT ![polling] = @ + chain[p].amt]
           /\ credits' = [credits EXCEPT ![p] = @ + 1]
  BY DEF CreditNext
<1>3. polling \in Venues /\ cursor[polling] \in Nat /\ upto \in Nat /\ Len(chain) \in Nat
  BY <1>0 DEF TypeOK, CreditNext
<1>4. p \in 1..Len(chain) /\ p \in Positions /\ p > cursor[polling] /\ chain[p].to = polling
  <2>1. p \in (cursor[polling] + 1)..upto /\ p \in DOMAIN chain /\ chain[p].to = polling
    BY <1>2 DEF Incoming
  <2>2. DOMAIN chain = 1..Len(chain)
    BY <1>0 DEF TypeOK
  <2> QED
    BY <1>0, <1>3, <2>1, <2>2 DEF Amounted
<1>5. credits[p] = 0
  <2>1. credits[p] \in Nat
    BY <1>0, <1>4 DEF TypeOK
  <2>2. credits[p] > 0 => p =< cursor[polling]
    BY <1>0, <1>4 DEF ValueInv, HubInv, CreditedIsBehind
  <2> QED
    BY <1>3, <1>4, <2>1, <2>2
<1>6. /\ credits'[p] = 1 /\ \A q \in Positions \ {p} : credits'[q] = credits[q]
      /\ ledger'[polling] = ledger[polling] + chain[p].amt
      /\ \A u \in Venues \ {polling} : ledger'[u] = ledger[u]
      /\ ledger[polling] \in Nat /\ chain[p].amt \in Nat
  BY <1>0, <1>2, <1>3, <1>4, <1>5 DEF TypeOK, Amounted
<1>7. Made' = Made
  BY <1>1 DEF Made
<1>8. \A q \in Positions \ {p} : PaidOut'[q] = PaidOut[q] /\ CameIn'[q] = CameIn[q]
  BY <1>1, <1>6, <1>7 DEF PaidOut, CameIn
<1>9. ledger'[polling] + PaidOut'[p] + CameIn[p] = ledger[polling] + PaidOut[p] + CameIn'[p]
  <2>1. CASE p \in Made
    <3>1. PaidOut'[p] = 0 /\ CameIn[p] = 0 /\ PaidOut[p] = chain[p].amt /\ CameIn'[p] = 0
      BY <1>1, <1>4, <1>5, <1>6, <1>7, <2>1 DEF PaidOut, CameIn
    <3> QED
      BY <1>6, <3>1
  <2>2. CASE p \notin Made
    <3>1. PaidOut'[p] = 0 /\ CameIn[p] = 0 /\ PaidOut[p] = 0 /\ CameIn'[p] = chain[p].amt
      BY <1>1, <1>4, <1>5, <1>6, <1>7, <2>2 DEF PaidOut, CameIn
    <3> QED
      BY <1>6, <3>1
  <2> QED
    BY <2>1, <2>2
<1>10. Carried' = Carried
  BY <1>1 DEF Carried
<1>11. ValueConserved'
  <2>1. ledger'[polling] + 0 + PaidOut'[p] + CameIn[p] = ledger[polling] + 0 + PaidOut[p] + CameIn'[p]
    BY <1>6, <1>9
  <2>2. SumOf(Carried') + 0 = SumOf(Carried) + 0
    BY <1>10
  <2> QED
    BY <1>0, <1>1, <1>3, <1>4, <1>6, <1>8, <2>1, <2>2, ValueBalances DEF ValueInv
<1> QED
  BY <1>1, <1>11 DEF ValueInv

(* A crash ends what a process accounts for; the next one starts with what   *)
(* it was configured with, whatever the chain holds.                         *)
LEMMA RestartBalances ==
    ASSUME ValueInv, HubInv', Crash \/ Boot PROVE ValueInv'
<1> USE HubAssumption
<1>1. CASE Crash
  <2>1. /\ ledger' = [v \in Venues |-> Funding] /\ worker' = [w \in Workers |-> Idle]
        /\ chain' = chain /\ born' = 0 /\ phase' = "down"
    BY <1>1 DEF Crash
  <2>2. born' =< Len(chain')
    BY <2>1 DEF ValueInv, HubInv, TypeOK
  <2> QED
    BY <2>1, <2>2 DEF ValueInv, ValueConserved
<1>2. CASE Boot
  <2>1. /\ ledger' = [v \in Venues |-> Funding] /\ worker' = [w \in Workers |-> Idle]
        /\ chain' = chain /\ born' = Len(chain) /\ phase' = "init"
        /\ credits' = [p \in Positions |-> 0]
    BY <1>2 DEF Boot, chainVars, ValueInv
  <2>2. Len(chain) \in Nat
    BY DEF ValueInv, HubInv, TypeOK
  <2>3. Made' = {}
    BY <2>1, <2>2 DEF Made
  <2>4. /\ Carried' = [w \in Workers |-> 0]
        /\ PaidOut' = [p \in Positions |-> 0] /\ CameIn' = [p \in Positions |-> 0]
    BY <2>1, <2>3 DEF Carried, PaidOut, CameIn, Idle
  <2>5. IsFiniteSet(Positions)
    BY FS_Interval DEF Positions
  <2>6. SumOf(Carried') = 0 /\ SumOf(PaidOut') = 0 /\ SumOf(CameIn') = 0
    BY <2>4, <2>5, SumZero
  <2>7. SumOf(ledger') = Cardinality(Venues) * Funding /\ Cardinality(Venues) * Funding \in Nat
    <3>1. IsFiniteSet(Venues) /\ Funding \in Nat
      OBVIOUS
    <3>2. SumOf([v \in Venues |-> Funding]) = Cardinality(Venues) * Funding
      BY <3>1, SumConstant
    <3>3. Cardinality(Venues) \in Nat
      BY <3>1, FS_CardinalityType
    <3> QED
      BY <2>1, <3>1, <3>2, <3>3
  <2>8. ValueConserved'
    BY <2>6, <2>7 DEF ValueConserved
  <2> QED
    BY <2>1, <2>2, <2>8 DEF ValueInv
<1> QED
  BY <1>1, <1>2

(* A step of the program keeps the balance of every sum.                     *)
LEMMA ValueStep == ASSUME ~LostReply PROVE ValueInv /\ [Next]_vars => ValueInv'
<1> SUFFICES ASSUME ValueInv, [Next]_vars PROVE ValueInv'
  OBVIOUS
<1>1. HubInv'
  BY HubStep DEF ValueInv
<1>2. CASE Boot \/ Crash
  BY <1>1, <1>2, RestartBalances
<1>3. ASSUME NEW w \in Workers,
             \/ \E v \in Venues, dest \in Addresses, amt \in Amounts : Withdraw(w, v, dest, amt)
             \/ Send(w) \/ SendFails(w) \/ Refund(w) \/ RecordInflight(w)
      PROVE  ValueInv'
  <2>1. phase # "down"
    BY <1>3 DEF Withdraw, Send, SendFails, Refund, RecordInflight
  <2>2. born' = born
    BY <1>3 DEF Withdraw, Send, SendFails, Refund, RecordInflight, histVars
  <2> QED
    BY <1>1, <1>3, <2>1, <2>2, WithdrawalBalances DEF ValueInv
<1>4. ASSUME NEW v \in Venues, NEW amt \in Amounts, Deposit(v, amt) PROVE ValueInv'
  BY <1>1, <1>4, DepositBalances DEF ValueInv, Deposit, histVars
<1>5. CASE CreditNext
  BY <1>1, <1>5, CreditBalances DEF ValueInv, CreditNext
<1>6. CASE \/ \E v \in Venues : InitCursor(v) \/ Receive(v) \/ ReceiveFails(v)
           \/ StartWatch \/ BeginPoll \/ VenueDone \/ EndPoll \/ UNCHANGED vars
  <2>1. /\ UNCHANGED <<chain, ledger, worker, born, credits>>
        /\ phase' = "down" => phase = "down" /\ UNCHANGED <<phase, ledger, worker>>
        /\ phase' # "down" => phase # "down"
    BY <1>6 DEF InitCursor, Receive, ReceiveFails, StartWatch, BeginPoll, VenueDone, EndPoll,
                vars, chainVars, watchVars, histVars
  <2>2. Carried' = Carried /\ PaidOut' = PaidOut /\ CameIn' = CameIn
    BY <2>1 DEF Carried, PaidOut, CameIn, Made
  <2>3. ValueConserved'
    BY <2>1, <2>2, ValueStill DEF ValueInv
  <2> QED
    BY <1>1, <2>1, <2>3 DEF ValueInv
<1> QED
  BY <1>2, <1>3, <1>4, <1>5, <1>6 DEF Next

(* ValueConserved: a process of hub.go neither makes nor loses value, however *)
(* its withdrawals, its polls and the deposits interleave, and whatever an    *)
(* earlier process left on the chain, as long as the chain never answers     *)
(* with an error for a payment it did make (what it does then, the run       *)
(* HubRefund shows).                                                         *)
THEOREM HubConserves == ASSUME ~LostReply PROVE Spec => []ValueConserved
<1>1. Init /\ HubInv => ValueInv
  <2> SUFFICES ASSUME Init, HubInv PROVE ValueInv
    OBVIOUS
  <2>1. born =< Len(chain)
    BY DEF Init, HubInv, TypeOK
  <2> QED
    BY <2>1 DEF Init, ValueInv, ValueConserved
<1>2. ValueInv => ValueConserved
  BY DEF ValueInv
<1> QED
  BY <1>1, <1>2, ValueStep, HubInductive, PTL DEF Spec
====
