------------------------------ MODULE FixProofs -------------------------------
(* The FIX edge, for every set of clients and sessions, sizes and capacities.  *)
(* Sessions (FixSession.tla) keep their numbers, whatever way the hooks report:*)
(* Send stamps and queues under the session's mutex, and the reader alone      *)
(* moves the expected number.  Orders and quotes (FixOrders.tla): what is told *)
(* of an order follows the book though fills, cancels and replacements race.   *)
EXTENDS FixSession, FixOrders, SequenceTheorems, FiniteSetTheorems, TLAPS

\* A step of a handler that has not been begun, and one inside Send.
Task == [do : {"send"}, to : Sessions] \cup [do : {"lock", "unlock", "end"}]
Stamped == [do : {"queue"}, to : Sessions, seq : Nat]

SessionTypes ==
    /\ inSeq \in [Sessions -> Nat] /\ handled \in [Sessions -> Nat]
    /\ outSeq \in [Sessions -> Nat] /\ written \in [Sessions -> Nat]
    /\ out \in [Sessions -> Seq(Nat)]
    /\ sender \in [Sessions -> Goroutines \cup {Nobody}]
    /\ closed \in [Sessions -> BOOLEAN]
    /\ todo \in [Goroutines -> Seq(Task \cup Stamped)]

\* Only the step a handler is at can be inside Send.
OneInHand == \A g \in Goroutines : \A i \in 2..Len(todo[g]) : todo[g][i] \in Task

\* Whoever is inside Send to a session holds its mutex, and nobody else does.
Sending(g, s) == todo[g] # <<>> /\ todo[g][1].do = "queue" /\ todo[g][1].to = s
MutexHeld == \A g \in Goroutines, s \in Sessions : Sending(g, s) <=> sender[s] = g

\* The numbers of one session.  What is in hand comes next after the queue.
Queued(s) == \A i \in 1..Len(out[s]) : out[s][i] = written[s] + i
NextNumber(s) ==
    IF sender[s] = Nobody THEN outSeq[s] = written[s] + Len(out[s]) + 1
    ELSE /\ outSeq[s] = written[s] + Len(out[s]) + 2
         /\ todo[sender[s]][1].seq = written[s] + Len(out[s]) + 1
Outbound(s) == closed[s] \/ (Queued(s) /\ NextNumber(s))
Inbound(s) == IF inSeq[s] = 0 THEN handled[s] = 0 ELSE handled[s] < inSeq[s]

NumbersInv ==
    /\ SessionTypes /\ OneInHand /\ MutexHeld
    /\ \A s \in Sessions : Outbound(s) /\ Inbound(s)

-----------------------------------------------------------------------------
(* What the handlers are made of. *)

(* A sequence is one over any set that holds its elements. *)
LEMMA InSeqOf ==
    ASSUME NEW S, NEW T, NEW q \in Seq(S), \A i \in 1..Len(q) : q[i] \in T
    PROVE  q \in Seq(T)
<1>1. Len(q) \in Nat /\ q = [i \in 1..Len(q) |-> q[i]]
  OBVIOUS
<1>2. [i \in 1..Len(q) |-> q[i]] \in [1..Len(q) -> T]
  OBVIOUS
<1> QED
  BY <1>1, <1>2

(* Reports go to sessions. *)
LEMMA ReportsAreTasks == ASSUME NEW r \in Reports PROVE r \in Seq(Task)
<1>1. PICK t \in Targets : r = [i \in DOMAIN t |-> Tell(t[i])]
  BY DEF Reports
<1>2. t \in Seq(Sessions)
  BY SessionAssumption DEF SessionAssumption
<1>3. \A i \in 1..Len(t) : Tell(t[i]) \in Task
  BY <1>2 DEF Tell, Task
<1> QED
  BY <1>1, <1>2, <1>3

(* So does what happens under the instrument's lock. *)
LEMMA UnderLockTasks == ASSUME NEW r \in Seq(Task) PROVE UnderLock(r) \in Seq(Task)
<1>1. <<LockBook>> \in Seq(Task) /\ <<FreeBook>> \in Seq(Task)
  BY DEF LockBook, FreeBook, Task
<1>2. <<LockBook>> \o r \in Seq(Task)
  BY <1>1
<1> QED
  BY <1>1, <1>2 DEF UnderLock

(* Whatever a business message makes a handler do is a sequence of tasks.    *)
LEMMA HandlersAreTasks == ASSUME NEW s \in Sessions PROVE Handlers(s) \subseteq Seq(Task)
<1>1. <<Tell(s)>> \in Seq(Task) /\ <<>> \in Seq(Task)
  BY DEF Tell, Task
<1>2. ASSUME NEW r \in Reports PROVE UnderLock(r) \in Seq(Task)
  BY ReportsAreTasks, UnderLockTasks
<1>3. UnderLock(<<>>) \in Seq(Task) /\ UnderLock(<<>>) \o <<Tell(s)>> \in Seq(Task)
  <2>1. UnderLock(<<>>) \in Seq(Task)
    BY <1>1, UnderLockTasks
  <2> QED
    BY <1>1, <2>1
<1>4. ASSUME NEW r \in Reports
      PROVE  /\ <<Tell(s)>> \o UnderLock(r) \in Seq(Task)
             /\ UnderLock(<<>>) \o <<Tell(s)>> \o UnderLock(r) \in Seq(Task)
  BY <1>1, <1>2, <1>3
<1> QED
  BY <1>1, <1>3, <1>4 DEF Handlers

-----------------------------------------------------------------------------
(* Steps outside Send.                                                       *)

\* g goes on with tasks, and is not inside Send.
GoesOn(g, steps) ==
    /\ todo' = [todo EXCEPT ![g] = steps] /\ steps \in Seq(Task)
    /\ todo[g] = <<>> \/ todo[g][1] \in Task

\* Who is inside Send, and with what, stays the same.
SendsKept ==
    /\ todo' \in [Goroutines -> Seq(Task \cup Stamped)] /\ OneInHand'
    /\ \A g \in Goroutines, s \in Sessions :
          /\ Sending(g, s)' <=> Sending(g, s)
          /\ Sending(g, s) => todo'[g] = todo[g]

(* A handler outside Send that starts or goes on disturbs nobody inside.     *)
LEMMA GoesOnKeeps ==
    ASSUME NumbersInv, NEW g \in Goroutines, NEW steps, GoesOn(g, steps)
    PROVE  SendsKept
<1>1. todo \in [Goroutines -> Seq(Task \cup Stamped)] /\ OneInHand
  BY DEF NumbersInv, SessionTypes
<1>2. steps \in Seq(Task \cup Stamped) /\ \A i \in 1..Len(steps) : steps[i] \in Task
  BY DEF GoesOn
<1>3. /\ todo' \in [Goroutines -> Seq(Task \cup Stamped)] /\ todo'[g] = steps
      /\ \A h \in Goroutines \ {g} : todo'[h] = todo[h]
  BY <1>1, <1>2 DEF GoesOn
<1>4. ASSUME NEW h \in Goroutines PROVE \A i \in 2..Len(todo'[h]) : todo'[h][i] \in Task
  <2>1. CASE h = g
    <3>1. \A i \in 2..Len(steps) : i \in 1..Len(steps)
      BY <1>2
    <3> QED
      BY <1>2, <1>3, <2>1, <3>1
  <2>2. CASE h # g
    BY <1>1, <1>3, <2>2 DEF OneInHand
  <2> QED
    BY <2>1, <2>2
<1>5. OneInHand'
  BY <1>4 DEF OneInHand
<1>6. \A k \in Task : k.do # "queue"
  BY DEF Task
<1>7. \A s \in Sessions : ~Sending(g, s) /\ ~Sending(g, s)'
  <2>1. todo'[g] # <<>> => todo'[g][1] \in Task
    BY <1>2, <1>3
  <2> QED
    BY <1>6, <2>1 DEF Sending, GoesOn
<1>8. \A h \in Goroutines \ {g}, s \in Sessions : Sending(h, s)' <=> Sending(h, s)
  BY <1>3 DEF Sending
<1> QED
  BY <1>3, <1>5, <1>7, <1>8 DEF SendsKept

\* What the reader keeps of its session: numbers in order, closed for good.
ReaderKeeps ==
    /\ inSeq' \in [Sessions -> Nat] /\ handled' \in [Sessions -> Nat]
    /\ closed' \in [Sessions -> BOOLEAN]
    /\ \A s \in Sessions : Inbound(s)' /\ (closed[s] => closed'[s])

(* A step that leaves Send, the queues and the numbers sent alone.           *)
LEMMA QuietStep ==
    ASSUME NumbersInv, SendsKept, ReaderKeeps, UNCHANGED <<outSeq, out, written, sender>>
    PROVE  NumbersInv'
<1>1. SessionTypes'
  BY DEF NumbersInv, SessionTypes, SendsKept, ReaderKeeps
<1>2. MutexHeld'
  BY DEF NumbersInv, MutexHeld, SendsKept
<1>3. ASSUME NEW s \in Sessions PROVE Outbound(s)'
  <2>1. CASE closed[s]
    BY <2>1 DEF Outbound, ReaderKeeps
  <2>2. CASE ~closed[s]
    <3>1. Queued(s) /\ NextNumber(s)
      BY <2>2 DEF NumbersInv, Outbound
    <3>2. Queued(s)'
      BY <3>1 DEF Queued
    <3>3. sender[s] # Nobody => todo'[sender[s]] = todo[sender[s]]
      <4>1. sender[s] \in Goroutines \cup {Nobody}
        BY DEF NumbersInv, SessionTypes
      <4> QED
        BY <4>1 DEF NumbersInv, MutexHeld, SendsKept
    <3>4. NextNumber(s)'
      BY <3>1, <3>3 DEF NextNumber
    <3> QED
      BY <3>2, <3>4 DEF Outbound
  <2> QED
    BY <2>1, <2>2
<1> QED
  BY <1>1, <1>2, <1>3 DEF NumbersInv, SendsKept, ReaderKeeps

(* Nobody's handler moves. *)
LEMMA StillKeeps == NumbersInv /\ UNCHANGED todo => SendsKept
BY DEF NumbersInv, SessionTypes, SendsKept, OneInHand, Sending

(* A goroutine outside Send, as its next step shows. *)
LEMMA AdvanceGoesOn ==
    ASSUME NumbersInv, NEW g \in Goroutines, NEW do, do # "queue", Next1(g, do), Advance(g)
    PROVE  GoesOn(g, Tail(todo[g]))
<1>1. todo[g] \in Seq(Task \cup Stamped) /\ todo[g] # <<>> /\ todo[g][1].do = do
  BY DEF NumbersInv, SessionTypes, Next1
<1>2. todo[g][1] \in Task \cup Stamped
  BY <1>1
<1>3. todo[g][1] \in Task
  BY <1>1, <1>2 DEF Stamped
<1>4. \A i \in 2..Len(todo[g]) : todo[g][i] \in Task
  BY DEF NumbersInv, OneInHand
<1>5. Tail(todo[g]) \in Seq(Task)
  <2>1. Tail(todo[g]) \in Seq(Task \cup Stamped) /\ Len(Tail(todo[g])) = Len(todo[g]) - 1
        /\ Len(todo[g]) \in Nat
    BY <1>1
  <2>2. \A i \in 1..Len(Tail(todo[g])) : Tail(todo[g])[i] = todo[g][i + 1]
    BY <1>1
  <2>3. \A i \in 1..Len(Tail(todo[g])) : Tail(todo[g])[i] \in Task
    BY <1>4, <2>1, <2>2
  <2> QED
    BY <2>1, <2>3, InSeqOf
<1> QED
  BY <1>3, <1>5 DEF GoesOn, Advance

(* The reader moves its own session's expected number past what it handled.  *)
LEMMA ReaderMoves ==
    ASSUME NumbersInv, NEW s \in Sessions, NEW seq \in Nat, NEW last \in Nat, last < seq,
           inSeq' = [inSeq EXCEPT ![s] = seq], handled' = [handled EXCEPT ![s] = last],
           UNCHANGED closed
    PROVE  ReaderKeeps
<1>1. /\ inSeq \in [Sessions -> Nat] /\ handled \in [Sessions -> Nat]
      /\ closed \in [Sessions -> BOOLEAN] /\ \A r \in Sessions : Inbound(r)
  BY DEF NumbersInv, SessionTypes
<1>2. /\ inSeq' \in [Sessions -> Nat] /\ handled' \in [Sessions -> Nat]
      /\ inSeq'[s] = seq /\ handled'[s] = last
      /\ \A r \in Sessions \ {s} : inSeq'[r] = inSeq[r] /\ handled'[r] = handled[r]
  BY <1>1
<1>3. Inbound(s)'
  BY <1>2 DEF Inbound
<1>4. \A r \in Sessions \ {s} : Inbound(r)'
  BY <1>1, <1>2 DEF Inbound
<1> QED
  BY <1>1, <1>2, <1>3, <1>4 DEF ReaderKeeps

(* A step that moves no expected number may close a session. *)
LEMMA ReaderStays ==
    ASSUME NumbersInv, UNCHANGED <<inSeq, handled>>, closed' \in [Sessions -> BOOLEAN],
           \A s \in Sessions : closed[s] => closed'[s]
    PROVE  ReaderKeeps
<1>1. /\ inSeq \in [Sessions -> Nat] /\ handled \in [Sessions -> Nat]
      /\ \A r \in Sessions : Inbound(r)
  BY DEF NumbersInv, SessionTypes
<1>2. \A r \in Sessions : Inbound(r)'
  BY <1>1 DEF Inbound
<1> QED
  BY <1>1, <1>2 DEF ReaderKeeps

(* Closing one session keeps the others' state. *)
LEMMA ClosesOne ==
    ASSUME NumbersInv, NEW s \in Sessions, UNCHANGED <<inSeq, handled>>,
           closed' = [closed EXCEPT ![s] = TRUE]
    PROVE  ReaderKeeps
<1>1. closed' \in [Sessions -> BOOLEAN] /\ \A r \in Sessions : closed[r] => closed'[r]
  BY DEF NumbersInv, SessionTypes
<1> QED
  BY <1>1, ReaderStays

(* An idle handler may be given any tasks. *)
LEMMA StartsTasks ==
    ASSUME NumbersInv, NEW g \in Goroutines, todo[g] = <<>>, NEW steps \in Seq(Task), Do(g, steps)
    PROVE  SendsKept
<1>1. GoesOn(g, steps)
  BY DEF GoesOn, Do
<1> QED
  BY <1>1, GoesOnKeeps

-----------------------------------------------------------------------------
(* The reader's actions.                                                     *)

(* Logon expects 2 next. *)
LEMMA LogonNumbers ==
    ASSUME NumbersInv, NEW s \in Sessions, Logon(s) PROVE NumbersInv'
<1>1. SendsKept
  <2>1. <<Tell(s)>> \in Seq(Task)
    BY DEF Tell, Task
  <2> QED
    BY <2>1, StartsTasks DEF Logon, Reading, Goroutines
<1>2. handled \in [Sessions -> Nat] /\ handled[s] = 0
  BY DEF NumbersInv, SessionTypes, Inbound, Logon
<1>3. handled' = [handled EXCEPT ![s] = 0]
  BY <1>2 DEF Logon
<1>4. inSeq' = [inSeq EXCEPT ![s] = 2] /\ UNCHANGED closed /\ 0 \in Nat /\ 2 \in Nat /\ 0 < 2
  BY DEF Logon, Expect
<1>5. ReaderKeeps
  BY ONLY <1>3, <1>4, NumbersInv, s \in Sessions, ReaderMoves
<1> QED
  BY <1>1, <1>5, QuietStep DEF Logon

(* A reset never lowers the expected number. *)
LEMMA ResetNumbers ==
    ASSUME NumbersInv, NEW s \in Sessions, NEW newSeq \in Nat, ResetSequence(s, newSeq)
    PROVE  NumbersInv'
<1>1. SendsKept
  BY StillKeeps DEF ResetSequence
<1>2. PICK last : last = handled[s]
  OBVIOUS
<1>3. /\ handled \in [Sessions -> Nat] /\ inSeq[s] \in Nat /\ last \in Nat
      /\ inSeq[s] # 0 /\ newSeq >= inSeq[s]
  BY <1>2 DEF NumbersInv, SessionTypes, ResetSequence
<1>4. handled' = [handled EXCEPT ![s] = last] /\ last < newSeq
  BY <1>2, <1>3 DEF NumbersInv, Inbound, ResetSequence
<1>5. ReaderKeeps
  BY <1>3, <1>4, ReaderMoves DEF ResetSequence, Expect
<1> QED
  BY <1>1, <1>5, QuietStep DEF ResetSequence

(* A gap is answered, and moves nothing. *)
LEMMA GapNumbers ==
    ASSUME NumbersInv, NEW s \in Sessions, NEW seq \in Nat, GapFound(s, seq)
    PROVE  NumbersInv'
<1>1. SendsKept
  <2>1. <<Tell(s)>> \in Seq(Task)
    BY DEF Tell, Task
  <2> QED
    BY <2>1, StartsTasks DEF GapFound, Reading, Goroutines
<1>2. ReaderKeeps
  BY ReaderStays DEF GapFound, NumbersInv, SessionTypes
<1> QED
  BY <1>1, <1>2, QuietStep DEF GapFound

(* Administrative messages are counted. *)
LEMMA AdministerNumbers ==
    ASSUME NumbersInv, NEW s \in Sessions, Administer(s) PROVE NumbersInv'
<1>1. SendsKept
  <2>1. \A steps \in {<<>>, <<Tell(s)>>, <<Tell(s), EndSession>>} : steps \in Seq(Task)
    <3>1. Tell(s) \in Task /\ EndSession \in Task
      BY DEF Tell, EndSession, Task
    <3>2. <<>> \in Seq(Task)
      OBVIOUS
    <3>3. <<Tell(s)>> \in Seq(Task)
      BY <3>1
    <3>4. <<Tell(s), EndSession>> \in Seq(Task)
      BY <3>1
    <3> QED
      BY ONLY <3>2, <3>3, <3>4, Zenon
  <2> QED
    BY <2>1, StartsTasks DEF Administer, Reading, Goroutines
<1>2. PICK last : last = handled[s]
  OBVIOUS
<1>3. PICK seq : seq = inSeq[s] + 1
  OBVIOUS
<1>4. /\ handled \in [Sessions -> Nat] /\ inSeq[s] \in Nat /\ last \in Nat /\ seq \in Nat
      /\ inSeq[s] # 0
  BY <1>2, <1>3 DEF NumbersInv, SessionTypes, Administer
<1>5. handled' = [handled EXCEPT ![s] = last] /\ last < seq
  BY <1>2, <1>3, <1>4 DEF NumbersInv, Inbound, Administer
<1>6. ReaderKeeps
  BY <1>3, <1>4, <1>5, ReaderMoves DEF Administer, Expect
<1> QED
  BY <1>1, <1>6, QuietStep DEF Administer

(* A business message is handled under the number that was expected. *)
LEMMA BusinessNumbers ==
    ASSUME NumbersInv, NEW s \in Sessions, Business(s) PROVE NumbersInv'
<1>1. SendsKept
  BY HandlersAreTasks, StartsTasks DEF Business, Reading, Goroutines
<1>2. PICK last : last = inSeq[s]
  OBVIOUS
<1>3. PICK seq : seq = inSeq[s] + 1
  OBVIOUS
<1>4. last \in Nat /\ seq \in Nat /\ last < seq
  BY <1>2, <1>3 DEF NumbersInv, SessionTypes
<1>5. handled' = [handled EXCEPT ![s] = last] /\ inSeq' = [inSeq EXCEPT ![s] = seq]
  BY <1>2, <1>3 DEF Business, Expect
<1>6. ReaderKeeps
  BY <1>4, <1>5, ReaderMoves DEF Business
<1> QED
  BY <1>1, <1>6, QuietStep DEF Business

(* What else the reader, the peer and the writer's end do. *)
LEMMA OtherNumbers ==
    ASSUME NumbersInv, NEW s \in Sessions, ReadFails(s) \/ PeerLeaves(s) \/ WriterEnds(s)
    PROVE  NumbersInv'
<1>1. SendsKept
  BY StillKeeps DEF ReadFails, PeerLeaves, WriterEnds
<1>2. ReaderKeeps
  <2>1. CASE ReadFails(s)
    BY <2>1, ClosesOne DEF ReadFails
  <2>2. CASE PeerLeaves(s) \/ WriterEnds(s)
    BY <2>2, ReaderStays DEF PeerLeaves, WriterEnds, NumbersInv, SessionTypes
  <2> QED
    BY <2>1, <2>2
<1> QED
  BY <1>1, <1>2, QuietStep DEF ReadFails, PeerLeaves, WriterEnds

(* An order of another edge starts its hook. *)
LEMMA OutsiderNumbers ==
    ASSUME NumbersInv, OutsiderTrades PROVE NumbersInv'
<1>1. SendsKept
  <2>1. \A r \in Reports : UnderLock(r) \in Seq(Task)
    BY ReportsAreTasks, UnderLockTasks
  <2> QED
    BY <2>1, StartsTasks DEF OutsiderTrades, Goroutines
<1>2. ReaderKeeps
  BY ReaderStays DEF OutsiderTrades, NumbersInv, SessionTypes
<1> QED
  BY <1>1, <1>2, QuietStep DEF OutsiderTrades

(* Taking and leaving the instrument, and ending the session. *)
LEMMA LockNumbers ==
    ASSUME NumbersInv, NEW g \in Goroutines, TakeBook(g) \/ LeaveBook(g) PROVE NumbersInv'
<1>1. GoesOn(g, Tail(todo[g]))
  BY AdvanceGoesOn DEF TakeBook, LeaveBook
<1>2. SendsKept
  BY <1>1, GoesOnKeeps
<1>3. ReaderKeeps
  BY ReaderStays DEF TakeBook, LeaveBook, NumbersInv, SessionTypes
<1> QED
  BY <1>2, <1>3, QuietStep DEF TakeBook, LeaveBook

(* A logout ends the session once it is answered. *)
LEMMA EndNumbers ==
    ASSUME NumbersInv, NEW s \in Sessions, End(s) PROVE NumbersInv'
<1>1. GoesOn(s, Tail(todo[s]))
  BY AdvanceGoesOn DEF End, Goroutines
<1>2. SendsKept
  BY <1>1, GoesOnKeeps DEF Goroutines
<1>3. ReaderKeeps
  BY ClosesOne DEF End
<1> QED
  BY <1>2, <1>3, QuietStep DEF End

-----------------------------------------------------------------------------
(* Send and writeLoop.                                                       *)

(* Whoever is inside Send to a session has it as its mutex's holder, so two   *)
(* handlers are never inside Send to one session, nor one to two.            *)
LEMMA MutexAlone ==
    ASSUME NumbersInv, NEW g \in Goroutines, NEW s \in Sessions, Sending(g, s)
    PROVE  /\ sender[s] = g
           /\ \A h \in Goroutines \ {g} : ~Sending(h, s)
           /\ \A r \in Sessions \ {s} : ~Sending(g, r)
BY DEF NumbersInv, MutexHeld, Sending

\* What is in hand for a session other than s, or what is queued, stays.
Elsewhere(s) ==
    \A r \in Sessions \ {s} :
        /\ outSeq'[r] = outSeq[r] /\ out'[r] = out[r] /\ written'[r] = written[r]
        /\ sender'[r] = sender[r]
        /\ sender[r] # Nobody => todo'[sender[r]] = todo[sender[r]]

(* Other sessions' numbers stay in order. *)
LEMMA ElsewhereKept ==
    ASSUME NumbersInv, NEW s \in Sessions, Elsewhere(s), UNCHANGED closed,
           NEW r \in Sessions, r # s
    PROVE  Outbound(r)'
<1>1. Outbound(r)
  BY DEF NumbersInv
<1>2. /\ outSeq'[r] = outSeq[r] /\ out'[r] = out[r] /\ written'[r] = written[r]
      /\ sender'[r] = sender[r]
      /\ sender[r] # Nobody => todo'[sender[r]] = todo[sender[r]]
  BY DEF Elsewhere
<1>3. Queued(r)' <=> Queued(r)
  BY <1>2 DEF Queued
<1>4. NextNumber(r)' <=> NextNumber(r)
  BY <1>2 DEF NextNumber
<1> QED
  BY <1>1, <1>3, <1>4 DEF Outbound

(* The holder of a session's mutex is inside Send to it, with its message.   *)
LEMMA HolderSends ==
    ASSUME NumbersInv, NEW s \in Sessions, sender[s] # Nobody
    PROVE  sender[s] \in Goroutines /\ Sending(sender[s], s)
BY DEF NumbersInv, SessionTypes, MutexHeld

(* StampMessage gives the next number to whoever gets the mutex. *)
LEMMA StampNumbers ==
    ASSUME NumbersInv, NEW g \in Goroutines, StampMessage(g) PROVE NumbersInv'
<1>1. PICK s : s = Head(todo[g]).to
  OBVIOUS
<1>2. PICK m : m = [do |-> "queue", to |-> s, seq |-> outSeq[s]]
  OBVIOUS
<1>3. /\ SessionTypes /\ OneInHand /\ MutexHeld /\ \A r \in Sessions : Outbound(r) /\ Inbound(r)
      /\ todo[g] \in Seq(Task \cup Stamped)
  BY DEF NumbersInv, SessionTypes
<1>4. todo[g] # <<>> /\ todo[g][1].do = "send" /\ todo[g][1].to = s
  BY <1>1, <1>3 DEF StampMessage, Next1
<1>5. s \in Sessions
  <2>1. todo[g][1] \in Task \cup Stamped
    BY <1>3, <1>4
  <2> QED
    BY <1>4, <2>1 DEF Task, Stamped
<1>6. /\ sender[s] = Nobody /\ sender' = [sender EXCEPT ![s] = g]
      /\ outSeq' = [outSeq EXCEPT ![s] = @ + 1]
      /\ todo' = [todo EXCEPT ![g] = [@ EXCEPT ![1] = m]]
      /\ UNCHANGED <<inSeq, out, written, closed, handled>>
  BY <1>1, <1>2 DEF StampMessage
<1>7. m \in Stamped /\ m.do = "queue" /\ m.to = s /\ m.seq = outSeq[s]
  BY <1>2, <1>3, <1>5 DEF SessionTypes, Stamped
<1>8. /\ [todo[g] EXCEPT ![1] = m] \in Seq(Task \cup Stamped)
      /\ Len([todo[g] EXCEPT ![1] = m]) = Len(todo[g])
      /\ [todo[g] EXCEPT ![1] = m] # <<>>
      /\ [todo[g] EXCEPT ![1] = m][1] = m
      /\ \A i \in 2..Len(todo[g]) : [todo[g] EXCEPT ![1] = m][i] = todo[g][i]
  BY <1>3, <1>4, <1>7
<1>9. /\ todo' \in [Goroutines -> Seq(Task \cup Stamped)]
      /\ todo'[g] = [todo[g] EXCEPT ![1] = m]
      /\ \A h \in Goroutines \ {g} : todo'[h] = todo[h]
  BY <1>3, <1>6, <1>8 DEF SessionTypes
<1>10. /\ sender' \in [Sessions -> Goroutines \cup {Nobody}] /\ sender'[s] = g
       /\ outSeq' \in [Sessions -> Nat] /\ outSeq'[s] = outSeq[s] + 1
       /\ \A r \in Sessions \ {s} : sender'[r] = sender[r] /\ outSeq'[r] = outSeq[r]
  BY <1>3, <1>5, <1>6 DEF SessionTypes
<1>11. SessionTypes'
  BY <1>3, <1>6, <1>9, <1>10 DEF SessionTypes
<1>12. OneInHand'
  <2>1. ASSUME NEW h \in Goroutines PROVE \A i \in 2..Len(todo'[h]) : todo'[h][i] \in Task
    <3>1. CASE h = g
      BY <1>3, <1>8, <1>9, <3>1 DEF OneInHand
    <3>2. CASE h # g
      BY <1>3, <1>9, <3>2 DEF OneInHand
    <3> QED
      BY <3>1, <3>2
  <2> QED
    BY <2>1 DEF OneInHand
<1>13. \A r \in Sessions : ~Sending(g, r) /\ sender[r] # g
  <2>1. \A r \in Sessions : ~Sending(g, r)
    BY <1>4 DEF Sending
  <2> QED
    BY <2>1, <1>3 DEF MutexHeld
<1>14. MutexHeld'
  <2>1. ASSUME NEW h \in Goroutines, NEW r \in Sessions
        PROVE  Sending(h, r)' <=> sender'[r] = h
    <3>1. CASE h = g
      <4>1. Sending(g, r)' <=> r = s
        BY <1>7, <1>8, <1>9 DEF Sending
      <4> QED
        BY <3>1, <4>1, <1>10, <1>13
    <3>2. CASE h # g
      <4>1. Sending(h, r)' <=> Sending(h, r)
        BY <1>9, <3>2 DEF Sending
      <4>2. sender'[r] = h <=> sender[r] = h
        <5>1. h # Nobody
          BY SessionAssumption DEF SessionAssumption, Goroutines
        <5> QED
          BY <1>6, <1>10, <3>2, <5>1
      <4> QED
        BY <4>1, <4>2, <1>3 DEF MutexHeld
    <3> QED
      BY <3>1, <3>2
  <2> QED
    BY <2>1 DEF MutexHeld
<1>15. Elsewhere(s)
  <2>1. \A r \in Sessions : sender[r] # Nobody => sender[r] \in Goroutines
    BY <1>3 DEF SessionTypes
  <2> QED
    BY <1>6, <1>9, <1>10, <1>13, <2>1 DEF Elsewhere
<1>16. Outbound(s)'
  <2>1. CASE closed[s]
    BY <1>6, <2>1 DEF Outbound
  <2>2. CASE ~closed[s]
    <3>1. Queued(s) /\ outSeq[s] = written[s] + Len(out[s]) + 1
      BY <1>3, <1>5, <1>6, <2>2 DEF Outbound, NextNumber
    <3>2. Queued(s)'
      BY <1>6, <3>1 DEF Queued
    <3>3. written[s] \in Nat /\ Len(out[s]) \in Nat
      BY <1>3, <1>5 DEF SessionTypes
    <3>4. g # Nobody
      BY SessionAssumption DEF SessionAssumption, Goroutines
    <3>5. todo'[g][1].seq = outSeq[s]
      BY <1>7, <1>8, <1>9
    <3>6. outSeq'[s] = written'[s] + Len(out'[s]) + 2 /\ todo'[g][1].seq = written'[s] + Len(out'[s]) + 1
      BY <1>6, <1>10, <3>1, <3>3, <3>5
    <3>7. NextNumber(s)'
      BY <1>10, <3>4, <3>6 DEF NextNumber
    <3> QED
      BY <3>2, <3>7 DEF Outbound
  <2> QED
    BY <2>1, <2>2
<1>17. \A r \in Sessions : Outbound(r)'
  BY <1>5, <1>6, <1>15, <1>16, ElsewhereKept
<1>18. \A r \in Sessions : Inbound(r)'
  BY <1>3, <1>6 DEF Inbound
<1> QED
  BY <1>11, <1>12, <1>14, <1>17, <1>18 DEF NumbersInv

\* The numbers of queue q follow w.
Follows(q, w) == \A i \in 1..Len(q) : q[i] = w + i

(* A queue stays in order when its next number is appended, ... *)
LEMMA FollowsAppend ==
    ASSUME NEW q \in Seq(Nat), NEW w \in Nat, Follows(q, w)
    PROVE  /\ Len(Append(q, w + Len(q) + 1)) = Len(q) + 1
           /\ Follows(Append(q, w + Len(q) + 1), w)
<1>1. PICK n \in Nat : n = Len(q)
  OBVIOUS
<1>2. PICK a : a = Append(q, w + n + 1)
  OBVIOUS
<1>3. Len(a) = n + 1 /\ a[n + 1] = w + n + 1 /\ \A i \in 1..n : a[i] = q[i]
  BY <1>1, <1>2
<1>4. ASSUME NEW i \in 1..(n + 1) PROVE a[i] = w + i
  <2>1. CASE i = n + 1
    BY <1>3, <2>1
  <2>2. CASE i \in 1..n
    BY <1>1, <1>3, <2>2 DEF Follows
  <2> QED
    BY <2>1, <2>2
<1> QED
  BY <1>1, <1>2, <1>3, <1>4 DEF Follows

(* ... and when its first is taken. *)
LEMMA FollowsTail ==
    ASSUME NEW q \in Seq(Nat), NEW w \in Nat, Follows(q, w), q # <<>>
    PROVE  /\ q[1] = w + 1 /\ w + 1 + Len(Tail(q)) = w + Len(q)
           /\ Follows(Tail(q), w + 1)
<1>1. PICK n \in Nat : n = Len(q)
  OBVIOUS
<1>2. PICK a : a = Tail(q)
  OBVIOUS
<1>3. n > 0 /\ Len(a) = n - 1 /\ \A i \in 1..(n - 1) : a[i] = q[i + 1]
  BY <1>1, <1>2
<1>4. q[1] = w + 1
  BY <1>1, <1>3 DEF Follows
<1>5. ASSUME NEW i \in 1..(n - 1) PROVE a[i] = w + 1 + i
  <2>1. i \in Nat /\ i + 1 \in 1..n
    BY <1>3
  <2>2. q[i + 1] = w + (i + 1)
    BY <1>1, <2>1 DEF Follows
  <2> QED
    BY <1>3, <2>1, <2>2
<1> QED
  BY <1>1, <1>2, <1>3, <1>4, <1>5 DEF Follows

(* Enqueue hands the number on and the mutex back. *)
LEMMA EnqueueNumbers ==
    ASSUME NumbersInv, NEW g \in Goroutines, Enqueue(g) PROVE NumbersInv'
<1>1. PICK s : s = Head(todo[g]).to
  OBVIOUS
<1>3. /\ SessionTypes /\ OneInHand /\ MutexHeld /\ \A r \in Sessions : Outbound(r) /\ Inbound(r)
      /\ todo[g] \in Seq(Task \cup Stamped)
  BY DEF NumbersInv, SessionTypes
<1>4. todo[g] # <<>> /\ todo[g][1].do = "queue" /\ todo[g][1].to = s
  BY <1>1, <1>3 DEF Enqueue, Next1
<1>5. s \in Sessions /\ todo[g][1].seq \in Nat
  <2>1. todo[g][1] \in Task \cup Stamped
    BY <1>3, <1>4
  <2> QED
    BY <1>4, <2>1 DEF Task, Stamped
<1>6. /\ sender' = [sender EXCEPT ![s] = Nobody]
      /\ todo' = [todo EXCEPT ![g] = Tail(@)]
      /\ \/ out' = [out EXCEPT ![s] = Append(@, todo[g][1].seq)]
         \/ closed[s] /\ UNCHANGED out
      /\ UNCHANGED <<inSeq, outSeq, written, closed, handled>>
  BY <1>1, <1>3, <1>4 DEF Enqueue, Advance
<1>7. /\ Tail(todo[g]) \in Seq(Task \cup Stamped)
      /\ \A i \in 1..Len(Tail(todo[g])) : Tail(todo[g])[i] \in Task
  <2>1. /\ Tail(todo[g]) \in Seq(Task \cup Stamped) /\ Len(todo[g]) \in Nat
        /\ Len(Tail(todo[g])) = Len(todo[g]) - 1
        /\ \A i \in 1..Len(Tail(todo[g])) : Tail(todo[g])[i] = todo[g][i + 1]
    BY <1>3, <1>4
  <2> QED
    BY <1>3, <2>1 DEF OneInHand
<1>8. /\ todo' \in [Goroutines -> Seq(Task \cup Stamped)]
      /\ todo'[g] = Tail(todo[g])
      /\ \A h \in Goroutines \ {g} : todo'[h] = todo[h]
  BY <1>3, <1>6, <1>7 DEF SessionTypes
<1>9. /\ sender' \in [Sessions -> Goroutines \cup {Nobody}] /\ sender'[s] = Nobody
      /\ out' \in [Sessions -> Seq(Nat)]
      /\ \A r \in Sessions \ {s} : sender'[r] = sender[r] /\ out'[r] = out[r]
  <2>1. out[s] \in Seq(Nat) /\ Append(out[s], todo[g][1].seq) \in Seq(Nat)
    BY <1>3, <1>5 DEF SessionTypes
  <2>2. out' \in [Sessions -> Seq(Nat)] /\ \A r \in Sessions \ {s} : out'[r] = out[r]
    BY <1>3, <1>5, <1>6, <2>1 DEF SessionTypes
  <2>3. /\ sender' \in [Sessions -> Goroutines \cup {Nobody}] /\ sender'[s] = Nobody
        /\ \A r \in Sessions \ {s} : sender'[r] = sender[r]
    BY <1>3, <1>5, <1>6 DEF SessionTypes
  <2> QED
    BY <2>2, <2>3
<1>10. Sending(g, s) /\ sender[s] = g
  BY <1>3, <1>4, <1>5 DEF Sending, MutexHeld
<1>11. SessionTypes'
  BY <1>3, <1>6, <1>8, <1>9 DEF SessionTypes
<1>12. OneInHand'
  <2>1. ASSUME NEW h \in Goroutines PROVE \A i \in 2..Len(todo'[h]) : todo'[h][i] \in Task
    <3>1. CASE h = g
      <4>1. \A i \in 2..Len(Tail(todo[g])) : i \in 1..Len(Tail(todo[g]))
        BY <1>7
      <4> QED
        BY <1>7, <1>8, <3>1, <4>1
    <3>2. CASE h # g
      BY <1>3, <1>8, <3>2 DEF OneInHand
    <3> QED
      BY <3>1, <3>2
  <2> QED
    BY <2>1 DEF OneInHand
<1>13. MutexHeld'
  <2>1. ASSUME NEW h \in Goroutines, NEW r \in Sessions
        PROVE  Sending(h, r)' <=> sender'[r] = h
    <3>0. h # Nobody
      BY SessionAssumption DEF SessionAssumption, Goroutines
    <3>1. CASE h = g
      <4>1. todo'[g] # <<>> => todo'[g][1] \in Task
        <5>1. Tail(todo[g]) # <<>> => 1 \in 1..Len(Tail(todo[g]))
          BY <1>7
        <5> QED
          BY <1>7, <1>8, <5>1
      <4>2. ~Sending(g, r)'
        BY <4>1 DEF Sending, Task
      <4>3. r # s => ~Sending(g, r)
        BY <1>4 DEF Sending
      <4>4. sender'[r] # g
        BY <4>3, <1>3, <1>9, <3>0, <3>1 DEF MutexHeld
      <4> QED
        BY <3>1, <4>2, <4>4
    <3>2. CASE h # g
      <4>1. Sending(h, r)' <=> Sending(h, r)
        BY <1>8, <3>2 DEF Sending
      <4>2. sender'[r] = h <=> sender[r] = h
        BY <1>9, <1>10, <3>0, <3>2
      <4> QED
        BY <4>1, <4>2, <1>3 DEF MutexHeld
    <3> QED
      BY <3>1, <3>2
  <2> QED
    BY <2>1 DEF MutexHeld
<1>14. Elsewhere(s)
  <2>1. ASSUME NEW r \in Sessions \ {s}, sender[r] # Nobody
        PROVE  todo'[sender[r]] = todo[sender[r]]
    <3>1. sender[r] \in Goroutines
      BY <1>3, <2>1 DEF SessionTypes
    <3>2. sender[r] # g
      BY <1>3, <1>4 DEF MutexHeld, Sending
    <3> QED
      BY <1>8, <3>1, <3>2
  <2> QED
    BY <1>6, <1>9, <2>1 DEF Elsewhere
<1>15. Outbound(s)'
  <2>1. CASE closed[s]
    BY <1>6, <2>1 DEF Outbound
  <2>2. CASE ~closed[s]
    <3>0. g # Nobody
      BY SessionAssumption DEF SessionAssumption, Goroutines
    <3>1. /\ Queued(s) /\ outSeq[s] = written[s] + Len(out[s]) + 2
          /\ todo[g][1].seq = written[s] + Len(out[s]) + 1
      BY <1>3, <1>5, <1>10, <2>2, <3>0 DEF Outbound, NextNumber
    <3>2. written[s] \in Nat /\ Len(out[s]) \in Nat /\ out[s] \in Seq(Nat)
      BY <1>3, <1>5 DEF SessionTypes
    <3>3. out'[s] = Append(out[s], todo[g][1].seq)
      BY <1>3, <1>5, <1>6, <2>2 DEF SessionTypes
    <3>4. Follows(out[s], written[s])
      BY <3>1 DEF Queued, Follows
    <3>5. Len(out'[s]) = Len(out[s]) + 1 /\ Follows(out'[s], written[s])
      BY <3>1, <3>2, <3>3, <3>4, FollowsAppend
    <3>6. Queued(s)'
      BY <1>6, <3>5 DEF Queued, Follows
    <3>7. NextNumber(s)'
      <4>1. outSeq[s] = written[s] + (Len(out[s]) + 1) + 1
        <5>1. PICK n, w \in Nat : n = Len(out[s]) /\ w = written[s]
          BY <3>2
        <5>2. w + n + 2 = w + (n + 1) + 1
          BY ONLY n \in Nat, w \in Nat
        <5> QED
          BY <3>1, <5>1, <5>2
      <4> QED
        BY <1>6, <1>9, <3>5, <4>1 DEF NextNumber
    <3> QED
      BY <3>6, <3>7 DEF Outbound
  <2> QED
    BY <2>1, <2>2
<1>16. \A r \in Sessions : Outbound(r)'
  BY <1>5, <1>6, <1>14, <1>15, ElsewhereKept
<1>17. \A r \in Sessions : Inbound(r)'
  BY <1>3, <1>6 DEF Inbound
<1> QED
  BY <1>11, <1>12, <1>13, <1>16, <1>17 DEF NumbersInv

(* The writer takes the number after the last it wrote. *)
LEMMA WriteNumbers ==
    ASSUME NumbersInv, NEW s \in Sessions, Write(s) PROVE NumbersInv'
<1>1. /\ SessionTypes /\ OneInHand /\ MutexHeld /\ \A r \in Sessions : Outbound(r) /\ Inbound(r)
      /\ out[s] \in Seq(Nat) /\ out[s] # <<>> /\ written[s] \in Nat
  BY DEF NumbersInv, SessionTypes, Write
<1>2. /\ out' = [out EXCEPT ![s] = Tail(@)] /\ written' = [written EXCEPT ![s] = out[s][1]]
      /\ UNCHANGED <<inSeq, outSeq, sender, todo, closed, handled>>
  BY <1>1 DEF Write
<1>3. /\ Tail(out[s]) \in Seq(Nat) /\ out[s][1] \in Nat /\ Len(out[s]) \in Nat
      /\ Len(out[s]) > 0 /\ Len(Tail(out[s])) = Len(out[s]) - 1
      /\ \A i \in 1..Len(Tail(out[s])) : Tail(out[s])[i] = out[s][i + 1]
  BY <1>1
<1>4. /\ out' \in [Sessions -> Seq(Nat)] /\ written' \in [Sessions -> Nat]
      /\ out'[s] = Tail(out[s]) /\ written'[s] = out[s][1]
      /\ \A r \in Sessions \ {s} : out'[r] = out[r] /\ written'[r] = written[r]
  BY <1>1, <1>2, <1>3 DEF SessionTypes
<1>5. SessionTypes' /\ OneInHand' /\ MutexHeld'
  BY <1>1, <1>2, <1>4 DEF SessionTypes, OneInHand, MutexHeld, Sending
<1>6. Elsewhere(s)
  BY <1>2, <1>4 DEF Elsewhere
<1>7. Outbound(s)'
  <2>1. CASE closed[s]
    BY <1>2, <2>1 DEF Outbound
  <2>2. CASE ~closed[s]
    <3>1. Queued(s) /\ NextNumber(s)
      BY <1>1, <2>2 DEF Outbound
    <3>2. Follows(out[s], written[s])
      BY <3>1 DEF Queued, Follows
    <3>3. /\ out[s][1] = written[s] + 1 /\ written[s] + 1 + Len(Tail(out[s])) = written[s] + Len(out[s])
          /\ Follows(Tail(out[s]), written[s] + 1)
      BY <1>1, <3>2, FollowsTail
    <3>4. written'[s] + Len(out'[s]) = written[s] + Len(out[s]) /\ Follows(out'[s], written'[s])
      BY <1>4, <3>3
    <3>5. NextNumber(s)'
      BY <1>2, <3>1, <3>4 DEF NextNumber
    <3> QED
      BY <3>4, <3>5 DEF Outbound, Queued, Follows
  <2> QED
    BY <2>1, <2>2
<1>8. \A r \in Sessions : Outbound(r)'
  BY <1>2, <1>6, <1>7, ElsewhereKept
<1>9. \A r \in Sessions : Inbound(r)'
  BY <1>1, <1>2 DEF Inbound
<1> QED
  BY <1>5, <1>8, <1>9 DEF NumbersInv

-----------------------------------------------------------------------------
(* Numbers are kept.                                                         *)

(* Initially. *)
LEMMA NumbersInit == SessionInit => NumbersInv
<1> SUFFICES ASSUME SessionInit PROVE NumbersInv
  OBVIOUS
<1>1. \A g \in Goroutines : todo[g] = <<>>
  BY DEF SessionInit
<1>2. SessionTypes
  BY DEF SessionInit, SessionTypes
<1>3. OneInHand
  BY <1>1 DEF OneInHand
<1>4. MutexHeld
  <2>1. Nobody \notin Goroutines
    BY SessionAssumption DEF SessionAssumption, Goroutines
  <2> QED
    BY <1>1, <2>1 DEF SessionInit, MutexHeld, Sending
<1>5. \A s \in Sessions : Outbound(s) /\ Inbound(s)
  BY DEF SessionInit, Outbound, Queued, NextNumber, Inbound
<1> QED
  BY <1>2, <1>3, <1>4, <1>5 DEF NumbersInv

(* By every step. *)
LEMMA NumbersStep == NumbersInv /\ [SessionNext]_sessionVars => NumbersInv'
<1> SUFFICES ASSUME NumbersInv, [SessionNext]_sessionVars PROVE NumbersInv'
  OBVIOUS
<1>1. ASSUME NEW s \in Sessions, NEW seq \in 1..(MaxSeq + 1),
             ResetSequence(s, seq) \/ GapFound(s, seq)
      PROVE  NumbersInv'
  <2>1. seq \in Nat
    BY SessionAssumption DEF SessionAssumption
  <2> QED
    BY <1>1, <2>1, ResetNumbers, GapNumbers
<1>2. ASSUME NEW s \in Sessions,
             \/ Logon(s) \/ Administer(s) \/ Business(s) \/ ReadFails(s) \/ PeerLeaves(s)
             \/ End(s) \/ Write(s) \/ WriterEnds(s)
      PROVE  NumbersInv'
  BY <1>2, LogonNumbers, AdministerNumbers, BusinessNumbers, OtherNumbers, EndNumbers, WriteNumbers
<1>3. ASSUME NEW g \in Goroutines, TakeBook(g) \/ LeaveBook(g) \/ StampMessage(g) \/ Enqueue(g)
      PROVE  NumbersInv'
  BY <1>3, LockNumbers, StampNumbers, EnqueueNumbers
<1>4. CASE OutsiderTrades
  BY <1>4, OutsiderNumbers
<1>5. CASE UNCHANGED sessionVars
  BY <1>5 DEF sessionVars, NumbersInv, SessionTypes, OneInHand, MutexHeld, Sending, Outbound,
              Queued, NextNumber, Inbound
<1> QED
  BY <1>1, <1>2, <1>3, <1>4, <1>5 DEF SessionNext

(* NumbersKept is what a reader sees of it. *)
LEMMA NumbersImply == NumbersInv => NumbersKept
<1> SUFFICES ASSUME NumbersInv, NEW s \in Sessions
             PROVE  /\ \A i \in DOMAIN out[s] : closed[s] \/ out[s][i] = written[s] + i
                    /\ closed[s] \/ InHand(s) # {} \/ outSeq[s] = written[s] + Len(out[s]) + 1
                    /\ inSeq[s] > 0 => handled[s] < inSeq[s]
  BY DEF NumbersKept
<1>1. Outbound(s) /\ Inbound(s) /\ out[s] \in Seq(Nat) /\ inSeq[s] \in Nat
  BY DEF NumbersInv, SessionTypes
<1>2. \A i \in DOMAIN out[s] : closed[s] \/ out[s][i] = written[s] + i
  BY <1>1 DEF Outbound, Queued
<1>3. closed[s] \/ InHand(s) # {} \/ outSeq[s] = written[s] + Len(out[s]) + 1
  <2>1. CASE sender[s] = Nobody
    BY <1>1, <2>1 DEF Outbound, NextNumber
  <2>2. CASE sender[s] # Nobody
    <3>1. PICK g \in Goroutines : Sending(g, s)
      BY <2>2, HolderSends
    <3>2. todo[g] \in Seq(Task \cup Stamped)
      BY DEF NumbersInv, SessionTypes
    <3> QED
      BY <3>1, <3>2 DEF Sending, InHand, Next1
  <2> QED
    BY <2>1, <2>2
<1>4. inSeq[s] > 0 => handled[s] < inSeq[s]
  BY <1>1 DEF Inbound
<1> QED
  BY <1>2, <1>3, <1>4

(* Both directions of every session keep their numbers (session.go: Send      *)
(* stamps and queues under one mutex, handle drops what is out of sequence),  *)
(* whoever sends and however the handlers of the sessions interleave.        *)
THEOREM SessionNumbers == SessionSpec => []NumbersKept
<1> QED
  BY NumbersInit, NumbersStep, NumbersImply, PTL DEF SessionSpec

-----------------------------------------------------------------------------
(* Orders and quotes of the FIX edge.                                        *)

Statuses == {"NEW", "PARTIAL"} \cup Ended

OrderRecord(o) ==
    [sess |-> o.sess, clOrdID |-> o.clOrdID, kind |-> o.kind, orderQty |-> o.orderQty,
     cumQty |-> o.cumQty, done |-> o.done, replaced |-> o.replaced]

FixTypes ==
    /\ \E n \in Nat : DOMAIN ordRec = 1..n
    /\ ordRec = [i \in DOMAIN ordRec |-> ordRec[i]]
    /\ \A i \in DOMAIN ordRec : ordRec[i] = OrderRecord(ordRec[i])
    /\ \A i \in DOMAIN ordRec :
         /\ ordRec[i].sess \in Clients
         /\ ordRec[i].orderQty \in Nat \ {0} /\ ordRec[i].cumQty \in Nat
    /\ told \in [DOMAIN ordRec -> [status : Statuses, cum : Nat]]
    /\ traded \in [DOMAIN ordRec -> Nat]
    /\ session \in [Clients -> {"new", "up", "over", "lost"}]
    /\ byClOrdID = [c \in Clients |-> byClOrdID[c]]
    /\ task = [c \in Clients |-> task[c]]
    /\ byEngine \subseteq DOMAIN ordRec
    /\ DOMAIN inBook \subseteq DOMAIN ordRec
    /\ inBook \in [DOMAIN inBook -> Nat \ {0}]

\* The fills of a call that the hook has not told yet: each of another order.
FillsGood ==
    /\ match = [by |-> match.by, fills |-> match.fills]
    /\ match.fills \in Seq((DOMAIN ordRec) \X (Nat \ {0})) /\ Len(match.fills) <= 2
    /\ \A k \in 1..Len(match.fills) : ~ordRec[match.fills[k][1]].done
    /\ Len(match.fills) = 2 => match.fills[1][1] # match.fills[2][1]
Pending(id) ==
    IF match.fills # <<>> /\ match.fills[1][1] = id THEN match.fills[1][2]
    ELSE IF Len(match.fills) = 2 /\ match.fills[2][1] = id THEN match.fills[2][2] ELSE 0

Listed(id) ==
    LET o == ordRec[id]
    IN  o.clOrdID \in DOMAIN byClOrdID[o.sess] /\ byClOrdID[o.sess][o.clOrdID] = id
\* Its handler is about to place it, or has taken it out of the book.
HandHas(id) ==
    LET t == task[ordRec[id].sess] IN t.at \in {"place", "cancelled"} /\ t.id = id
Gone(id) == session[ordRec[id].sess] = "over"

\* An order that has not ended is short of fills, is listed and gets its fills
\* while its session lasts, and rests as soon as it is out of its handler's hands.
OrderGood(id) ==
    /\ told[id].cum = ordRec[id].cumQty
    /\ ordRec[id].done => ordRec[id].replaced \/ told[id].status \in Ended
    /\ ~ordRec[id].done =>
         /\ told[id].status \notin Ended /\ ~ordRec[id].replaced
         /\ ordRec[id].cumQty < ordRec[id].orderQty
    /\ id \in byEngine <=> ~ordRec[id].done /\ ~Gone(id)
    /\ ~ordRec[id].done /\ ~Gone(id) => Listed(id)
    /\ id \in DOMAIN inBook =>
         /\ ~ordRec[id].done /\ ordRec[id].kind = "limit"
         /\ traded[id] + inBook[id] = ordRec[id].orderQty
    /\ traded[id] <= ordRec[id].orderQty
    /\ ordRec[id].kind = "limit" /\ ~ordRec[id].done /\ traded[id] < ordRec[id].orderQty =>
         id \in DOMAIN inBook \/ HandHas(id)
    /\ ~Gone(id) => traded[id] = ordRec[id].cumQty + Pending(id)

TaskGood(c) ==
    /\ task[c] # NoTask => session[c] = "up"
    /\ task[c].at \in {"idle", "place", "placing", "cancel", "cancelled", "again"}
    /\ task[c].at = "idle" => task[c] = NoTask
    /\ task[c].at \in {"place", "cancel", "cancelled"} =>
         /\ {"at", "id"} \subseteq DOMAIN task[c]
         /\ task[c].id \in DOMAIN ordRec /\ ordRec[task[c].id].sess = c
    /\ task[c].at \in {"place", "cancelled"} =>
         ~ordRec[task[c].id].done /\ task[c].id \notin DOMAIN inBook
    /\ task[c].at = "place" => traded[task[c].id] = 0
    /\ task[c].at = "cancelled" => Pending(task[c].id) = 0

QuoteTable ==
    /\ DOMAIN quotes \subseteq 1..asked /\ asked \in 0..MaxQuotesAsked
    /\ \A q \in DOMAIN quotes : "taken" \in DOMAIN quotes[q]
    /\ bought \in [1..MaxQuotesAsked -> 0..1]
    /\ \A q \in 1..MaxQuotesAsked :
         /\ q > asked => bought[q] = 0
         /\ q \in DOMAIN quotes /\ ~quotes[q].taken => bought[q] = 0

\* What a session's list leads to is its own.
ListsGood ==
    \A c \in Clients : \A cl \in DOMAIN byClOrdID[c] :
        /\ byClOrdID[c][cl] \in DOMAIN ordRec
        /\ ordRec[byClOrdID[c][cl]].sess = c /\ ordRec[byClOrdID[c][cl]].clOrdID = cl
BookApart ==
    \A i, j \in DOMAIN inBook :
        i # j => <<ordRec[i].sess, ordRec[i].clOrdID>> # <<ordRec[j].sess, ordRec[j].clOrdID>>
HolderPlaces == match.by \in Clients => task[match.by].at = "placing"

FixInv ==
    /\ FixTypes /\ FillsGood /\ QuoteTable /\ ListsGood /\ BookApart /\ HolderPlaces
    /\ \A id \in DOMAIN ordRec : OrderGood(id)
    /\ \A c \in Clients : TaskGood(c)

\* What an order's state says goes on as long as nothing of it changes.
LEMMA OrderStays ==
  ASSUME NEW id, OrderGood(id), ordRec'[id] = ordRec[id], told'[id] = told[id],
         traded'[id] = traded[id], id \in byEngine' <=> id \in byEngine,
         Gone(id)' <=> Gone(id), Listed(id) => Listed(id)' \/ Gone(id) \/ ordRec[id].done,
         id \in DOMAIN inBook' <=> id \in DOMAIN inBook,
         id \in DOMAIN inBook => inBook'[id] = inBook[id],
         HandHas(id) => HandHas(id)', Pending(id)' = Pending(id)
  PROVE  OrderGood(id)'
  BY DEF OrderGood

\* A step that leaves orders, book and lists alone, and moves no session into
\* or out of its end and no handler that has an order in hand or is in the book.
LEMMA AsideKeeps ==
  ASSUME FixInv, UNCHANGED <<ordRec, told, traded, byEngine, byClOrdID, inBook, match>>,
         QuoteTable', session' \in [Clients -> {"new", "up", "over", "lost"}],
         \A c \in Clients : session'[c] = "over" <=> session[c] = "over",
         task' = [c \in Clients |-> task'[c]],
         \A c \in Clients : TaskGood(c)',
         \A c \in Clients : task[c].at \in {"place", "cancelled", "placing"} => task'[c] = task[c]
  PROVE  FixInv'
<1>1. FixTypes'
  BY DEF FixInv, FixTypes
<1>2. FillsGood' /\ ListsGood' /\ BookApart'
  BY DEF FixInv, FillsGood, ListsGood, BookApart
<1>3. HolderPlaces'
  BY DEF FixInv, HolderPlaces
<1>4. ASSUME NEW id \in DOMAIN ordRec PROVE OrderGood(id)'
  <2>1. ordRec[id].sess \in Clients /\ OrderGood(id)
    BY DEF FixInv, FixTypes
  <2>2. Gone(id)' <=> Gone(id)
    BY <2>1 DEF Gone
  <2>3. Listed(id)' <=> Listed(id)
    BY DEF Listed
  <2>4. HandHas(id) => HandHas(id)'
    BY <2>1 DEF HandHas
  <2>5. Pending(id)' = Pending(id)
    BY DEF Pending
  <2> QED
    BY <2>1, <2>2, <2>3, <2>4, <2>5, OrderStays
<1> QED
  BY <1>1, <1>2, <1>3, <1>4 DEF FixInv

\* A handler's task stays good as long as nothing it is about changes.
LEMMA TaskStays ==
  ASSUME NEW c, TaskGood(c), task'[c] = task[c], task[c] # NoTask => session'[c] = session[c],
         task[c].at \in {"place", "cancel", "cancelled"} =>
           /\ task[c].id \in DOMAIN ordRec' /\ ordRec'[task[c].id] = ordRec[task[c].id]
           /\ task[c].id \in DOMAIN inBook' => task[c].id \in DOMAIN inBook
           /\ traded'[task[c].id] = traded[task[c].id]
           /\ Pending(task[c].id)' = Pending(task[c].id)
  PROVE  TaskGood(c)'
  BY DEF TaskGood

\* Sessions begin, and may be lost.
LEMMA SessionKeeps ==
  ASSUME FixInv, NEW c \in Clients, OnLogon(c) \/ DropSession(c) PROVE FixInv'
<1>1. /\ UNCHANGED <<ordRec, told, traded, byEngine, byClOrdID, inBook, match, task>>
      /\ UNCHANGED <<quotes, asked, bought>>
      /\ session[c] # "over" /\ session' = [session EXCEPT ![c] = session'[c]]
      /\ session'[c] \in {"up", "lost"} /\ (session[c] = "new" \/ task[c] = NoTask)
  BY DEF OnLogon, DropSession, Ready, FixInv, FixTypes
<1>2. session' \in [Clients -> {"new", "up", "over", "lost"}]
  BY <1>1 DEF FixInv, FixTypes
<1>3. \A d \in Clients : session'[d] = "over" <=> session[d] = "over"
  BY <1>1 DEF FixInv, FixTypes
<1>4. QuoteTable'
  BY <1>1 DEF FixInv, QuoteTable
<1>5. ASSUME NEW d \in Clients PROVE TaskGood(d)'
  <2>1. TaskGood(d) /\ (session'[d] = session[d] \/ task[d] = NoTask)
    BY <1>1 DEF FixInv, FixTypes, TaskGood
  <2>2. task[d].at \in {"place", "cancel", "cancelled"} => task[d].id \in DOMAIN ordRec
    BY <2>1 DEF TaskGood
  <2>3. \A i : Pending(i)' = Pending(i)
    BY <1>1 DEF Pending
  <2> QED
    BY <1>1, <2>1, <2>2, <2>3, TaskStays
<1>6. task' = [d \in Clients |-> task'[d]]
  BY <1>1 DEF FixInv, FixTypes
<1> QED
  BY ONLY <1>1, <1>2, <1>3, <1>4, <1>5, <1>6, FixInv, AsideKeeps

\* A step of the quote table alone.
LEMMA TableKeeps ==
  ASSUME FixInv, QuoteTable',
         UNCHANGED <<session, ordRec, byClOrdID, byEngine, inBook, match, task, told, traded>>
  PROVE  FixInv'
<1>1. session' \in [Clients -> {"new", "up", "over", "lost"}] /\ task' = [d \in Clients |-> task'[d]]
  BY DEF FixInv, FixTypes
<1>2. \A d \in Clients : TaskGood(d)'
  BY DEF FixInv, TaskGood, Pending
<1> QED
  BY <1>1, <1>2, AsideKeeps

\* Quotes are asked for, expire, are confirmed too late, or are taken for an id
\* that is refused.
LEMMA QuotesKeep ==
  ASSUME FixInv, \/ \E c \in Clients : Quote(c)
                 \/ \E q \in DOMAIN quotes : QuoteExpires(q) \/ \E c \in Clients : ConfirmLate(c, q)
  PROVE  FixInv'
<1>1. QuoteTable
  BY DEF FixInv
<1>2. ASSUME NEW c \in Clients, Quote(c) PROVE QuoteTable'
  <2>1. PICK kept : kept = Without(quotes, {q \in DOMAIN quotes : quotes[q].taken \/ ~quotes[q].open})
    OBVIOUS
  <2>2. DOMAIN kept \subseteq DOMAIN quotes /\ \A q \in DOMAIN kept : kept[q] = quotes[q]
    BY <2>1 DEF Without
  <2>3. /\ asked < MaxQuotesAsked /\ asked' = asked + 1 /\ bought' = bought
        /\ \/ quotes' = kept
           \/ quotes' = With(kept, asked + 1, [sess |-> c, open |-> TRUE, taken |-> FALSE])
    BY <1>2, <2>1 DEF Quote
  <2>4. /\ DOMAIN quotes' \subseteq DOMAIN quotes \cup {asked + 1}
        /\ \A q \in DOMAIN quotes' : \/ q \in DOMAIN quotes /\ quotes'[q] = quotes[q]
                                     \/ q = asked + 1 /\ "taken" \in DOMAIN quotes'[q]
    <3>1. asked \in Nat /\ asked + 1 \notin DOMAIN quotes
      BY <1>1, FixAssumption DEF QuoteTable
    <3>2. PICK r : r = [sess |-> c, open |-> TRUE, taken |-> FALSE]
      OBVIOUS
    <3>3. "taken" \in DOMAIN r
      BY ONLY <3>2
    <3>4. CASE quotes' = kept
      BY ONLY <2>2, <3>4
    <3>5. CASE quotes' = With(kept, asked + 1, r)
      BY ONLY <2>2, <3>1, <3>3, <3>5 DEF With
    <3> QED
      BY <2>3, <3>2, <3>4, <3>5
  <2> QED
    BY <1>1, <2>3, <2>4, FixAssumption DEF QuoteTable
<1>3. ASSUME NEW q \in DOMAIN quotes, QuoteExpires(q) PROVE QuoteTable'
  <2>1. /\ UNCHANGED <<asked, bought>> /\ DOMAIN quotes' = DOMAIN quotes
        /\ \A z \in DOMAIN quotes : quotes'[z].taken = quotes[z].taken /\ "taken" \in DOMAIN quotes'[z]
    BY <1>1, <1>3 DEF QuoteExpires, QuoteTable
  <2> QED
    BY <1>1, <2>1 DEF QuoteTable
<1>4. ASSUME NEW q \in DOMAIN quotes, NEW c \in Clients, ConfirmLate(c, q) PROVE QuoteTable'
  <2>1. /\ UNCHANGED <<asked, bought>> /\ DOMAIN quotes' \subseteq DOMAIN quotes
        /\ \A z \in DOMAIN quotes' : quotes'[z] = quotes[z]
    BY <1>4 DEF ConfirmLate, Without
  <2> QED
    BY <1>1, <2>1 DEF QuoteTable
<1>5. QuoteTable'
  BY <1>2, <1>3, <1>4
<1> QED
  BY <1>5, TableKeeps DEF Quote, QuoteExpires, ConfirmLate

\* A handler takes up a cancel, or gives a replacement up.
LEMMA HandlerKeeps ==
  ASSUME FixInv, NEW c \in Clients,
         RejectReplacement(c) \/ \E orig \in ClOrdIDs, replace \in BOOLEAN : OnOrderCancel(c, orig, replace)
  PROVE  FixInv'
<1>1. PICK t : /\ task' = [task EXCEPT ![c] = t]
               /\ \/ t = NoTask
                  \/ /\ t.at = "cancel" /\ {"at", "id"} \subseteq DOMAIN t
                     /\ t.id \in DOMAIN ordRec /\ ordRec[t.id].sess = c
  <2>1. CASE RejectReplacement(c)
    <3>1. task' = [task EXCEPT ![c] = NoTask]
      BY <2>1 DEF RejectReplacement
    <3> QED
      BY ONLY <3>1
  <2>2. ASSUME NEW orig \in ClOrdIDs, NEW replace \in BOOLEAN, OnOrderCancel(c, orig, replace)
        PROVE  \E t : /\ task' = [task EXCEPT ![c] = t]
                      /\ t.at = "cancel" /\ {"at", "id"} \subseteq DOMAIN t
                      /\ t.id \in DOMAIN ordRec /\ ordRec[t.id].sess = c
    <3>1. PICK i : i = byClOrdID[c][orig] /\ orig \in DOMAIN byClOrdID[c]
      BY <2>2 DEF OnOrderCancel
    <3>2. i \in DOMAIN ordRec /\ ordRec[i].sess = c
      BY <3>1 DEF FixInv, ListsGood
    <3>3. PICK t : t = [at |-> "cancel", id |-> i, replace |-> replace, cum |-> ordRec[i].cumQty]
      OBVIOUS
    <3>4. t.at = "cancel" /\ t.id = i /\ {"at", "id"} \subseteq DOMAIN t
      BY <3>3
    <3>5. task' = [task EXCEPT ![c] = t]
      BY <2>2, <3>1, <3>3, Zenon DEF OnOrderCancel
    <3> QED
      BY <3>2, <3>4, <3>5
  <2> QED
    BY <2>1, <2>2
<1>2. /\ UNCHANGED <<session, ordRec, byClOrdID, byEngine, quotes, asked, inBook, match, told, traded, bought>>
      /\ session[c] = "up" /\ task[c].at \in {"idle", "again"}
  <2>1. TaskGood(c)
    BY DEF FixInv
  <2> QED
    BY <2>1 DEF RejectReplacement, OnOrderCancel, Ready, TaskGood, NoTask
<1>3. /\ task' = [d \in Clients |-> task'[d]] /\ task'[c] = t
      /\ \A d \in Clients \ {c} : task'[d] = task[d]
  BY <1>1 DEF FixInv, FixTypes
<1>4. ASSUME NEW d \in Clients PROVE TaskGood(d)'
  <2>1. CASE d = c
    BY <1>1, <1>2, <1>3, <2>1 DEF TaskGood, NoTask
  <2>2. CASE d # c
    <3>1. TaskGood(d) /\ task'[d] = task[d]
      BY <1>3, <2>2 DEF FixInv
    <3> QED
      BY <1>2, <3>1 DEF TaskGood, Pending
  <2> QED
    BY <2>1, <2>2
<1>5. \A d \in Clients : task[d].at \in {"place", "cancelled", "placing"} => task'[d] = task[d]
  BY <1>2, <1>3
<1>6. QuoteTable' /\ session' \in [Clients -> {"new", "up", "over", "lost"}]
  BY <1>2 DEF FixInv, FixTypes, QuoteTable
<1> QED
  BY ONLY <1>2, <1>3, <1>4, <1>5, <1>6, FixInv, AsideKeeps

\* A session ends: its orders' fills go nowhere from now on.
LEMMA LogoutKeeps == ASSUME FixInv, NEW c \in Clients, OnLogout(c) PROVE FixInv'
<1>1. /\ UNCHANGED <<ordRec, quotes, asked, inBook, match, task, told, traded, bought>>
      /\ session[c] = "up" /\ task[c] = NoTask
      /\ session' = [session EXCEPT ![c] = "over"]
      /\ byEngine' = byEngine \ {byClOrdID[c][cl] : cl \in DOMAIN byClOrdID[c]}
      /\ byClOrdID' = [byClOrdID EXCEPT ![c] = <<>>]
  BY DEF OnLogout, Ready
<1>2. /\ session' \in [Clients -> {"new", "up", "over", "lost"}] /\ session'[c] = "over"
      /\ \A d \in Clients \ {c} : session'[d] = session[d]
  BY <1>1 DEF FixInv, FixTypes
<1>3. /\ byClOrdID' = [d \in Clients |-> byClOrdID'[d]] /\ DOMAIN byClOrdID'[c] = {}
      /\ \A d \in Clients \ {c} : byClOrdID'[d] = byClOrdID[d]
  <2>1. PICK e : e = <<>> /\ DOMAIN e = {}
    OBVIOUS
  <2>2. byClOrdID' = [byClOrdID EXCEPT ![c] = e]
    BY <1>1, <2>1
  <2> QED
    BY <2>1, <2>2 DEF FixInv, FixTypes
<1>4. FixTypes'
  BY <1>1, <1>2, <1>3 DEF FixInv, FixTypes
<1>5. FillsGood' /\ QuoteTable' /\ BookApart' /\ HolderPlaces'
  BY <1>1 DEF FixInv, FillsGood, QuoteTable, BookApart, HolderPlaces
<1>6. ListsGood'
  BY <1>1, <1>3 DEF FixInv, ListsGood
<1>7. ASSUME NEW i \in DOMAIN ordRec PROVE OrderGood(i)'
  <2>1. OrderGood(i) /\ ordRec[i].sess \in Clients /\ Pending(i)' = Pending(i)
    BY <1>1 DEF FixInv, FixTypes, Pending
  <2>2. HandHas(i)' <=> HandHas(i)
    BY <1>1 DEF HandHas
  <2>3. CASE ordRec[i].sess = c
    <3>1. ~Gone(i) /\ Gone(i)'
      BY <1>1, <1>2, <2>3 DEF Gone
    <3>2. i \in byEngine => Listed(i)
      BY <2>1, <3>1 DEF OrderGood
    <3>3. i \notin byEngine'
      BY <1>1, <2>3, <3>2 DEF Listed
    <3> QED
      BY <1>1, <2>1, <2>2, <3>1, <3>3 DEF OrderGood
  <2>4. CASE ordRec[i].sess # c
    <3>1. Gone(i)' <=> Gone(i)
      BY <1>1, <1>2, <2>1, <2>4 DEF Gone
    <3>2. Listed(i)' <=> Listed(i)
      BY <1>1, <1>3, <2>1, <2>4 DEF Listed
    <3>3. i \notin {byClOrdID[c][cl] : cl \in DOMAIN byClOrdID[c]}
      BY <2>4 DEF FixInv, ListsGood
    <3> QED
      BY <1>1, <2>1, <2>2, <3>1, <3>2, <3>3, OrderStays
  <2> QED
    BY <2>3, <2>4
<1>8. ASSUME NEW d \in Clients PROVE TaskGood(d)'
  <2>1. TaskGood(d) /\ (task[d] # NoTask => session'[d] = session[d])
    BY <1>1, <1>2 DEF FixInv
  <2>2. \A i : Pending(i)' = Pending(i)
    BY <1>1 DEF Pending
  <2>3. task[d].at \in {"place", "cancel", "cancelled"} => task[d].id \in DOMAIN ordRec
    BY <2>1 DEF TaskGood
  <2> QED
    BY <1>1, <2>1, <2>2, <2>3, TaskStays
<1> QED
  BY <1>1, <1>4, <1>5, <1>6, <1>7, <1>8 DEF FixInv

\* A cancel takes the order out of the book, or finds it gone.
LEMMA EngineCancelKeeps == ASSUME FixInv, NEW c \in Clients, EngineCancel(c) PROVE FixInv'
<1>1. PICK id : id = task[c].id
  OBVIOUS
<1>2. /\ UNCHANGED <<session, ordRec, byClOrdID, byEngine, quotes, asked, match, told, traded, bought>>
      /\ task[c].at = "cancel" /\ match = NoMatch /\ inBook' = Without(inBook, {id})
      /\ \/ id \in DOMAIN inBook /\ task' = [task EXCEPT ![c].at = "cancelled"]
         \/ id \notin DOMAIN inBook /\ task' = [task EXCEPT ![c] = NoTask]
  BY <1>1 DEF EngineCancel
<1>3. id \in DOMAIN ordRec /\ ordRec[id].sess = c /\ session[c] = "up" /\ OrderGood(id)
  BY <1>1, <1>2 DEF FixInv, TaskGood, NoTask
<1>4. /\ DOMAIN inBook' = DOMAIN inBook \ {id} /\ \A i \in DOMAIN inBook' : inBook'[i] = inBook[i]
      /\ inBook' = [i \in DOMAIN inBook' |-> inBook'[i]]
  BY <1>2 DEF Without
<1>5. match.fills = <<>> /\ match.by = "nobody"
  BY <1>2 DEF NoMatch
<1>6. /\ \A d \in Clients \ {c} : task'[d] = task[d]
      /\ id \in DOMAIN inBook =>
           task'[c].at = "cancelled" /\ task'[c].id = id /\ {"at", "id"} \subseteq DOMAIN task'[c]
      /\ task' = [d \in Clients |-> task'[d]]
      /\ id \notin DOMAIN inBook => task'[c] = NoTask
  <2>1. task = [d \in Clients |-> task[d]]
    BY DEF FixInv, FixTypes
  <2>2. CASE id \notin DOMAIN inBook
    BY <1>2, <2>1, <2>2
  <2>3. CASE id \in DOMAIN inBook
    <3>1. PICK t : t = task[c] /\ {"at", "id"} \subseteq DOMAIN t /\ t.id = id
      BY <1>1, <1>2 DEF FixInv, TaskGood
    <3>2. PICK u : u = [t EXCEPT !.at = "cancelled"]
      OBVIOUS
    <3>3. u.at = "cancelled" /\ u.id = id /\ {"at", "id"} \subseteq DOMAIN u
      BY ONLY <3>1, <3>2
    <3>4. task' = [task EXCEPT ![c] = u]
      BY <1>2, <2>3, <3>1, <3>2
    <3> QED
      BY ONLY <2>1, <2>3, <3>3, <3>4, c \in Clients
  <2> QED
    BY <2>2, <2>3
<1>7. FixTypes'
  <2>1. inBook' \in [DOMAIN inBook' -> Nat \ {0}] /\ DOMAIN inBook' \subseteq DOMAIN ordRec
    BY <1>4 DEF FixInv, FixTypes
  <2> QED
    BY <1>2, <1>6, <2>1 DEF FixInv, FixTypes
<1>8. FillsGood' /\ QuoteTable' /\ ListsGood' /\ BookApart'
  <2>1. FillsGood' /\ QuoteTable' /\ ListsGood'
    BY <1>2 DEF FixInv, FillsGood, QuoteTable, ListsGood
  <2>2. BookApart'
    BY <1>2, <1>4 DEF FixInv, BookApart
  <2> QED
    BY <2>1, <2>2
<1>9. HolderPlaces'
  BY <1>2, <1>5, FixAssumption DEF HolderPlaces
<1>10. \A i : Pending(i)' = Pending(i) /\ Pending(i) = 0
  <2>1. match.fills = <<>> /\ Len(match.fills) = 0 /\ match' = match
    BY <1>2, <1>5
  <2> QED
    BY <2>1 DEF Pending
<1>11. ASSUME NEW i \in DOMAIN ordRec PROVE OrderGood(i)'
  <2>1. OrderGood(i) /\ ordRec[i].sess \in Clients
    BY DEF FixInv, FixTypes
  <2>2. (Gone(i)' <=> Gone(i)) /\ (Listed(i)' <=> Listed(i))
    BY <1>2 DEF Gone, Listed
  <2>3. CASE i # id
    <3>1. HandHas(i) => HandHas(i)'
      BY <1>2, <1>6, <2>1 DEF HandHas
    <3>2. (i \in DOMAIN inBook' <=> i \in DOMAIN inBook) /\ (i \in DOMAIN inBook => inBook'[i] = inBook[i])
      BY <1>4, <2>3
    <3> QED
      BY <1>2, <1>10, <2>1, <2>2, <3>1, <3>2, OrderStays
  <2>4. CASE i = id
    <3>1. i \in DOMAIN inBook => HandHas(i)'
      BY <1>2, <1>3, <1>6, <2>4 DEF HandHas
    <3>2. ~HandHas(i)
      BY <1>2, <1>3, <2>4 DEF HandHas
    <3> QED
      BY <1>2, <1>4, <1>10, <2>1, <2>2, <2>4, <3>1, <3>2 DEF OrderGood
  <2> QED
    BY <2>3, <2>4
<1>12. ASSUME NEW d \in Clients PROVE TaskGood(d)'
  <2>1. TaskGood(d)
    BY DEF FixInv
  <2>2. CASE d # c
    BY <1>2, <1>4, <1>10, <1>6, <2>1, <2>2, TaskStays DEF TaskGood
  <2>3. CASE d = c /\ id \notin DOMAIN inBook
    BY <1>6, <2>3 DEF TaskGood, NoTask
  <2>4. CASE d = c /\ id \in DOMAIN inBook
    <3>1. ~ordRec[id].done
      BY <1>3, <2>4 DEF OrderGood
    <3> QED
      BY <1>2, <1>3, <1>4, <1>10, <1>6, <2>4, <3>1 DEF TaskGood, NoTask
  <2> QED
    BY <2>2, <2>3, <2>4
<1> QED
  BY <1>2, <1>7, <1>8, <1>9, <1>11, <1>12 DEF FixInv

\* The call leaves the book.
LEMMA ReturnKeeps == ASSUME FixInv, BookReturns PROVE FixInv'
<1>1. /\ UNCHANGED <<session, ordRec, byClOrdID, byEngine, quotes, asked, inBook, told, traded, bought>>
      /\ match.fills = <<>> /\ match' = NoMatch
      /\ task' = IF match.by \in Clients THEN [task EXCEPT ![match.by] = NoTask] ELSE task
  BY DEF BookReturns
<1>2. match'.fills = <<>> /\ match'.by = "nobody"
  BY <1>1 DEF NoMatch
<1>3. FillsGood' /\ HolderPlaces'
  <2>1. match'.fills \in Seq((DOMAIN ordRec') \X (Nat \ {0})) /\ Len(match'.fills) = 0
    BY <1>2, EmptySeq
  <2> QED
    BY <1>1, <1>2, <2>1, FixAssumption DEF FillsGood, HolderPlaces, NoMatch
<1>4. \A i : Pending(i)' = Pending(i)
  <2>1. Len(match.fills) = 0 /\ Len(match'.fills) = 0
    BY <1>1, <1>2
  <2> QED
    BY <1>1, <1>2, <2>1 DEF Pending
<1>5. /\ task' = [d \in Clients |-> task'[d]]
      /\ \A d \in Clients : task'[d] = task[d] \/ (task[d].at = "placing" /\ task'[d] = NoTask)
  BY <1>1 DEF FixInv, FixTypes, HolderPlaces
<1>6. FixTypes' /\ QuoteTable' /\ ListsGood' /\ BookApart'
  BY <1>1, <1>5 DEF FixInv, FixTypes, QuoteTable, ListsGood, BookApart
<1>7. ASSUME NEW i \in DOMAIN ordRec PROVE OrderGood(i)'
  <2>1. OrderGood(i) /\ ordRec[i].sess \in Clients
    BY DEF FixInv, FixTypes
  <2>2. (Gone(i)' <=> Gone(i)) /\ (Listed(i)' <=> Listed(i))
    BY <1>1 DEF Gone, Listed
  <2>3. HandHas(i) => HandHas(i)'
    BY <1>1, <1>5, <2>1 DEF HandHas
  <2> QED
    BY <1>1, <1>4, <2>1, <2>2, <2>3, OrderStays
<1>8. ASSUME NEW d \in Clients PROVE TaskGood(d)'
  <2>1. TaskGood(d)
    BY DEF FixInv
  <2>2. CASE task'[d] = task[d]
    BY <1>1, <1>4, <2>1, <2>2, TaskStays DEF TaskGood
  <2>3. CASE task'[d] = NoTask
    BY <2>3 DEF TaskGood, NoTask
  <2> QED
    BY <1>5, <2>2, <2>3
<1> QED
  BY <1>1, <1>3, <1>6, <1>7, <1>8 DEF FixInv

\* An order is registered: its id is new, and its session's list leads to it.
LEMMA RegisterKeeps ==
  ASSUME FixInv, NEW c \in Clients, NEW cl, NEW kind, NEW size \in Sizes, Register(c, cl, kind, size),
         session[c] = "up", task[c].at \notin {"place", "cancelled", "placing"},
         UNCHANGED <<session, inBook, match>>, QuoteTable'
  PROVE  FixInv'
<1>1. PICK n \in Nat, x \in Nat : DOMAIN ordRec = 1..n /\ x = n + 1 /\ x = NewId /\ DOMAIN ordRec \cup {x} = 1..x
  <2>1. PICK n \in Nat : DOMAIN ordRec = 1..n
    BY DEF FixInv, FixTypes
  <2>2. Cardinality(1..n) = n
    BY ONLY n \in Nat, FS_Interval
  <2> QED
    BY <2>1, <2>2 DEF NewId
<1>2. PICK r : r = [sess |-> c, clOrdID |-> cl, kind |-> kind, orderQty |-> size,
                    cumQty |-> 0, done |-> FALSE, replaced |-> FALSE]
  OBVIOUS
<1>3. /\ r.sess = c /\ r.clOrdID = cl /\ r.kind = kind /\ r.orderQty = size /\ r.cumQty = 0
      /\ ~r.done /\ ~r.replaced /\ r = OrderRecord(r)
  BY ONLY <1>2 DEF OrderRecord
<1>4. size \in Nat \ {0}
  BY FixAssumption
<1>5. /\ DOMAIN ordRec' = 1..x /\ ordRec'[x] = r /\ \A i \in DOMAIN ordRec : ordRec'[i] = ordRec[i]
      /\ ordRec' = [i \in DOMAIN ordRec' |-> ordRec'[i]]
  <2>1. ordRec' = With(ordRec, x, r)
    BY <1>1, <1>2 DEF Register
  <2> QED
    BY ONLY <1>1, <2>1 DEF With
<1>6. PICK z : z = [status |-> "NEW", cum |-> 0] /\ z \in [status : Statuses, cum : Nat]
               /\ z.status = "NEW" /\ z.cum = 0
  <2>1. "NEW" \in Statuses
    BY DEF Statuses
  <2>2. PICK z : z = [status |-> "NEW", cum |-> 0]
    OBVIOUS
  <2>3. z.status = "NEW" /\ z.cum = 0 /\ z \in [status : Statuses, cum : Nat]
    BY ONLY <2>1, <2>2
  <2> QED
    BY ONLY <2>2, <2>3
<1>7. /\ told' \in [1..x -> [status : Statuses, cum : Nat]] /\ told'[x] = z
      /\ \A i \in DOMAIN ordRec : told'[i] = told[i]
  <2>1. told' = With(told, x, z) /\ told \in [1..n -> [status : Statuses, cum : Nat]]
    BY <1>1, <1>6 DEF Register, FixInv, FixTypes
  <2> QED
    BY ONLY <1>1, <1>6, <2>1 DEF With
<1>8. /\ traded' \in [1..x -> Nat] /\ traded'[x] = 0
      /\ \A i \in DOMAIN ordRec : traded'[i] = traded[i]
  <2>1. traded' = With(traded, x, 0) /\ traded \in [1..n -> Nat]
    BY <1>1 DEF Register, FixInv, FixTypes
  <2> QED
    BY ONLY <1>1, <2>1 DEF With
<1>9. /\ byClOrdID' = [d \in Clients |-> byClOrdID'[d]] /\ cl \notin DOMAIN byClOrdID[c]
      /\ DOMAIN byClOrdID'[c] = DOMAIN byClOrdID[c] \cup {cl} /\ byClOrdID'[c][cl] = x
      /\ \A k \in DOMAIN byClOrdID[c] : byClOrdID'[c][k] = byClOrdID[c][k]
      /\ \A d \in Clients \ {c} : byClOrdID'[d] = byClOrdID[d]
  <2>1. PICK l : l = byClOrdID[c]
    OBVIOUS
  <2>2. byClOrdID' = [byClOrdID EXCEPT ![c] = With(l, cl, x)] /\ cl \notin DOMAIN l
    BY <1>1, <2>1 DEF Register
  <2>3. PICK w : w = With(l, cl, x)
    OBVIOUS
  <2>4. DOMAIN w = DOMAIN l \cup {cl} /\ w[cl] = x /\ \A k \in DOMAIN l : k # cl => w[k] = l[k]
    BY ONLY <2>3 DEF With
  <2> QED
    BY <2>1, <2>2, <2>3, <2>4 DEF FixInv, FixTypes
<1>10. /\ task' = [d \in Clients |-> task'[d]] /\ task'[c].at = "place" /\ task'[c].id = x
       /\ {"at", "id"} \subseteq DOMAIN task'[c]
       /\ \A d \in Clients \ {c} : task'[d] = task[d]
  <2>1. PICK t : t = [at |-> "place", id |-> x]
    OBVIOUS
  <2>2. task' = [task EXCEPT ![c] = t] /\ t.at = "place" /\ t.id = x /\ {"at", "id"} \subseteq DOMAIN t
    BY <1>1, <2>1 DEF Register
  <2> QED
    BY <2>2 DEF FixInv, FixTypes
<1>11. byEngine' = byEngine \cup {x}
  BY <1>1 DEF Register
<1>12. x \notin DOMAIN ordRec
  BY <1>1
<1>13. FixTypes'
  <2>1. \A i \in DOMAIN ordRec' : i \in DOMAIN ordRec \/ i = x
    BY <1>1, <1>5
  <2>2. \A i \in DOMAIN ordRec' : ordRec'[i] = OrderRecord(ordRec'[i])
    BY <1>3, <1>5, <2>1 DEF FixInv, FixTypes
  <2>3. \A i \in DOMAIN ordRec' : /\ ordRec'[i].sess \in Clients
                                  /\ ordRec'[i].orderQty \in Nat \ {0} /\ ordRec'[i].cumQty \in Nat
    BY <1>3, <1>4, <1>5, <2>1 DEF FixInv, FixTypes
  <2>4. byEngine' \subseteq DOMAIN ordRec' /\ DOMAIN inBook' \subseteq DOMAIN ordRec'
    BY <1>1, <1>5, <1>11 DEF FixInv, FixTypes
  <2> QED
    BY <1>5, <1>7, <1>8, <1>9, <1>10, <2>2, <2>3, <2>4 DEF FixInv, FixTypes
<1>14. FillsGood'
  <2>1. \A k \in 1..Len(match.fills) : match.fills[k][1] \in DOMAIN ordRec
    BY ElementOfSeq DEF FixInv, FillsGood
  <2>2. (DOMAIN ordRec) \X (Nat \ {0}) \subseteq (DOMAIN ordRec') \X (Nat \ {0})
    BY <1>1, <1>5
  <2>3. match.fills \in Seq((DOMAIN ordRec') \X (Nat \ {0}))
    BY <2>2 DEF FixInv, FillsGood
  <2> QED
    BY <1>5, <2>1, <2>3 DEF FixInv, FillsGood
<1>15. ListsGood'
  BY <1>1, <1>3, <1>5, <1>9 DEF FixInv, ListsGood
<1>16. BookApart' /\ HolderPlaces'
  <2>1. \A i \in DOMAIN inBook : i \in DOMAIN ordRec
    BY DEF FixInv, FixTypes
  <2>2. BookApart'
    BY <1>5, <2>1 DEF FixInv, BookApart
  <2>3. HolderPlaces'
    BY <1>10 DEF FixInv, HolderPlaces
  <2> QED
    BY <2>2, <2>3
<1>17. \A i : Pending(i)' = Pending(i)
  BY DEF Pending
<1>18. Pending(x) = 0
  <2>1. \A k \in 1..Len(match.fills) : match.fills[k][1] # x
    BY <1>12, ElementOfSeq DEF FixInv, FillsGood
  <2>2. Len(match.fills) \in Nat /\ (match.fills # <<>> => Len(match.fills) > 0)
    BY EmptySeq DEF FixInv, FillsGood
  <2> QED
    BY <2>1, <2>2 DEF Pending
<1>19. ASSUME NEW i \in DOMAIN ordRec PROVE OrderGood(i)'
  <2>1. OrderGood(i) /\ ordRec[i].sess \in Clients /\ i # x
    BY <1>12 DEF FixInv, FixTypes
  <2>2. (Gone(i)' <=> Gone(i))
    BY <1>5 DEF Gone
  <2>3. Listed(i) => Listed(i)'
    BY <1>5, <1>9, <2>1 DEF Listed
  <2>4. HandHas(i) => HandHas(i)'
    BY <1>5, <1>10, <2>1 DEF HandHas
  <2> QED
    BY <1>5, <1>7, <1>8, <1>11, <1>17, <2>1, <2>2, <2>3, <2>4, OrderStays
<1>20. OrderGood(x)'
  <2>1. ~Gone(x)' /\ Listed(x)' /\ HandHas(x)'
    BY <1>3, <1>5, <1>9, <1>10 DEF Gone, Listed, HandHas
  <2>2. x \notin DOMAIN inBook'
    BY <1>12 DEF FixInv, FixTypes
  <2> QED
    BY <1>3, <1>4, <1>5, <1>6, <1>7, <1>8, <1>11, <1>17, <1>18, <2>1, <2>2 DEF OrderGood, Ended
<1>21. ASSUME NEW d \in Clients PROVE TaskGood(d)'
  <2>1. CASE d = c
    <3>1. x \notin DOMAIN inBook'
      BY <1>12 DEF FixInv, FixTypes
    <3> QED
      BY <1>1, <1>3, <1>5, <1>8, <1>10, <2>1, <3>1 DEF TaskGood
  <2>2. CASE d # c
    <3>1. TaskGood(d) /\ task'[d] = task[d]
      BY <1>10, <2>2 DEF FixInv
    <3> QED
      BY <1>1, <1>5, <1>8, <1>17, <3>1, TaskStays DEF TaskGood
  <2> QED
    BY <2>1, <2>2
<1> QED
  BY <1>1, <1>5, <1>13, <1>14, <1>15, <1>16, <1>19, <1>20, <1>21 DEF FixInv

\* A new order, or the replacement of a cancelled one.
LEMMA NewOrderKeeps ==
  ASSUME FixInv, NEW c \in Clients, NEW cl \in ClOrdIDs, NEW kind \in {"limit", "market"}, NEW size \in Sizes,
         OnNewOrderSingle(c, cl, kind, size)
  PROVE  FixInv'
<1>1. Register(c, cl, kind, size) /\ UNCHANGED <<session, inBook, match>> /\ QuoteTable'
  BY DEF OnNewOrderSingle, FixInv, QuoteTable
<1>2. session[c] = "up" /\ task[c].at \notin {"place", "cancelled", "placing"}
  BY DEF OnNewOrderSingle, Ready, FixInv, TaskGood, NoTask
<1> QED
  BY <1>1, <1>2, RegisterKeeps

\* A quote is taken, and becomes an order unless its client id is in use.
LEMMA ExecuteKeeps ==
  ASSUME FixInv, NEW c \in Clients, NEW q \in DOMAIN quotes, NEW cl \in ClOrdIDs, NEW size \in Sizes,
         ExecuteQuoted(c, q, cl, size)
  PROVE  FixInv'
<1>1. /\ quotes' = [quotes EXCEPT ![q].taken = TRUE] /\ asked' = asked /\ ~quotes[q].taken
      /\ session[c] = "up" /\ task[c].at = "idle" /\ UNCHANGED <<session, inBook, match>>
  BY DEF ExecuteQuoted, Ready, Usable, NoTask
<1>2. /\ DOMAIN quotes' = DOMAIN quotes /\ QuoteTable /\ q \in 1..MaxQuotesAsked
      /\ \A z \in DOMAIN quotes : z # q => quotes'[z] = quotes[z]
  BY <1>1, FixAssumption DEF FixInv, QuoteTable
<1>3. bought[q] = 0 /\ bought \in [1..MaxQuotesAsked -> 0..1] /\ q <= asked /\ q \in Nat
  BY <1>1, <1>2, FixAssumption DEF QuoteTable
<1>4. quotes'[q].taken /\ "taken" \in DOMAIN quotes'[q]
  <2>1. PICK r : r = quotes[q] /\ "taken" \in DOMAIN r
    BY <1>2 DEF QuoteTable
  <2>2. PICK s : s = [r EXCEPT !.taken = TRUE]
    OBVIOUS
  <2>3. s.taken /\ "taken" \in DOMAIN s
    BY ONLY <2>1, <2>2
  <2> QED
    BY <1>1, <2>1, <2>2, <2>3
<1>5. CASE UNCHANGED <<ordRec, byClOrdID, byEngine, told, traded, task, bought>>
  <2>1. QuoteTable'
    BY <1>1, <1>2, <1>3, <1>5 DEF QuoteTable
  <2> QED
    BY <1>1, <1>5, <2>1, TableKeeps
<1>6. CASE Register(c, cl, "limit", size) /\ bought' = [bought EXCEPT ![q] = @ + 1]
  <2>1. bought' \in [1..MaxQuotesAsked -> 0..1] /\ \A z \in 1..MaxQuotesAsked : z # q => bought'[z] = bought[z]
    BY <1>2, <1>3, <1>6
  <2>2. QuoteTable'
    BY <1>1, <1>2, <1>3, <1>4, <2>1 DEF QuoteTable
  <2> QED
    BY <1>1, <1>6, <2>2, RegisterKeeps
<1> QED
  BY <1>5, <1>6 DEF ExecuteQuoted

\* An order of which nothing is pending is not among the fills to be told.
LEMMA PendingNone ==
  ASSUME FillsGood, NEW id, Pending(id) = 0
  PROVE  \A k \in 1..Len(match.fills) : match.fills[k][1] # id
<1>1. PICK f, S : f = match.fills /\ S = DOMAIN ordRec
  OBVIOUS
<1>2. f \in Seq(S \X (Nat \ {0})) /\ Len(f) <= 2 /\ Len(f) \in Nat
  BY <1>1, LenProperties DEF FillsGood
<1>3. \A k \in 1..Len(f) : f[k] \in S \X (Nat \ {0})
  BY ONLY <1>2, ElementOfSeq
<1>4. \A k \in 1..Len(f) : f[k][2] \in Nat \ {0}
  BY <1>3
<1>5. Len(f) >= 1 => f # <<>> /\ f[1][1] # id
  BY <1>2, <1>4, <1>1 DEF Pending
<1>6. Len(f) = 2 => f[2][1] # id
  BY <1>2, <1>4, <1>5, <1>1 DEF Pending
<1> QED
  BY <1>1, <1>2, <1>5, <1>6

\* What is pending is a quantity.
LEMMA PendingNat == ASSUME FillsGood, NEW id PROVE Pending(id) \in Nat
<1>1. \A k \in 1..Len(match.fills) : match.fills[k] \in (DOMAIN ordRec) \X (Nat \ {0})
  BY ElementOfSeq DEF FillsGood
<1>2. match.fills # <<>> => Len(match.fills) \in Nat /\ Len(match.fills) > 0
  BY EmptySeq DEF FillsGood
<1> QED
  BY <1>1, <1>2 DEF Pending

\* The record u of an order that has ended, as it was before.
EndsAs(u, o) ==
    /\ u.sess = o.sess /\ u.clOrdID = o.clOrdID /\ u.kind = o.kind /\ u.orderQty = o.orderQty
    /\ u.cumQty = o.cumQty /\ u.done /\ u = OrderRecord(u)

\* Setting done, with or without replaced, ends a record and changes no more.
LEMMA RecordEnds ==
  ASSUME FixInv, NEW id \in DOMAIN ordRec, NEW u,
         u = [ordRec[id] EXCEPT !.done = TRUE] \/ u = [ordRec[id] EXCEPT !.done = TRUE, !.replaced = TRUE]
  PROVE  EndsAs(u, ordRec[id])
<1>1. PICK o : o = ordRec[id] /\ o = OrderRecord(o)
  BY DEF FixInv, FixTypes
<1>2. u = [o EXCEPT !.done = TRUE] \/ u = [o EXCEPT !.done = TRUE, !.replaced = TRUE]
  BY <1>1
<1>3. EndsAs(u, o)
  BY ONLY <1>1, <1>2 DEF OrderRecord, EndsAs
<1> QED
  BY <1>1, <1>3

\* A handler ends the order it has in hand: it was refused, or taken out of the
\* book for a cancel or a replacement.
EndsOrder(c, id, u, t) ==
    /\ id = task[c].id /\ task[c].at \in {"place", "cancelled"} /\ EndsAs(u, ordRec[id])
    /\ ordRec' = [ordRec EXCEPT ![id] = u] /\ byEngine' = byEngine \ {id}
    /\ told' \in [DOMAIN ordRec -> [status : Statuses, cum : Nat]]
    /\ \A i \in DOMAIN ordRec : i # id => told'[i] = told[i]
    /\ told'[id].cum = ordRec[id].cumQty
    /\ u.replaced \/ told'[id].status \in Ended
    /\ t.at \in {"idle", "again"} /\ (t.at = "idle" => t = NoTask)
    /\ task' = [task EXCEPT ![c] = t]
    /\ byClOrdID' = [d \in Clients |-> byClOrdID'[d]]
    /\ \A d \in Clients \ {c} : byClOrdID'[d] = byClOrdID[d]
    /\ \A k \in DOMAIN byClOrdID'[c] : k \in DOMAIN byClOrdID[c] /\ byClOrdID'[c][k] = byClOrdID[c][k]
    /\ \A k \in DOMAIN byClOrdID[c] : k \in DOMAIN byClOrdID'[c] \/ byClOrdID[c][k] = id
    /\ UNCHANGED <<session, quotes, asked, inBook, match, traded, bought>>

\* Ending an order keeps registry, book and reports together.
LEMMA EndKeeps ==
  ASSUME FixInv, NEW c \in Clients, NEW id, NEW u, NEW t, EndsOrder(c, id, u, t)
  PROVE  FixInv'
<1> USE DEF EndsOrder
<1>1. /\ session[c] = "up" /\ id \in DOMAIN ordRec /\ ordRec[id].sess = c /\ ~ordRec[id].done
      /\ id \notin DOMAIN inBook /\ OrderGood(id)
  BY DEF FixInv, TaskGood, NoTask
<1>2. ordRec[id] = OrderRecord(ordRec[id])
  BY <1>1 DEF FixInv, FixTypes
<1>3. /\ u.sess = c /\ u.clOrdID = ordRec[id].clOrdID /\ u.kind = ordRec[id].kind /\ u.orderQty = ordRec[id].orderQty
      /\ u.cumQty = ordRec[id].cumQty /\ u.done /\ u = OrderRecord(u)
  BY <1>1 DEF EndsAs
<1>4. /\ DOMAIN ordRec' = DOMAIN ordRec /\ ordRec'[id] = u /\ \A i \in DOMAIN ordRec : i # id => ordRec'[i] = ordRec[i]
      /\ ordRec' = [i \in DOMAIN ordRec' |-> ordRec'[i]]
  BY <1>1
<1>5. Pending(id) = 0
  <2>1. CASE task[c].at = "cancelled"
    BY <2>1 DEF FixInv, TaskGood
  <2>2. CASE task[c].at = "place"
    <3>1. traded[id] = 0 /\ ~Gone(id) /\ traded[id] = ordRec[id].cumQty + Pending(id) /\ ordRec[id].cumQty \in Nat
      BY <1>1, <2>2 DEF FixInv, FixTypes, TaskGood, OrderGood, Gone
    <3>2. Pending(id) \in Nat
      BY PendingNat DEF FixInv
    <3> QED
      BY <3>1, <3>2
  <2> QED
    BY <2>1, <2>2
<1>6. \A k \in 1..Len(match.fills) : match.fills[k][1] # id
  BY <1>5, PendingNone DEF FixInv
<1>7. /\ task' = [d \in Clients |-> task'[d]] /\ task'[c] = t
      /\ \A d \in Clients \ {c} : task'[d] = task[d]
  BY DEF FixInv, FixTypes
<1>8. FixTypes'
  <2>1. \A i \in DOMAIN ordRec' : ordRec'[i] = OrderRecord(ordRec'[i])
    BY <1>3, <1>4 DEF FixInv, FixTypes
  <2>2. \A i \in DOMAIN ordRec' : /\ ordRec'[i].sess \in Clients
                                  /\ ordRec'[i].orderQty \in Nat \ {0} /\ ordRec'[i].cumQty \in Nat
    BY <1>1, <1>3, <1>4 DEF FixInv, FixTypes
  <2> QED
    BY <1>4, <1>7, <2>1, <2>2 DEF FixInv, FixTypes
<1>9. FillsGood'
  <2>1. \A k \in 1..Len(match.fills) : match.fills[k][1] \in DOMAIN ordRec
    BY ElementOfSeq DEF FixInv, FillsGood
  <2> QED
    BY <1>4, <1>6, <2>1 DEF FixInv, FillsGood
<1>10. QuoteTable' /\ ListsGood' /\ BookApart' /\ HolderPlaces'
  <2>1. QuoteTable'
    BY DEF FixInv, QuoteTable
  <2>2. ListsGood'
    BY <1>1, <1>3, <1>4 DEF FixInv, ListsGood
  <2>3. BookApart'
    <3>1. \A i \in DOMAIN inBook : ordRec'[i] = ordRec[i]
      BY <1>1, <1>4 DEF FixInv, FixTypes
    <3> QED
      BY <3>1 DEF FixInv, BookApart
  <2>4. HolderPlaces'
    BY <1>7 DEF FixInv, HolderPlaces
  <2> QED
    BY <2>1, <2>2, <2>3, <2>4
<1>11. \A i : Pending(i)' = Pending(i)
  BY DEF Pending
<1>12. ASSUME NEW i \in DOMAIN ordRec PROVE OrderGood(i)'
  <2>1. OrderGood(i) /\ ordRec[i].sess \in Clients
    BY DEF FixInv, FixTypes
  <2>2. Gone(i)' <=> Gone(i)
    BY <1>1, <1>3, <1>4 DEF Gone
  <2>3. CASE i # id
    <3>1. Listed(i) => Listed(i)'
      BY <1>4, <2>1, <2>3 DEF Listed
    <3>2. HandHas(i) => HandHas(i)'
      BY <1>4, <1>7, <2>1, <2>3 DEF HandHas
    <3> QED
      BY <1>4, <1>11, <2>1, <2>2, <2>3, <3>1, <3>2, OrderStays
  <2>4. CASE i = id
    BY <1>1, <1>3, <1>4, <1>5, <1>11, <2>1, <2>2, <2>4 DEF OrderGood
  <2> QED
    BY <2>3, <2>4
<1>13. ASSUME NEW d \in Clients PROVE TaskGood(d)'
  <2>1. TaskGood(d)
    BY DEF FixInv
  <2>2. CASE d # c
    BY <1>1, <1>4, <1>7, <1>11, <2>1, <2>2, TaskStays DEF TaskGood
  <2>3. CASE d = c
    BY <1>1, <1>7, <2>3 DEF TaskGood
  <2> QED
    BY <2>2, <2>3
<1> QED
  BY <1>4, <1>8, <1>9, <1>10, <1>12, <1>13 DEF FixInv

\* What EndKeeps asks of the answer that ends an order.
LEMMA AnswerTold ==
  ASSUME FixInv, NEW id \in DOMAIN ordRec, NEW s \in Ended, NEW k \in Nat,
         told' = [told EXCEPT ![id] = [status |-> s, cum |-> k]]
  PROVE  /\ told' \in [DOMAIN ordRec -> [status : Statuses, cum : Nat]]
         /\ \A i \in DOMAIN ordRec : i # id => told'[i] = told[i]
         /\ told'[id].cum = k /\ told'[id].status = s
<1>1. s \in Statuses
  BY DEF Statuses
<1>2. told \in [DOMAIN ordRec -> [status : Statuses, cum : Nat]]
  BY DEF FixInv, FixTypes
<1> QED
  BY <1>1, <1>2

\* The engine refuses the order.
LEMMA RefusedKeeps == ASSUME FixInv, NEW c \in Clients, Refused(c) PROVE FixInv'
<1>1. PICK id : id = task[c].id
  OBVIOUS
<1>2. PICK u : u = [ordRec[id] EXCEPT !.done = TRUE]
  OBVIOUS
<1>3. /\ task[c].at \in {"place", "cancelled"} /\ task[c].at = "place"
      /\ ordRec' = [ordRec EXCEPT ![id] = u] /\ byEngine' = byEngine \ {id}
      /\ byClOrdID' = [byClOrdID EXCEPT ![c] = Without(@, {ordRec[id].clOrdID})]
      /\ told' = [told EXCEPT ![id] = [status |-> "REJECTED", cum |-> 0]]
      /\ task' = [task EXCEPT ![c] = NoTask]
      /\ UNCHANGED <<session, quotes, asked, inBook, match, traded, bought>>
  BY <1>1, <1>2 DEF Refused
<1>a. PICK t : t = NoTask /\ t.at \in {"idle", "again"} /\ (t.at = "idle" => t = NoTask)
  BY DEF NoTask
<1>b. task' = [task EXCEPT ![c] = t]
  BY <1>3, <1>a
<1>4. /\ id \in DOMAIN ordRec /\ ordRec[id].sess = c /\ session[c] = "up" /\ ~ordRec[id].done /\ OrderGood(id)
      /\ traded[id] = 0
  BY <1>1, <1>3 DEF FixInv, TaskGood, NoTask
<1>5. told'[id].cum = ordRec[id].cumQty
  <2>1. traded[id] = ordRec[id].cumQty + Pending(id) /\ ordRec[id].cumQty \in Nat
    BY <1>4 DEF OrderGood, Gone, FixInv, FixTypes
  <2>2. Pending(id) \in Nat
    BY PendingNat DEF FixInv
  <2>3. told'[id].cum = 0
    BY <1>3, <1>4, AnswerTold DEF Ended
  <2> QED
    BY <1>4, <2>1, <2>2, <2>3
<1>6. /\ told' \in [DOMAIN ordRec -> [status : Statuses, cum : Nat]]
      /\ \A i \in DOMAIN ordRec : i # id => told'[i] = told[i]
      /\ told'[id].status \in Ended
  <2>1. "REJECTED" \in Ended
    BY DEF Ended
  <2> QED
    BY ONLY <1>3, <1>4, <2>1, 0 \in Nat, FixInv, AnswerTold
<1>7. /\ byClOrdID' = [d \in Clients |-> byClOrdID'[d]]
      /\ \A d \in Clients \ {c} : byClOrdID'[d] = byClOrdID[d]
      /\ \A k \in DOMAIN byClOrdID'[c] : k \in DOMAIN byClOrdID[c] /\ byClOrdID'[c][k] = byClOrdID[c][k]
      /\ \A k \in DOMAIN byClOrdID[c] : k \in DOMAIN byClOrdID'[c] \/ k = ordRec[id].clOrdID
  BY <1>3 DEF FixInv, FixTypes, Without
<1>8. byClOrdID[c][ordRec[id].clOrdID] = id
  BY <1>4 DEF OrderGood, Gone, Listed
<1>9. \A k \in DOMAIN byClOrdID[c] : k \in DOMAIN byClOrdID'[c] \/ byClOrdID[c][k] = id
  BY <1>7, <1>8
<1> QED
  <2>1. EndsAs(u, ordRec[id])
    BY <1>2, <1>4, RecordEnds
  <2>7. EndsOrder(c, id, u, t)
    BY <1>1, <2>1, <1>3, <1>a, <1>b, <1>5, <1>6, <1>7, <1>9 DEF EndsOrder
  <2> QED
    BY <2>7, EndKeeps

\* A cancel is reported, or the original of a replacement ends without a report.
LEMMA CancelledKeeps ==
  ASSUME FixInv, NEW c \in Clients, ReportCancel(c) \/ Replaced(c) PROVE FixInv'
<1>1. PICK id : id = task[c].id
  OBVIOUS
<1>2. task[c].at \in {"place", "cancelled"} /\ id \in DOMAIN ordRec /\ ordRec[id].cumQty \in Nat
  BY <1>1 DEF ReportCancel, Replaced, FixInv, FixTypes, TaskGood
<1>3. /\ byClOrdID' = [d \in Clients |-> byClOrdID'[d]] /\ byClOrdID' = byClOrdID
      /\ byEngine' = byEngine \ {id} /\ UNCHANGED <<session, quotes, asked, inBook, match, traded, bought>>
  BY <1>1 DEF ReportCancel, Replaced, FixInv, FixTypes
<1>4. CASE ReportCancel(c)
  <2>1. PICK u, t : u = [ordRec[id] EXCEPT !.done = TRUE] /\ t = NoTask
    OBVIOUS
  <2>2. /\ ordRec' = [ordRec EXCEPT ![id] = u] /\ task' = [task EXCEPT ![c] = t]
        /\ told' = [told EXCEPT ![id] = [status |-> "CANCELED", cum |-> ordRec[id].cumQty]]
    BY <1>1, <1>4, <2>1 DEF ReportCancel
  <2>3. /\ told' \in [DOMAIN ordRec -> [status : Statuses, cum : Nat]]
        /\ \A i \in DOMAIN ordRec : i # id => told'[i] = told[i]
        /\ told'[id].status \in Ended /\ told'[id].cum = ordRec[id].cumQty
    BY <1>2, <2>2, AnswerTold DEF Ended
  <2>5. EndsAs(u, ordRec[id])
    BY <1>2, <2>1, RecordEnds
  <2>6. t.at \in {"idle", "again"} /\ (t.at = "idle" => t = NoTask)
    BY <2>1 DEF NoTask
  <2>7. EndsOrder(c, id, u, t)
    BY <1>1, <1>2, <1>3, <2>2, <2>3, <2>5, <2>6 DEF EndsOrder
  <2> QED
    BY <2>7, EndKeeps
<1>5. CASE Replaced(c)
  <2>1. PICK u, t : u = [ordRec[id] EXCEPT !.done = TRUE, !.replaced = TRUE] /\ t = [at |-> "again"]
    OBVIOUS
  <2>2. ordRec' = [ordRec EXCEPT ![id] = u] /\ task' = [task EXCEPT ![c] = t] /\ told' = told
    BY <1>1, <1>5, <2>1 DEF Replaced
  <2>3. u.replaced
    <3>1. PICK o : o = ordRec[id] /\ o = OrderRecord(o)
      BY <1>2 DEF FixInv, FixTypes
    <3> QED
      BY ONLY <2>1, <3>1 DEF OrderRecord
  <2>4. /\ told' \in [DOMAIN ordRec -> [status : Statuses, cum : Nat]]
        /\ \A i \in DOMAIN ordRec : i # id => told'[i] = told[i]
        /\ told'[id].cum = ordRec[id].cumQty
    BY <1>2, <2>2 DEF FixInv, FixTypes, OrderGood
  <2>5. EndsAs(u, ordRec[id])
    BY <1>2, <2>1, RecordEnds
  <2>6. t.at \in {"idle", "again"} /\ (t.at = "idle" => t = NoTask)
    BY <2>1 DEF NoTask
  <2>7. EndsOrder(c, id, u, t)
    BY <1>1, <1>2, <1>3, <2>2, <2>3, <2>4, <2>5, <2>6 DEF EndsOrder
  <2> QED
    BY <2>7, EndKeeps
<1> QED
  BY <1>4, <1>5

\* The hook is told the first fill: nothing more is pending of that order.
LEMMA FillTold ==
  ASSUME FillsGood, match.fills # <<>>, match' = [match EXCEPT !.fills = Tail(@)],
         NEW id, NEW v, id = Head(match.fills)[1], v = Head(match.fills)[2]
  PROVE  /\ id \in DOMAIN ordRec /\ v \in Nat \ {0} /\ ~ordRec[id].done
         /\ Pending(id) = v /\ Pending(id)' = 0
         /\ \A i : i # id => Pending(i)' = Pending(i)
         /\ match' = [by |-> match'.by, fills |-> match'.fills] /\ match'.by = match.by
         /\ match'.fills \in Seq((DOMAIN ordRec) \X (Nat \ {0})) /\ Len(match'.fills) <= 1
         /\ \A k \in 1..Len(match'.fills) : ~ordRec[match'.fills[k][1]].done /\ match'.fills[k][1] # id
<1>1. PICK f, S : f = match.fills /\ S = DOMAIN ordRec
  OBVIOUS
<1>2. f \in Seq(S \X (Nat \ {0})) /\ Len(f) \in 1..2 /\ f # <<>>
  <2>1. f \in Seq(S \X (Nat \ {0})) /\ Len(f) <= 2 /\ f # <<>>
    BY <1>1 DEF FillsGood
  <2>2. PICK n : n = Len(f) /\ n \in Nat /\ n # 0 /\ n <= 2
    BY ONLY <2>1, EmptySeq, LenProperties
  <2>3. n \in 1..2
    BY ONLY <2>2
  <2> QED
    BY ONLY <2>1, <2>2, <2>3
<1>3. \A k \in 1..Len(f) : f[k] \in S \X (Nat \ {0})
  BY ONLY <1>2, ElementOfSeq
<1>4. PICK g : g = Tail(f)
  OBVIOUS
<1>5. /\ Head(f) = f[1] /\ g \in Seq(S \X (Nat \ {0})) /\ Len(g) = Len(f) - 1
      /\ \A k \in 1..Len(g) : g[k] = f[k + 1]
  BY ONLY <1>2, <1>4, HeadTailProperties
<1>6. match'.fills = g /\ match'.by = match.by /\ match' = [by |-> match'.by, fills |-> match'.fills]
  <2>1. PICK m : m = [by |-> match.by, fills |-> g]
    OBVIOUS
  <2>2. match' = m
    BY <1>1, <1>4, <2>1 DEF FillsGood
  <2>3. m.fills = g /\ m.by = match.by /\ m = [by |-> m.by, fills |-> m.fills]
    BY ONLY <2>1
  <2> QED
    BY ONLY <2>2, <2>3
<1>7. id = f[1][1] /\ v = f[1][2] /\ id \in S /\ v \in Nat \ {0}
  BY <1>1, <1>2, <1>3, <1>5
<1>8. Pending(id) = v
  BY <1>1, <1>2, <1>7 DEF Pending
<1>9. Len(f) = 2 => f[2][1] # id /\ ~ordRec[f[2][1]].done
  BY <1>1, <1>2, <1>7 DEF FillsGood
<1>10. \A k \in 1..Len(g) : Len(f) = 2 /\ k = 1 /\ g[k] = f[2]
  <2> TAKE k \in 1..Len(g)
  <2>1. Len(f) = 2 /\ k = 1
    <3>1. PICK m, n : m = Len(f) /\ n = Len(g) /\ m \in 1..2 /\ n = m - 1 /\ k \in 1..n
      BY <1>2, <1>5
    <3>2. m = 2 /\ k = 1
      BY ONLY <3>1
    <3> QED
      BY <3>1, <3>2
  <2>2. g[k] = f[k + 1] /\ k + 1 = 2
    BY ONLY <1>5, <2>1, k \in 1..Len(g)
  <2> QED
    BY <2>1, <2>2
<1>11. Len(g) \in 0..1 /\ (g = <<>> <=> Len(g) = 0)
  BY ONLY <1>2, <1>5, EmptySeq
<1>a. Len(f) = 2 => g[1] = f[2]
  <2>1. HAVE Len(f) = 2
  <2>2. Len(g) = 1 /\ 1 \in 1..1 /\ 1 + 1 = 2
    BY <1>5, <2>1
  <2> QED
    BY <1>5, <2>2
<1>12. Pending(id)' = 0
  <2>1. g # <<>> => g[1][1] # id
    BY <1>2, <1>5, <1>9, <1>11, <1>a
  <2>2. Len(g) # 2
    <3>1. PICK m : m = Len(g) /\ m \in 0..1
      BY <1>11
    <3>2. m # 2
      BY ONLY <3>1
    <3> QED
      BY <3>1, <3>2
  <2> QED
    BY <1>6, <2>1, <2>2 DEF Pending
<1>13. ASSUME NEW i, i # id PROVE Pending(i)' = Pending(i)
  <2>1. CASE Len(f) = 1
    BY <1>1, <1>2, <1>5, <1>6, <1>7, <1>11, <1>13, <2>1 DEF Pending
  <2>2. CASE Len(f) = 2
    <3>1. Pending(i) = IF f[2][1] = i THEN f[2][2] ELSE 0
      BY <1>1, <1>2, <1>7, <1>13, <2>2 DEF Pending
    <3>2. g # <<>> /\ g[1] = f[2] /\ Len(g) # 2
      BY <1>5, <1>11, <1>a, <2>2
    <3>3. Pending(i)' = IF f[2][1] = i THEN f[2][2] ELSE 0
      BY <1>6, <3>2 DEF Pending
    <3> QED
      BY <3>1, <3>3
  <2> QED
    BY <1>2, <2>1, <2>2
<1>14. ~ordRec[id].done
  <2>1. 1 \in 1..Len(f)
    BY <1>2
  <2> QED
    BY <1>1, <1>7, <2>1 DEF FillsGood
<1> QED
  BY <1>1, <1>2, <1>5, <1>6, <1>7, <1>8, <1>9, <1>10, <1>11, <1>12, <1>13, <1>14

\* Fills as a call leaves them: none, one, or one of each of two orders.
LEMMA FewFills ==
  ASSUME NEW S, NEW a \in S, NEW v \in Nat \ {0}, NEW b \in S, NEW f,
         f = <<>> \/ f = <<<<a, v>>>> \/ f = <<<<a, v>>, <<b, v>>>>
  PROVE  /\ f \in Seq(S \X (Nat \ {0})) /\ Len(f) \in 0..2
         /\ f = <<>> <=> Len(f) = 0
         /\ Len(f) > 0 => f[1][1] = a /\ f[1][2] = v
         /\ Len(f) = 2 => f[2][1] = b /\ f[2][2] = v
<1>1. PICK p, q : p = <<a, v>> /\ q = <<b, v>>
  OBVIOUS
<1>2. p \in S \X (Nat \ {0}) /\ q \in S \X (Nat \ {0}) /\ p[1] = a /\ p[2] = v /\ q[1] = b /\ q[2] = v
  BY <1>1
<1>3. CASE f = <<>>
  BY <1>3
<1>4. CASE f = <<<<a, v>>>>
  <2>1. f = <<p>>
    BY <1>1, <1>4
  <2> QED
    BY ONLY <1>2, <2>1
<1>5. CASE f = <<<<a, v>>, <<b, v>>>>
  <2>1. f = <<p, q>>
    BY <1>1, <1>5
  <2> QED
    BY ONLY <1>2, <2>1
<1> QED
  BY <1>3, <1>4, <1>5

\* The record u of an order that was told a fill: cum is what it has by now.
FilledAs(u, o, cum) ==
    /\ u.sess = o.sess /\ u.clOrdID = o.clOrdID /\ u.kind = o.kind /\ u.orderQty = o.orderQty
    /\ u.replaced = o.replaced /\ u.cumQty = cum /\ (u.done <=> o.done \/ cum >= o.orderQty)
    /\ u = OrderRecord(u)

\* What the hook does to the order whose fill it is told: all of it is good
\* afterwards, and nothing else has changed.
FillOf(id) ==
    /\ UNCHANGED <<session, byClOrdID, quotes, asked, inBook, task, traded, bought>>
    /\ DOMAIN ordRec' = DOMAIN ordRec /\ ordRec' = [i \in DOMAIN ordRec' |-> ordRec'[i]]
    /\ ordRec'[id] = OrderRecord(ordRec'[id])
    /\ ordRec'[id].sess = ordRec[id].sess /\ ordRec'[id].clOrdID = ordRec[id].clOrdID
    /\ ordRec'[id].orderQty = ordRec[id].orderQty /\ ordRec'[id].cumQty \in Nat
    /\ told' \in [DOMAIN ordRec -> [status : Statuses, cum : Nat]]
    /\ byEngine' \subseteq byEngine
    /\ \A i \in DOMAIN ordRec \ {id} :
         ordRec'[i] = ordRec[i] /\ told'[i] = told[i] /\ (i \in byEngine' <=> i \in byEngine)
    /\ OrderGood(id)'

\* A fill of an order whose session is there: it is reported.
LEMMA FillReported ==
  ASSUME FixInv, NEW id \in byEngine, NEW v \in Nat \ {0}, NEW cum, NEW filled,
         filled <=> cum >= ordRec[id].orderQty, cum = ordRec[id].cumQty + v,
         Pending(id) = v, Pending(id)' = 0,
         UNCHANGED <<session, byClOrdID, quotes, asked, inBook, task, traded, bought>>,
         ordRec' = [ordRec EXCEPT ![id].cumQty = cum, ![id].done = @ \/ filled],
         byEngine' = IF filled THEN byEngine \ {id} ELSE byEngine,
         told' = [told EXCEPT ![id] = [status |-> IF filled THEN "FILLED" ELSE "PARTIAL", cum |-> cum]]
  PROVE  FillOf(id)
<1>1. /\ id \in DOMAIN ordRec /\ OrderGood(id) /\ ordRec[id].cumQty \in Nat
      /\ ordRec[id].orderQty \in Nat \ {0} /\ ordRec[id] = OrderRecord(ordRec[id])
  BY DEF FixInv, FixTypes
<1>2. PICK o : o = ordRec[id]
  OBVIOUS
<1>3. PICK u : u = [o EXCEPT !.cumQty = cum, !.done = @ \/ filled]
  OBVIOUS
<1>4. FilledAs(u, o, cum)
  <2>1. o = OrderRecord(o) /\ (filled <=> cum >= o.orderQty)
    BY <1>1, <1>2
  <2> QED
    BY ONLY <1>3, <2>1 DEF OrderRecord, FilledAs
<1>5. ordRec' = [ordRec EXCEPT ![id] = u]
  BY <1>2, <1>3
<1>6. /\ DOMAIN ordRec' = DOMAIN ordRec /\ ordRec' = [i \in DOMAIN ordRec' |-> ordRec'[i]]
      /\ ordRec'[id] = u /\ \A i \in DOMAIN ordRec \ {id} : ordRec'[i] = ordRec[i]
  BY <1>1, <1>5
<1>7. PICK s \in {"FILLED", "PARTIAL"} : /\ (s = "FILLED" <=> filled)
                                         /\ told' = [told EXCEPT ![id] = [status |-> s, cum |-> cum]]
  <2>1. CASE filled
    BY <2>1
  <2>2. CASE ~filled
    BY <2>2
  <2> QED
    BY <2>1, <2>2
<1>8. cum \in Nat
  BY <1>1
<1>9. /\ told' \in [DOMAIN ordRec -> [status : Statuses, cum : Nat]]
      /\ told'[id].status = s /\ told'[id].cum = cum /\ \A i \in DOMAIN ordRec \ {id} : told'[i] = told[i]
  <2>1. s \in Statuses /\ told \in [DOMAIN ordRec -> [status : Statuses, cum : Nat]]
    BY DEF Statuses, Ended, FixInv, FixTypes
  <2> QED
    BY ONLY <1>1, <1>7, <1>8, <2>1
<1>10. /\ byEngine' \subseteq byEngine /\ (id \in byEngine' <=> ~filled)
       /\ \A i \in DOMAIN ordRec \ {id} : (i \in byEngine' <=> i \in byEngine)
  OBVIOUS
<1>11. ~ordRec[id].done /\ ~Gone(id) /\ Listed(id) /\ traded[id] = ordRec[id].cumQty + v
  BY <1>1 DEF OrderGood
<1>12. (Gone(id)' <=> Gone(id)) /\ (Listed(id)' <=> Listed(id)) /\ (HandHas(id)' <=> HandHas(id))
  <2>1. u.sess = ordRec[id].sess /\ u.clOrdID = ordRec[id].clOrdID
    BY <1>2, <1>4 DEF FilledAs
  <2> QED
    BY <1>6, <2>1 DEF Gone, Listed, HandHas
<1>13. (u.done <=> filled) /\ (filled <=> cum = ordRec[id].orderQty)
       /\ u.replaced = ordRec[id].replaced /\ ~ordRec[id].replaced /\ u.kind = ordRec[id].kind
       /\ u.orderQty = ordRec[id].orderQty /\ u.cumQty = cum /\ traded'[id] = cum
       /\ u.sess = ordRec[id].sess /\ u.clOrdID = ordRec[id].clOrdID /\ u = OrderRecord(u)
  BY <1>1, <1>2, <1>4, <1>8, <1>11 DEF FilledAs, OrderGood
<1>14. id \in DOMAIN inBook => ~filled
  <2>1. id \in DOMAIN inBook => inBook[id] \in Nat \ {0}
    BY DEF FixInv, FixTypes
  <2> QED
    BY <1>1, <1>11, <1>13, <2>1 DEF OrderGood
<1>15. OrderGood(id)'
  BY <1>1, <1>6, <1>7, <1>9, <1>10, <1>11, <1>12, <1>13, <1>14 DEF OrderGood, Ended
<1> QED
  BY <1>6, <1>8, <1>9, <1>10, <1>13, <1>15 DEF FillOf

\* The trade hook: a fill is reported, or goes nowhere as its session is over.
LEMMA FillKeeps == ASSUME FixInv, OnFill PROVE FixInv'
<1>1. PICK id, v, cum, filled : /\ id = Head(match.fills)[1] /\ v = Head(match.fills)[2]
                                /\ cum = ordRec[id].cumQty + v /\ filled = (cum >= ordRec[id].orderQty)
  OBVIOUS
<1>2. /\ match.fills # <<>> /\ match' = [match EXCEPT !.fills = Tail(@)] /\ FillsGood
      /\ UNCHANGED <<session, byClOrdID, quotes, asked, inBook, task, traded, bought>>
  BY DEF OnFill, FixInv
<1>3. /\ id \in DOMAIN ordRec /\ v \in Nat \ {0} /\ ~ordRec[id].done
      /\ Pending(id) = v /\ Pending(id)' = 0
      /\ \A i : i # id => Pending(i)' = Pending(i)
      /\ match' = [by |-> match'.by, fills |-> match'.fills] /\ match'.by = match.by
      /\ match'.fills \in Seq((DOMAIN ordRec) \X (Nat \ {0})) /\ Len(match'.fills) <= 1
      /\ \A k \in 1..Len(match'.fills) : ~ordRec[match'.fills[k][1]].done /\ match'.fills[k][1] # id
  BY ONLY <1>1, <1>2, FillTold
<1>4. FillOf(id)
  <2>1. CASE id \in byEngine
    <3>1. /\ ordRec' = [ordRec EXCEPT ![id].cumQty = cum, ![id].done = @ \/ filled]
          /\ byEngine' = IF filled THEN byEngine \ {id} ELSE byEngine
          /\ told' = [told EXCEPT ![id] = [status |-> IF filled THEN "FILLED" ELSE "PARTIAL", cum |-> cum]]
      BY <1>1, <2>1, Zenon DEF OnFill
    <3>2. filled <=> cum >= ordRec[id].orderQty
      BY <1>1
    <3> QED
      BY ONLY FixInv, <1>1, <1>2, <1>3, <2>1, <3>1, <3>2, FillReported
  <2>2. CASE id \notin byEngine
    <3>1. UNCHANGED <<ordRec, byEngine, told>>
      BY <1>1, <2>2 DEF OnFill
    <3>2. OrderGood(id) /\ ordRec[id] = OrderRecord(ordRec[id]) /\ ordRec[id].cumQty \in Nat
      BY <1>3 DEF FixInv, FixTypes
    <3>3. Gone(id)
      BY <1>3, <2>2, <3>2 DEF OrderGood
    <3>4. (Gone(id)' <=> Gone(id)) /\ (Listed(id)' <=> Listed(id)) /\ (HandHas(id)' <=> HandHas(id))
      BY <1>2, <3>1 DEF Gone, Listed, HandHas
    <3>5. OrderGood(id)'
      BY <1>2, <3>1, <3>2, <3>3, <3>4 DEF OrderGood
    <3> QED
      BY <1>2, <3>1, <3>2, <3>5 DEF FillOf, FixInv, FixTypes
  <2> QED
    BY <2>1, <2>2
<1>5. /\ DOMAIN ordRec' = DOMAIN ordRec
      /\ \A i \in DOMAIN ordRec : ordRec'[i].sess = ordRec[i].sess /\ ordRec'[i].clOrdID = ordRec[i].clOrdID
      /\ \A i \in DOMAIN ordRec : i # id => ordRec'[i] = ordRec[i]
  BY <1>4 DEF FillOf
<1>6. FixTypes'
  <2>1. \A i \in DOMAIN ordRec' : ordRec'[i] = OrderRecord(ordRec'[i])
    BY <1>4, <1>5 DEF FixInv, FixTypes, FillOf
  <2>2. \A i \in DOMAIN ordRec' : /\ ordRec'[i].sess \in Clients
                                  /\ ordRec'[i].orderQty \in Nat \ {0} /\ ordRec'[i].cumQty \in Nat
    BY <1>4, <1>5 DEF FixInv, FixTypes, FillOf
  <2> QED
    BY <1>4, <1>5, <2>1, <2>2 DEF FixInv, FixTypes, FillOf
<1>7. FillsGood'
  <2>1. \A k \in 1..Len(match'.fills) : match'.fills[k][1] \in DOMAIN ordRec
    BY <1>3, ElementOfSeq
  <2>2. Len(match'.fills) # 2 /\ Len(match'.fills) <= 2
    <3>1. PICK n : n = Len(match'.fills) /\ n \in Nat /\ n <= 1
      BY <1>3, LenProperties
    <3>2. n # 2 /\ n <= 2
      BY ONLY <3>1
    <3> QED
      BY <3>1, <3>2
  <2> QED
    BY <1>3, <1>5, <2>1, <2>2 DEF FillsGood
<1>8. QuoteTable' /\ ListsGood' /\ BookApart' /\ HolderPlaces'
  <2>1. QuoteTable'
    BY <1>2 DEF FixInv, QuoteTable
  <2>2. ListsGood'
    BY <1>2, <1>5 DEF FixInv, ListsGood
  <2>3. BookApart'
    <3>1. \A i \in DOMAIN inBook : i \in DOMAIN ordRec
      BY DEF FixInv, FixTypes
    <3> QED
      BY <1>2, <1>5, <3>1 DEF FixInv, BookApart
  <2>4. HolderPlaces'
    BY <1>2, <1>3 DEF FixInv, HolderPlaces
  <2> QED
    BY <2>1, <2>2, <2>3, <2>4
<1>9. ASSUME NEW i \in DOMAIN ordRec PROVE OrderGood(i)'
  <2>1. CASE i = id
    BY <1>4, <2>1 DEF FillOf
  <2>2. CASE i # id
    <3>1. OrderGood(i) /\ ordRec'[i] = ordRec[i] /\ told'[i] = told[i] /\ (i \in byEngine' <=> i \in byEngine)
      BY <1>4, <2>2 DEF FixInv, FillOf
    <3>2. (Gone(i)' <=> Gone(i)) /\ (Listed(i)' <=> Listed(i)) /\ (HandHas(i)' <=> HandHas(i))
      BY <1>2, <3>1 DEF Gone, Listed, HandHas
    <3> QED
      BY <1>2, <1>3, <2>2, <3>1, <3>2, OrderStays
  <2> QED
    BY <2>1, <2>2
<1>10. ASSUME NEW d \in Clients PROVE TaskGood(d)'
  <2>1. TaskGood(d)
    BY DEF FixInv
  <2>2. task[d].at \in {"place", "cancelled"} => task[d].id # id
    <3>1. CASE task[d].at = "cancelled"
      BY <1>3, <2>1, <3>1 DEF TaskGood
    <3>2. CASE task[d].at = "place" /\ task[d].id = id
      <4>1. traded[id] = 0 /\ ~Gone(id)
        BY <2>1, <3>2 DEF TaskGood, Gone, NoTask
      <4>2. traded[id] = ordRec[id].cumQty + Pending(id) /\ ordRec[id].cumQty \in Nat
        BY <1>3, <4>1 DEF FixInv, FixTypes, OrderGood
      <4> QED
        BY <1>3, <4>1, <4>2
    <3> QED
      BY <3>1, <3>2
  <2>3. CASE task[d].at \in {"place", "cancelled"}
    BY <1>2, <1>3, <1>5, <2>1, <2>2, <2>3, TaskStays DEF TaskGood
  <2>4. CASE task[d].at \notin {"place", "cancelled"}
    BY <1>2, <1>5, <2>1, <2>4 DEF TaskGood
  <2> QED
    BY <2>3, <2>4
<1> QED
  BY <1>5, <1>6, <1>7, <1>8, <1>9, <1>10 DEF FixInv

\* A call's fills: v of order a and, when it met one of these orders, of b.
FillsOf(a, v, two, b) == IF v = 0 THEN <<>> ELSE IF two THEN <<<<a, v>>, <<b, v>>>> ELSE <<<<a, v>>>>

\* What a call leaves to be told is what it traded of each order.
LEMMA CallFills ==
  ASSUME NEW a \in DOMAIN ordRec, NEW v \in Nat, NEW two, NEW b, NEW h,
         match' = [by |-> h, fills |-> FillsOf(a, v, two, b)],
         ~ordRec[a].done, two => b \in DOMAIN ordRec /\ b # a /\ ~ordRec[b].done,
         ordRec' = ordRec
  PROVE  /\ FillsGood' /\ match'.by = h
         /\ \A i : Pending(i)' = IF i = a \/ (two /\ i = b) THEN v ELSE 0
<1>1. PICK f, S : f = FillsOf(a, v, two, b) /\ S = DOMAIN ordRec
  OBVIOUS
<1>2. match' = [by |-> match'.by, fills |-> match'.fills] /\ match'.fills = f /\ match'.by = h
  <2>1. PICK m : m = [by |-> h, fills |-> f] /\ match' = m
    BY <1>1
  <2>2. m.by = h /\ m.fills = f /\ m = [by |-> m.by, fills |-> m.fills]
    BY ONLY <2>1
  <2> QED
    BY ONLY <2>1, <2>2
<1>3. CASE v = 0
  <2>1. f = <<>> /\ Len(f) = 0 /\ f \in Seq(S \X (Nat \ {0}))
    BY <1>1, <1>3 DEF FillsOf
  <2>2. FillsGood'
    BY <1>1, <1>2, <2>1 DEF FillsGood
  <2> QED
    BY <1>2, <1>3, <2>1, <2>2 DEF Pending
<1>4. CASE v # 0 /\ ~two
  <2>1. f = <<<<a, v>>>> /\ v \in Nat \ {0} /\ a \in S
    BY <1>1, <1>4 DEF FillsOf
  <2>2. /\ f \in Seq(S \X (Nat \ {0})) /\ Len(f) = 1 /\ f # <<>> /\ f[1][1] = a /\ f[1][2] = v
    BY ONLY <2>1
  <2>3. FillsGood'
    <3>1. \A k \in 1..Len(f) : ~ordRec[f[k][1]].done
      <4> TAKE k \in 1..Len(f)
      <4>1. k = 1
        BY <2>2
      <4> QED
        BY <2>2, <4>1
    <3> QED
      BY <1>1, <1>2, <2>2, <3>1 DEF FillsGood
  <2> QED
    BY <1>2, <1>4, <2>2, <2>3 DEF Pending
<1>5. CASE v # 0 /\ two
  <2>1. f = <<<<a, v>>, <<b, v>>>> /\ v \in Nat \ {0} /\ a \in S /\ b \in S /\ b # a
    BY <1>1, <1>5 DEF FillsOf
  <2>2. /\ f \in Seq(S \X (Nat \ {0})) /\ Len(f) = 2 /\ f # <<>> /\ f[1][1] = a /\ f[1][2] = v
        /\ f[2][1] = b /\ f[2][2] = v
    BY ONLY <2>1
  <2>3. \A k \in 1..Len(f) : ~ordRec[f[k][1]].done
    <3> TAKE k \in 1..Len(f)
    <3>1. k = 1 \/ k = 2
      BY <2>2
    <3> QED
      BY <1>5, <2>2, <3>1
  <2>4. Len(f) <= 2 /\ (Len(f) = 2 => f[1][1] # f[2][1])
    BY <2>1, <2>2
  <2>5. FillsGood'
    BY <1>1, <1>2, <2>2, <2>3, <2>4 DEF FillsGood
  <2> QED
    BY <1>2, <1>5, <2>1, <2>2, <2>5 DEF Pending
<1> QED
  BY <1>3, <1>4, <1>5

\* A call leaves order i alone, or trades some of it, and then what is left of
\* it rests if it is a limit order.
Untouched(i) ==
    /\ Pending(i)' = 0 /\ traded'[i] = traded[i]
    /\ (i \in DOMAIN inBook' <=> i \in DOMAIN inBook) /\ (i \in DOMAIN inBook => inBook'[i] = inBook[i])
Dealt(i) ==
    /\ ~ordRec[i].done /\ traded'[i] \in Nat /\ traded'[i] = traded[i] + Pending(i)'
    /\ Pending(i) = 0 /\ traded'[i] <= ordRec[i].orderQty
    /\ i \in DOMAIN inBook' =>
         ordRec[i].kind = "limit" /\ traded'[i] + inBook'[i] = ordRec[i].orderQty
    /\ ordRec[i].kind = "limit" /\ traded'[i] < ordRec[i].orderQty => i \in DOMAIN inBook'
BookCall ==
    /\ match.fills = <<>>
    /\ UNCHANGED <<session, ordRec, byClOrdID, byEngine, quotes, asked, told, bought>>
    /\ FillsGood' /\ traded' = [i \in DOMAIN ordRec |-> traded'[i]]
    /\ DOMAIN inBook' \subseteq DOMAIN ordRec /\ inBook' \in [DOMAIN inBook' -> Nat \ {0}]
    /\ task' = [d \in Clients |-> task'[d]]
    /\ \A i \in DOMAIN ordRec : Dealt(i) \/ (Untouched(i) /\ (HandHas(i) => HandHas(i)'))
    /\ \A d \in Clients :
         \/ /\ task'[d] = task[d]
            /\ task[d].at \in {"place", "cancelled"} => Untouched(task[d].id)
         \/ session[d] = "up" /\ task'[d].at = "placing"
    /\ BookApart' /\ HolderPlaces'

\* A call of the book keeps orders, sessions and handlers together.
LEMMA CallKeeps == ASSUME FixInv, BookCall PROVE FixInv'
<1> USE DEF BookCall
<1>1. \A i : Pending(i) = 0
  <2>1. Len(match.fills) = 0
    OBVIOUS
  <2> QED
    BY <2>1 DEF Pending
<1>2. FixTypes'
  <2>1. \A i \in DOMAIN ordRec : traded'[i] \in Nat
    BY DEF FixInv, FixTypes, Dealt, Untouched
  <2>2. traded' \in [DOMAIN ordRec -> Nat]
    BY <2>1
  <2> QED
    BY <2>2 DEF FixInv, FixTypes
<1>3. QuoteTable' /\ ListsGood'
  BY DEF FixInv, QuoteTable, ListsGood
<1>4. ASSUME NEW i \in DOMAIN ordRec PROVE OrderGood(i)'
  <2>1. OrderGood(i)
    BY DEF FixInv
  <2>2. (Gone(i)' <=> Gone(i)) /\ (Listed(i)' <=> Listed(i))
    BY DEF Gone, Listed
  <2>3. CASE Untouched(i) /\ (HandHas(i) => HandHas(i)')
    BY <1>1, <2>1, <2>2, <2>3, OrderStays DEF Untouched
  <2>4. CASE Dealt(i)
    <3>1. traded[i] \in Nat /\ ordRec[i].cumQty \in Nat
      BY DEF FixInv, FixTypes
    <3>2. traded'[i] = traded[i] + Pending(i)'
      BY <2>4 DEF Dealt
    <3>3. ~Gone(i)' => traded'[i] = ordRec[i].cumQty + Pending(i)'
      BY <1>1, <2>1, <2>2, <3>1, <3>2 DEF OrderGood
    <3> QED
      BY <2>1, <2>2, <2>4, <3>3 DEF OrderGood, Dealt
  <2> QED
    BY <2>3, <2>4
<1>5. ASSUME NEW d \in Clients PROVE TaskGood(d)'
  <2>1. TaskGood(d)
    BY DEF FixInv
  <2>2. CASE task'[d] = task[d] /\ (task[d].at \in {"place", "cancelled"} => Untouched(task[d].id))
    BY <2>1, <2>2 DEF TaskGood, Untouched
  <2>3. CASE session[d] = "up" /\ task'[d].at = "placing"
    BY <2>3 DEF TaskGood, NoTask
  <2> QED
    BY <2>2, <2>3
<1> QED
  BY <1>2, <1>3, <1>4, <1>5 DEF FixInv

\* What is traded is a quantity.
LEMMA VolumeNat == ASSUME NEW vol \in {0} \cup Volumes PROVE vol \in Nat /\ (vol \in Volumes => vol # 0)
BY FixAssumption DEF Volumes

\* What a call takes of an order that rests, and what is left of it.
LEMMA TakenOf ==
  ASSUME FixInv, NEW id \in DOMAIN inBook, NEW vol \in Nat, vol # 0, vol <= inBook[id],
         match.fills = <<>>, Pending(id)' = vol, traded'[id] = traded[id] + vol,
         id \in DOMAIN inBook' <=> vol # inBook[id], id \in DOMAIN inBook' => inBook'[id] = inBook[id] - vol
  PROVE  Dealt(id)
<1>1. /\ id \in DOMAIN ordRec /\ OrderGood(id) /\ inBook[id] \in Nat \ {0} /\ traded[id] \in Nat
      /\ ordRec[id].orderQty \in Nat \ {0}
  BY DEF FixInv, FixTypes
<1>2. /\ ~ordRec[id].done /\ ordRec[id].kind = "limit" /\ traded[id] + inBook[id] = ordRec[id].orderQty
  BY <1>1 DEF OrderGood
<1>3. Pending(id) = 0
  <2>1. Len(match.fills) = 0
    OBVIOUS
  <2> QED
    BY <2>1 DEF Pending
<1> QED
  BY <1>1, <1>2, <1>3 DEF Dealt

\* An order whose handler has it in hand does not rest.
LEMMA HandApart ==
  ASSUME FixInv, NEW d \in Clients, task[d].at \in {"place", "cancelled"}
  PROVE  /\ task[d].id \in DOMAIN ordRec /\ task[d].id \notin DOMAIN inBook /\ ordRec[task[d].id].sess = d
         /\ session[d] = "up" /\ ~ordRec[task[d].id].done
BY DEF FixInv, TaskGood, NoTask

\* Another edge's order takes some of one that rests.
LEMMA TakeKeeps ==
  ASSUME FixInv, NEW id \in FixIds, NEW vol \in Volumes, OthersTake(id, vol) PROVE FixInv'
<1>1. vol \in Nat /\ vol # 0
  BY VolumeNat
<1>2. /\ match = NoMatch /\ id \in DOMAIN inBook /\ vol <= inBook[id]
      /\ inBook' = IF vol = inBook[id] THEN Without(inBook, {id}) ELSE [inBook EXCEPT ![id] = @ - vol]
      /\ traded' = [traded EXCEPT ![id] = @ + vol]
      /\ UNCHANGED <<session, ordRec, byClOrdID, byEngine, quotes, asked, task, told, bought>>
  BY DEF OthersTake
<1>3. match' = [by |-> "others", fills |-> FillsOf(id, vol, FALSE, id)]
  BY <1>1 DEF OthersTake, FillsOf
<1>4. /\ id \in DOMAIN ordRec /\ ~ordRec[id].done /\ inBook[id] \in Nat \ {0} /\ match.fills = <<>>
      /\ inBook \in [DOMAIN inBook -> Nat \ {0}] /\ traded \in [DOMAIN ordRec -> Nat]
      /\ DOMAIN inBook \subseteq DOMAIN ordRec
  BY <1>2 DEF FixInv, FixTypes, OrderGood, NoMatch
<1>5. FillsGood' /\ match'.by = "others" /\ \A i : Pending(i)' = IF i = id THEN vol ELSE 0
  <2>1. ordRec' = ordRec
    BY <1>2
  <2>2. /\ FillsGood' /\ match'.by = "others"
        /\ \A i : Pending(i)' = IF i = id \/ (FALSE /\ i = id) THEN vol ELSE 0
    BY ONLY <1>1, <1>3, <1>4, <2>1, CallFills
  <2> QED
    BY <2>2
<1>6. /\ traded' = [i \in DOMAIN ordRec |-> traded'[i]] /\ traded'[id] = traded[id] + vol
      /\ \A i \in DOMAIN ordRec : i # id => traded'[i] = traded[i]
  BY ONLY <1>2, <1>4
<1>7. /\ inBook' \in [DOMAIN inBook' -> Nat \ {0}] /\ DOMAIN inBook' \subseteq DOMAIN inBook
      /\ (id \in DOMAIN inBook' <=> vol # inBook[id]) /\ (id \in DOMAIN inBook' => inBook'[id] = inBook[id] - vol)
      /\ \A i : i # id => /\ i \in DOMAIN inBook' <=> i \in DOMAIN inBook
                          /\ i \in DOMAIN inBook => inBook'[i] = inBook[i]
  <2>1. CASE vol = inBook[id]
    BY ONLY <1>1, <1>2, <1>4, <2>1 DEF Without
  <2>2. CASE vol # inBook[id]
    <3>1. inBook[id] - vol \in Nat \ {0}
      BY <1>1, <1>2, <1>4, <2>2
    <3> QED
      BY ONLY <1>1, <1>2, <1>4, <2>2, <3>1
  <2> QED
    BY <2>1, <2>2
<1>8. ASSUME NEW i \in DOMAIN ordRec PROVE Dealt(i) \/ (Untouched(i) /\ (HandHas(i) => HandHas(i)'))
  <2>1. CASE i = id
    BY ONLY <1>1, <1>2, <1>4, <1>5, <1>6, <1>7, <2>1, FixInv, TakenOf
  <2>2. CASE i # id
    BY <1>2, <1>5, <1>6, <1>7, <2>2 DEF Untouched, HandHas
  <2> QED
    BY <2>1, <2>2
<1>9. ASSUME NEW d \in Clients
      PROVE  task'[d] = task[d] /\ (task[d].at \in {"place", "cancelled"} => Untouched(task[d].id))
  <2>1. task'[d] = task[d]
    BY <1>2
  <2>2. ASSUME task[d].at \in {"place", "cancelled"} PROVE Untouched(task[d].id)
    <3>1. PICK i : i = task[d].id /\ i \in DOMAIN ordRec /\ i \notin DOMAIN inBook
      BY <2>2, HandApart
    <3>2. i # id
      BY <1>2, <3>1
    <3>3. Untouched(i)
      BY <1>5, <1>6, <1>7, <3>1, <3>2 DEF Untouched
    <3> QED
      BY <3>1, <3>3
  <2> QED
    BY <2>1, <2>2
<1>10. BookApart' /\ HolderPlaces'
  <2>1. BookApart'
    <3>1. BookApart /\ ordRec' = ordRec /\ DOMAIN inBook' \subseteq DOMAIN inBook
      BY <1>2, <1>7 DEF FixInv
    <3> QED
      BY ONLY <3>1 DEF BookApart
  <2> QED
    BY <1>5, <2>1, FixAssumption DEF HolderPlaces
<1>11. task' = [d \in Clients |-> task'[d]]
  BY <1>2 DEF FixInv, FixTypes
<1> QED
  <2>1. BookCall
    BY <1>2, <1>4, <1>5, <1>6, <1>7, <1>8, <1>9, <1>10, <1>11 DEF BookCall
  <2> QED
    BY <2>1, CallKeeps

\* A call places its order: part of it meets a partner, and the rest of a limit
\* order rests.
LEMMA PlaceKeeps ==
  ASSUME FixInv, NEW c \in Clients, NEW vol \in {0} \cup Volumes, NEW partner, Place(c, vol, partner)
  PROVE  FixInv'
<1>1. vol \in Nat
  BY VolumeNat
<1>2. PICK id, hit, left :
        /\ id = task[c].id /\ hit = (partner \in DOMAIN inBook)
        /\ left = IF ~hit THEN inBook
                  ELSE IF vol = inBook[partner] THEN Without(inBook, {partner})
                  ELSE [inBook EXCEPT ![partner] = @ - vol]
  OBVIOUS
<1>3. /\ task[c].at = "place" /\ match = NoMatch
      /\ vol <= ordRec[id].orderQty /\ (hit => 0 < vol /\ vol <= inBook[partner])
      /\ inBook' = IF ordRec[id].kind = "limit" /\ vol < ordRec[id].orderQty
                     THEN With(left, id, ordRec[id].orderQty - vol) ELSE left
      /\ traded' = [i \in DOMAIN traded |->
                      traded[i] + IF i = id \/ (hit /\ i = partner) THEN vol ELSE 0]
      /\ task' = [task EXCEPT ![c].at = "placing"]
      /\ UNCHANGED <<session, ordRec, byClOrdID, byEngine, quotes, asked, told, bought>>
  BY <1>2 DEF Place
<1>4. match' = [by |-> c, fills |-> FillsOf(id, vol, hit, partner)]
  BY <1>2 DEF Place, FillsOf
<1>5. /\ id \in DOMAIN ordRec /\ id \notin DOMAIN inBook /\ ordRec[id].sess = c /\ session[c] = "up"
      /\ ~ordRec[id].done /\ OrderGood(id) /\ traded[id] = 0
  BY <1>2, <1>3, HandApart DEF FixInv, TaskGood
<1>6. /\ inBook \in [DOMAIN inBook -> Nat \ {0}] /\ traded \in [DOMAIN ordRec -> Nat]
      /\ DOMAIN inBook \subseteq DOMAIN ordRec /\ ordRec[id].orderQty \in Nat \ {0}
      /\ match.fills = <<>> /\ match.by = "nobody" /\ (hit <=> partner \in DOMAIN inBook)
      /\ DOMAIN traded = DOMAIN ordRec
  <2>1. hit <=> partner \in DOMAIN inBook
    BY <1>2
  <2> QED
    BY <1>3, <1>5, <2>1 DEF FixInv, FixTypes, NoMatch
<1>7. hit => partner \in DOMAIN ordRec /\ partner # id /\ ~ordRec[partner].done
  BY <1>2, <1>5, <1>6 DEF FixInv, OrderGood
<1>8. FillsGood' /\ match'.by = c /\ \A i : Pending(i)' = IF i = id \/ (hit /\ i = partner) THEN vol ELSE 0
  <2>1. ordRec' = ordRec
    BY <1>3
  <2> QED
    BY ONLY <1>1, <1>4, <1>5, <1>6, <1>7, <2>1, CallFills
<1>9. /\ traded' = [i \in DOMAIN ordRec |-> traded'[i]] /\ traded'[id] = vol
      /\ \A i \in DOMAIN ordRec : traded'[i] = traded[i] + IF i = id \/ (hit /\ i = partner) THEN vol ELSE 0
  <2>1. /\ traded' = [i \in DOMAIN ordRec |-> traded'[i]]
        /\ \A i \in DOMAIN ordRec : traded'[i] = traded[i] + IF i = id \/ (hit /\ i = partner) THEN vol ELSE 0
    BY ONLY <1>3, <1>6
  <2> QED
    BY <1>1, <1>5, <2>1
<1>10. /\ left \in [DOMAIN left -> Nat \ {0}] /\ DOMAIN left \subseteq DOMAIN inBook
       /\ (hit => /\ (partner \in DOMAIN left <=> vol # inBook[partner])
                  /\ (partner \in DOMAIN left => left[partner] = inBook[partner] - vol))
       /\ \A i : ~(hit /\ i = partner) => /\ (i \in DOMAIN left <=> i \in DOMAIN inBook)
                                         /\ (i \in DOMAIN inBook => left[i] = inBook[i])
  <2>1. CASE ~hit
    BY <1>2, <1>6, <2>1
  <2>2. CASE hit /\ vol = inBook[partner]
    BY ONLY <1>2, <1>6, <2>2 DEF Without
  <2>3. CASE hit /\ vol # inBook[partner]
    <3>1. inBook[partner] - vol \in Nat \ {0}
      <4>1. inBook[partner] \in Nat /\ vol <= inBook[partner] /\ vol # inBook[partner]
        BY ONLY <1>3, <1>6, <2>3
      <4> QED
        BY <1>1, <4>1
    <3>2. left = [inBook EXCEPT ![partner] = @ - vol]
      BY <1>2, <2>3
    <3> QED
      BY ONLY <1>2, <1>6, <2>3, <3>1, <3>2
  <2> QED
    BY <2>1, <2>2, <2>3
<1>11. /\ inBook' \in [DOMAIN inBook' -> Nat \ {0}]
       /\ (id \in DOMAIN inBook' <=> ordRec[id].kind = "limit" /\ vol < ordRec[id].orderQty)
       /\ id \in DOMAIN inBook' => inBook'[id] = ordRec[id].orderQty - vol
       /\ \A i : i # id => (i \in DOMAIN inBook' <=> i \in DOMAIN left) /\ (i \in DOMAIN left => inBook'[i] = left[i])
  <2>1. id \notin DOMAIN left
    BY <1>5, <1>10
  <2>2. CASE ordRec[id].kind = "limit" /\ vol < ordRec[id].orderQty
    <3>1. PICK rest : rest = ordRec[id].orderQty - vol /\ rest \in Nat \ {0}
      BY <1>1, <1>6, <2>2
    <3>2. inBook' = With(left, id, rest)
      BY <1>3, <2>2, <3>1
    <3>3. /\ DOMAIN inBook' = DOMAIN left \cup {id} /\ inBook'[id] = rest
          /\ \A i \in DOMAIN left : inBook'[i] = left[i]
          /\ inBook' \in [DOMAIN inBook' -> Nat \ {0}]
      BY ONLY <1>10, <2>1, <3>1, <3>2 DEF With
    <3> QED
      BY <2>2, <3>1, <3>3
  <2>3. CASE ~(ordRec[id].kind = "limit" /\ vol < ordRec[id].orderQty)
    <3>1. inBook' = left
      BY <1>3, <2>3
    <3> QED
      BY <1>10, <2>1, <2>3, <3>1
  <2> QED
    BY <2>2, <2>3
<1>12. DOMAIN inBook' \subseteq DOMAIN inBook \cup {id}
  BY <1>10, <1>11
<1>13. task' = [d \in Clients |-> task'[d]] /\ task'[c].at = "placing" /\ \A d \in Clients \ {c} : task'[d] = task[d]
  <2>1. PICK t, u : t = task[c] /\ "at" \in DOMAIN t /\ u = [t EXCEPT !.at = "placing"]
    BY <1>3 DEF FixInv, TaskGood
  <2>2. u.at = "placing"
    BY ONLY <2>1
  <2>3. task' = [task EXCEPT ![c] = u] /\ task = [d \in Clients |-> task[d]]
    BY <1>3, <2>1 DEF FixInv, FixTypes
  <2> QED
    BY ONLY <2>2, <2>3, c \in Clients
<1>14. \A i \in DOMAIN ordRec : i # id /\ ~(hit /\ i = partner) => Untouched(i)
  <2> TAKE i \in DOMAIN ordRec
  <2> HAVE i # id /\ ~(hit /\ i = partner)
  <2>1. traded'[i] = traded[i] /\ Pending(i)' = 0
    BY <1>6, <1>8, <1>9
  <2> QED
    BY <1>10, <1>11, <2>1 DEF Untouched
<1>15. Dealt(id)
  <2>1. Pending(id) = 0
    <3>1. Len(match.fills) = 0
      BY <1>6
    <3> QED
      BY <1>6, <3>1 DEF Pending
  <2>2. Pending(id)' = vol /\ traded'[id] = vol /\ traded[id] = 0 /\ vol <= ordRec[id].orderQty /\ ~ordRec[id].done
    BY <1>3, <1>5, <1>8, <1>9
  <2>3. \/ ~(ordRec[id].kind = "limit" /\ vol < ordRec[id].orderQty) /\ id \notin DOMAIN inBook'
        \/ /\ ordRec[id].kind = "limit" /\ id \in DOMAIN inBook'
           /\ inBook'[id] = ordRec[id].orderQty - vol
    BY <1>11
  <2> QED
    BY <1>1, <1>6, <2>1, <2>2, <2>3 DEF Dealt
<1>16. hit => Dealt(partner)
  <2>1. HAVE hit
  <2>2. /\ partner \in DOMAIN inBook /\ vol # 0 /\ vol <= inBook[partner] /\ Pending(partner)' = vol
        /\ traded'[partner] = traded[partner] + vol
    <3>1. partner \in DOMAIN inBook /\ 0 < vol /\ vol <= inBook[partner]
      BY <1>3, <1>6, <2>1
    <3>2. Pending(partner)' = vol
      BY <1>8, <2>1
    <3>3. traded'[partner] = traded[partner] + vol
      BY <1>7, <1>9, <2>1
    <3> QED
      BY <1>1, <3>1, <3>2, <3>3
  <2>3. /\ partner \in DOMAIN inBook' <=> vol # inBook[partner]
        /\ partner \in DOMAIN inBook' => inBook'[partner] = inBook[partner] - vol
    BY <1>7, <1>10, <1>11, <2>1
  <2> QED
    BY ONLY FixInv, <1>1, <1>6, <2>2, <2>3, TakenOf
<1>17. ASSUME NEW i \in DOMAIN ordRec PROVE Dealt(i) \/ (Untouched(i) /\ (HandHas(i) => HandHas(i)'))
  <2>1. CASE i = id \/ (hit /\ i = partner)
    BY <1>15, <1>16, <2>1
  <2>2. CASE i # id /\ ~(hit /\ i = partner)
    <3>1. HandHas(i) => HandHas(i)'
      <4>1. ordRec[i].sess \in Clients
        BY DEF FixInv, FixTypes
      <4>2. CASE ordRec[i].sess = c
        BY <1>2, <2>2, <4>2 DEF HandHas
      <4>3. CASE ordRec[i].sess # c
        BY <1>3, <1>13, <4>1, <4>3 DEF HandHas
      <4> QED
        BY <4>2, <4>3
    <3> QED
      BY <1>14, <2>2, <3>1
  <2> QED
    BY <2>1, <2>2
<1>18. ASSUME NEW d \in Clients, d # c
       PROVE  task'[d] = task[d] /\ (task[d].at \in {"place", "cancelled"} => Untouched(task[d].id))
  <2>1. ASSUME task[d].at \in {"place", "cancelled"} PROVE Untouched(task[d].id)
    <3>1. PICK i : i = task[d].id /\ i \in DOMAIN ordRec /\ i \notin DOMAIN inBook /\ ordRec[i].sess = d
      BY <2>1, HandApart
    <3>2. i # id /\ ~(hit /\ i = partner)
      BY <1>2, <1>5, <1>18, <3>1
    <3> QED
      BY <1>14, <3>1, <3>2
  <2> QED
    BY <1>13, <1>18, <2>1
<1>19. BookApart'
  <2>1. ASSUME NEW j \in DOMAIN inBook
        PROVE  <<ordRec[j].sess, ordRec[j].clOrdID>> # <<ordRec[id].sess, ordRec[id].clOrdID>>
    <3>1. Listed(id)
      BY <1>5 DEF OrderGood, Gone
    <3>2. OrderGood(j) /\ j \in DOMAIN ordRec /\ j # id
      BY <1>5, <1>6 DEF FixInv
    <3>3. ordRec[j].sess = c => Listed(j)
      BY <1>5, <3>2 DEF OrderGood, Gone
    <3>4. ordRec[j].sess = c => ordRec[j].clOrdID # ordRec[id].clOrdID
      BY <1>5, <3>1, <3>2, <3>3 DEF Listed
    <3> QED
      BY <1>5, <3>4
  <2>2. BookApart /\ ordRec' = ordRec
    BY <1>3 DEF FixInv
  <2> QED
    BY ONLY <1>12, <2>1, <2>2 DEF BookApart
<1>20. HolderPlaces'
  BY <1>8, <1>13 DEF HolderPlaces
<1> QED
  <2>1. BookCall
    <3>1. DOMAIN inBook' \subseteq DOMAIN ordRec
      BY <1>5, <1>6, <1>12
    <3>2. \A d \in Clients :
             \/ /\ task'[d] = task[d]
                /\ task[d].at \in {"place", "cancelled"} => Untouched(task[d].id)
             \/ session[d] = "up" /\ task'[d].at = "placing"
      BY <1>5, <1>13, <1>18
    <3> QED
      BY <1>3, <1>6, <1>8, <1>9, <1>11, <1>13, <1>17, <1>19, <1>20, <3>1, <3>2 DEF BookCall
  <2> QED
    BY <2>1, CallKeeps

\* The edge starts without sessions, orders and quotes.
LEMMA FixStarts == FixInit => FixInv
<1> SUFFICES ASSUME FixInit PROVE FixInv
  OBVIOUS
<1>1. /\ session = [c \in Clients |-> "new"] /\ byClOrdID = [c \in Clients |-> <<>>]
      /\ task = [c \in Clients |-> NoTask]
      /\ ordRec = <<>> /\ byEngine = {} /\ quotes = <<>> /\ asked = 0
      /\ inBook = <<>> /\ match = NoMatch
      /\ told = <<>> /\ traded = <<>> /\ bought = [q \in 1..MaxQuotesAsked |-> 0]
  BY DEF FixInit
<1>2. /\ DOMAIN ordRec = {} /\ DOMAIN quotes = {} /\ DOMAIN inBook = {}
      /\ 1..0 = {} /\ 0 \in Nat
  BY <1>1
<1>3. FixTypes
  <2>1. \E n \in Nat : DOMAIN ordRec = 1..n
    BY <1>2
  <2>2. /\ ordRec = [i \in DOMAIN ordRec |-> ordRec[i]]
        /\ told \in [DOMAIN ordRec -> [status : Statuses, cum : Nat]] /\ traded \in [DOMAIN ordRec -> Nat]
        /\ inBook \in [DOMAIN inBook -> Nat \ {0}]
    BY <1>1, <1>2
  <2>3. /\ session \in [Clients -> {"new", "up", "over", "lost"}] /\ task = [c \in Clients |-> task[c]]
        /\ byClOrdID = [c \in Clients |-> byClOrdID[c]]
    BY <1>1
  <2> QED
    BY <1>1, <1>2, <2>1, <2>2, <2>3 DEF FixTypes
<1>4. FillsGood /\ HolderPlaces
  <2>1. match = [by |-> match.by, fills |-> match.fills] /\ match.fills = <<>> /\ match.by = "nobody"
    BY <1>1 DEF NoMatch
  <2>2. FillsGood
    BY <1>2, <2>1 DEF FillsGood
  <2> QED
    BY <2>1, <2>2, FixAssumption DEF HolderPlaces
<1>5. QuoteTable
  BY <1>1, <1>2, FixAssumption DEF QuoteTable
<1>6. ListsGood /\ BookApart
  BY <1>1, <1>2 DEF ListsGood, BookApart
<1>7. ASSUME NEW c \in Clients PROVE TaskGood(c)
  BY <1>1 DEF TaskGood, NoTask
<1> QED
  BY <1>2, <1>3, <1>4, <1>5, <1>6, <1>7 DEF FixInv

\* Every step of sessions, handlers, book and hook keeps it.
LEMMA FixStep == FixInv /\ [FixNext]_fixVars => FixInv'
<1> SUFFICES ASSUME FixInv, [FixNext]_fixVars PROVE FixInv'
  OBVIOUS
<1>1. CASE UNCHANGED fixVars
  BY <1>1 DEF fixVars, FixInv, FixTypes, FillsGood, QuoteTable, ListsGood, BookApart, HolderPlaces,
              OrderGood, TaskGood, Listed, HandHas, Gone, Pending
<1>2. CASE FixNext
  <2>1. ASSUME NEW c \in Clients, OnLogon(c) \/ DropSession(c) PROVE FixInv'
    BY <2>1, SessionKeeps
  <2>2. ASSUME NEW c \in Clients, OnLogout(c) PROVE FixInv'
    BY <2>2, LogoutKeeps
  <2>3. ASSUME NEW c \in Clients, NEW cl \in ClOrdIDs, NEW kind \in {"limit", "market"}, NEW size \in Sizes,
               OnNewOrderSingle(c, cl, kind, size)
        PROVE  FixInv'
    BY <2>3, NewOrderKeeps
  <2>4. ASSUME NEW c \in Clients, NEW vol \in {0} \cup Volumes, NEW partner, Place(c, vol, partner) PROVE FixInv'
    BY <2>4, PlaceKeeps
  <2>5. ASSUME NEW c \in Clients, Refused(c) PROVE FixInv'
    BY <2>5, RefusedKeeps
  <2>6. ASSUME NEW c \in Clients,
               RejectReplacement(c) \/ \E orig \in ClOrdIDs, replace \in BOOLEAN : OnOrderCancel(c, orig, replace)
        PROVE  FixInv'
    BY <2>6, HandlerKeeps
  <2>7. ASSUME NEW c \in Clients, EngineCancel(c) PROVE FixInv'
    BY <2>7, EngineCancelKeeps
  <2>8. ASSUME NEW c \in Clients, ReportCancel(c) \/ Replaced(c) PROVE FixInv'
    BY <2>8, CancelledKeeps
  <2>9. ASSUME \/ \E c \in Clients : Quote(c)
               \/ \E q \in DOMAIN quotes : QuoteExpires(q) \/ \E c \in Clients : ConfirmLate(c, q)
        PROVE  FixInv'
    BY <2>9, QuotesKeep
  <2>10. ASSUME NEW c \in Clients, NEW q \in DOMAIN quotes, NEW cl \in ClOrdIDs, NEW size \in Sizes,
                ExecuteQuoted(c, q, cl, size)
         PROVE  FixInv'
    BY <2>10, ExecuteKeeps
  <2>11. ASSUME NEW id \in FixIds, NEW vol \in Volumes, OthersTake(id, vol) PROVE FixInv'
    BY <2>11, TakeKeeps
  <2>12. OnFill => FixInv'
    BY FillKeeps
  <2>13. BookReturns => FixInv'
    BY ReturnKeeps
  <2> QED
    BY ONLY <1>2, <2>1, <2>2, <2>3, <2>4, <2>5, <2>6, <2>7, <2>8, <2>9, <2>10, <2>11, <2>12, <2>13, Zenon DEF FixNext
<1> QED
  BY <1>1, <1>2

\* Orders, lists, book and what is told of them stay together, whatever
\* sessions, fills, cancels and quotes do.
LEMMA FixInductive == FixSpec => []FixInv
BY FixStarts, FixStep, PTL DEF FixSpec

\* No session has two orders of one client id in the book, and no quote is
\* taken twice: the registry and the quote table decide under their locks.
THEOREM FixOneOrder == FixSpec => []OneOrderEach
<1>1. FixInv => OneOrderEach
  BY DEF FixInv, QuoteTable, BookApart, OneOrderEach
<1> QED
  BY <1>1, FixInductive, PTL

\* What a session has been told of its orders is what the book did with them.
THEOREM FixReports == FixSpec => []ReportsTellBook
<1>1. FixInv => ReportsTellBook
  <2> SUFFICES ASSUME FixInv, NEW c \in Clients, Ready(c), match = NoMatch, NEW id \in Known(c)
               PROVE  /\ told[id].cum = traded[id]
                      /\ ordRec[id].kind = "limit" /\ ~ordRec[id].replaced =>
                            (id \in DOMAIN inBook <=> told[id].status \notin Ended)
    BY DEF ReportsTellBook
  <2>1. id \in DOMAIN ordRec /\ ordRec[id].sess = c /\ ordRec[id].cumQty \in Nat /\ OrderGood(id)
    BY DEF Known, FixInv, FixTypes, ListsGood
  <2>2. ~Gone(id) /\ ~HandHas(id)
    BY <2>1 DEF Ready, Gone, HandHas, NoTask
  <2>3. Pending(id) = 0
    <3>1. match.fills = <<>> /\ Len(match.fills) = 0
      BY DEF NoMatch
    <3> QED
      BY <3>1 DEF Pending
  <2>4. told[id].cum = traded[id] /\ traded[id] = ordRec[id].cumQty
    BY <2>1, <2>2, <2>3 DEF OrderGood
  <2> QED
    BY <2>1, <2>2, <2>4 DEF OrderGood
<1> QED
  BY <1>1, FixInductive, PTL

\* An order's reports go up and stop: what ends it is the last that is told,
\* though fills, cancels and replacements of it race.
THEOREM FixAscends == FixSpec => ReportsAscend
<1>1. ASSUME FixInv, [FixNext]_fixVars, NEW id \in DOMAIN told, told'[id] # told[id]
      PROVE  /\ told[id].status \notin Ended
             /\ told'[id].status # "NEW" /\ told'[id].cum >= told[id].cum
  <2>1. /\ DOMAIN told = DOMAIN ordRec /\ OrderGood(id) /\ ordRec[id].cumQty \in Nat
        /\ told[id].cum = ordRec[id].cumQty /\ told \in [DOMAIN ordRec -> [status : Statuses, cum : Nat]]
    BY <1>1 DEF FixInv, FixTypes, OrderGood
  <2>2. ~ordRec[id].done => told[id].status \notin Ended
    BY <2>1 DEF OrderGood
  <2>3. ASSUME NEW k, NEW s, NEW n \in Nat, told' = [told EXCEPT ![k] = [status |-> s, cum |-> n]]
        PROVE  k = id /\ told'[id].status = s /\ told'[id].cum = n
    BY <1>1, <2>1, <2>3
  <2>4. ASSUME NEW c \in Clients, Refused(c) PROVE ~ordRec[id].done /\ told'[id].status # "NEW" /\ told'[id].cum >= told[id].cum
    <3>1. /\ task[c].at = "place" /\ told' = [told EXCEPT ![task[c].id] = [status |-> "REJECTED", cum |-> 0]]
      BY <2>4 DEF Refused
    <3>2. task[c].id = id /\ told'[id].status = "REJECTED" /\ told'[id].cum = 0
      BY <2>3, <3>1
    <3>3. traded[id] = 0 /\ ~ordRec[id].done /\ session[c] = "up" /\ ordRec[id].sess = c
      BY <1>1, <3>1, <3>2 DEF FixInv, TaskGood, NoTask
    <3>4. traded[id] = ordRec[id].cumQty + Pending(id) /\ Pending(id) \in Nat
      BY <1>1, <2>1, <3>3, PendingNat DEF OrderGood, Gone, FixInv
    <3> QED
      BY <2>1, <3>2, <3>3, <3>4
  <2>5. ASSUME NEW c \in Clients, ReportCancel(c) PROVE ~ordRec[id].done /\ told'[id].status # "NEW" /\ told'[id].cum >= told[id].cum
    <3>1. PICK k : k = task[c].id
      OBVIOUS
    <3>2. /\ task[c].at = "cancelled" /\ told' = [told EXCEPT ![k] = [status |-> "CANCELED", cum |-> ordRec[k].cumQty]]
      BY <2>5, <3>1 DEF ReportCancel
    <3>3. ~ordRec[k].done /\ ordRec[k].cumQty \in Nat
      BY <1>1, <3>1, <3>2 DEF FixInv, FixTypes, TaskGood
    <3>4. k = id /\ told'[id].status = "CANCELED" /\ told'[id].cum = ordRec[k].cumQty
      BY <2>3, <3>2, <3>3
    <3> QED
      BY <2>1, <3>3, <3>4
  <2>6. ASSUME OnFill PROVE ~ordRec[id].done /\ told'[id].status # "NEW" /\ told'[id].cum >= told[id].cum
    <3>1. PICK k, v, cum, s :
            /\ k = Head(match.fills)[1] /\ v = Head(match.fills)[2]
            /\ cum = ordRec[k].cumQty + v /\ s = IF cum >= ordRec[k].orderQty THEN "FILLED" ELSE "PARTIAL"
      OBVIOUS
    <3>2. /\ k \in byEngine /\ match.fills # <<>> /\ match' = [match EXCEPT !.fills = Tail(@)]
          /\ told' = [told EXCEPT ![k] = [status |-> s, cum |-> cum]]
      BY <1>1, <2>6, <3>1 DEF OnFill
    <3>3. k \in DOMAIN ordRec /\ v \in Nat \ {0} /\ ~ordRec[k].done
      BY <1>1, <3>1, <3>2, FillTold DEF FixInv
    <3>4. ordRec[k].cumQty \in Nat
      BY <1>1, <3>3 DEF FixInv, FixTypes
    <3>5. cum \in Nat /\ cum >= ordRec[k].cumQty
      BY <3>1, <3>3, <3>4
    <3>6. k = id /\ told'[id].status = s /\ told'[id].cum = cum
      BY <2>3, <3>2, <3>5
    <3> QED
      BY <2>1, <3>1, <3>3, <3>5, <3>6
  <2>7. ASSUME NEW c \in Clients, NEW cl, NEW kind, NEW size, Register(c, cl, kind, size) PROVE FALSE
    <3>1. NewId \notin DOMAIN ordRec
      <4>1. PICK n \in Nat : DOMAIN ordRec = 1..n
        BY <1>1 DEF FixInv, FixTypes
      <4>2. Cardinality(1..n) = n
        BY ONLY n \in Nat, FS_Interval
      <4> QED
        BY <4>1, <4>2 DEF NewId
    <3>2. told'[id] = told[id]
      BY <2>1, <2>7, <3>1 DEF Register, With
    <3> QED
      BY <1>1, <3>2
  <2>8. \/ \E c \in Clients : Refused(c) \/ ReportCancel(c)
        \/ OnFill
        \/ \E c \in Clients, cl \in ClOrdIDs, kind \in {"limit", "market"}, size \in Sizes : Register(c, cl, kind, size)
    <3>1. told' # told
      BY <1>1
    <3>2. ASSUME NEW c \in Clients
          PROVE  /\ ~OnLogon(c) /\ ~OnLogout(c) /\ ~DropSession(c) /\ ~EngineCancel(c) /\ ~Replaced(c)
                 /\ ~RejectReplacement(c) /\ ~Quote(c)
      BY <3>1 DEF OnLogon, OnLogout, DropSession, EngineCancel, Replaced, RejectReplacement, Quote
    <3>3. ASSUME NEW c \in Clients, NEW vol, NEW partner, Place(c, vol, partner) PROVE FALSE
      BY <3>1, <3>3 DEF Place
    <3>4. ASSUME NEW c \in Clients, NEW orig, NEW replace, OnOrderCancel(c, orig, replace) PROVE FALSE
      BY <3>1, <3>4 DEF OnOrderCancel
    <3>5. ASSUME NEW c \in Clients, NEW q, ConfirmLate(c, q) PROVE FALSE
      BY <3>1, <3>5 DEF ConfirmLate
    <3>6. ASSUME NEW q, QuoteExpires(q) PROVE FALSE
      BY <3>1, <3>6 DEF QuoteExpires
    <3>7. ASSUME NEW id1, NEW vol, OthersTake(id1, vol) PROVE FALSE
      BY <3>1, <3>7 DEF OthersTake
    <3>8. ~BookReturns /\ fixVars' # fixVars
      BY <3>1 DEF BookReturns, fixVars
    <3>9. ASSUME NEW c \in Clients, NEW cl, NEW kind, NEW size, OnNewOrderSingle(c, cl, kind, size)
          PROVE  Register(c, cl, kind, size)
      BY <3>9 DEF OnNewOrderSingle
    <3>10. ASSUME NEW c \in Clients, NEW q, NEW cl, NEW size, ExecuteQuoted(c, q, cl, size)
           PROVE  Register(c, cl, "limit", size)
      BY <3>1, <3>10 DEF ExecuteQuoted
    <3>11. FixNext
      BY <1>1, <3>8
    <3> QED
      BY ONLY <3>2, <3>3, <3>4, <3>5, <3>6, <3>7, <3>8, <3>9, <3>10, <3>11 DEF FixNext
  <2> QED
    BY <2>2, <2>4, <2>5, <2>6, <2>7, <2>8
<1>2. FixInv /\ [FixNext]_fixVars =>
        [\A id \in DOMAIN told : told'[id] # told[id] =>
            /\ told[id].status \notin Ended
            /\ told'[id].status # "NEW" /\ told'[id].cum >= told[id].cum]_fixVars
  BY <1>1
<1> QED
  BY <1>2, FixInductive, PTL DEF FixSpec, ReportsAscend
=============================================================================
