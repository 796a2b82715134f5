------------------------------ MODULE FixSession -------------------------------
(***************************************************************************)
(* FIX sessions (internal/api/fix/session.go) and what ties them to the    *)
(* engine.  A session's reader handles one message at a time, and runs     *)
(* what the engine calls on its way: the trade hook, which holds the       *)
(* instrument's lock and sends reports to its own and to other sessions.   *)
(* Sends go through a bounded queue that one writer drains.                *)
(*                                                                         *)
(* What a handler still has to do is a sequence of steps: to take or leave *)
(* the instrument's lock, to send to a session, to end its own session.    *)
(***************************************************************************)
EXTENDS Naturals, Sequences, SequencesExt

CONSTANTS Sessions,
          Outsider,    \* a goroutine of another edge whose orders trade
          Nobody,
          Targets,     \* whom a placement may report to, in order
          OutBuffer,   \* capacity of a session's queue (1024 in the code)
          MaxSeq,      \* bound on the inbound numbers that are read
          MaxEvents    \* bound on the outsider's orders and the gaps, together

ASSUME SessionAssumption ==
    /\ Outsider \notin Sessions /\ Nobody \notin Sessions \cup {Outsider}
    /\ Targets \subseteq Seq(Sessions)
    /\ OutBuffer \in Nat \ {0} /\ MaxSeq \in Nat /\ MaxEvents \in Nat

VARIABLES inSeq,     \* next expected number; 0 before Logon
          outSeq,    \* next number to send
          out,       \* the queue: numbers of encoded messages
          written,   \* the last number written to the connection
          sender,    \* Session.mu: the goroutine inside Send
          todo,      \* what each goroutine's handler still has to do
          bookLock,  \* who holds the instrument
          writer,    \* does writeLoop run?
          closed,    \* is done closed, the reader over?
          peer,      \* is the peer connected?
          handled,   \* history: the last business message's number, or 0
          events     \* how many of these there were

sessionVars == <<inSeq, outSeq, out, written, sender, todo, bookLock, writer, closed,
                 peer, handled, events>>

Goroutines == Sessions \cup {Outsider}
Tell(s) == [do |-> "send", to |-> s]
LockBook == [do |-> "lock"]
FreeBook == [do |-> "unlock"]
EndSession == [do |-> "end"]

SessionInit ==
    /\ inSeq = [s \in Sessions |-> 0] /\ outSeq = [s \in Sessions |-> 1]
    /\ out = [s \in Sessions |-> <<>>] /\ written = [s \in Sessions |-> 0]
    /\ sender = [s \in Sessions |-> Nobody]
    /\ todo = [g \in Goroutines |-> <<>>]
    /\ bookLock = Nobody
    /\ writer = [s \in Sessions |-> TRUE] /\ closed = [s \in Sessions |-> FALSE]
    /\ peer = [s \in Sessions |-> TRUE]
    /\ handled = [s \in Sessions |-> 0]
    /\ events = 0
-----------------------------------------------------------------------------
(* The reader: Run and handle                                              *)

Reading(s) == ~closed[s] /\ todo[s] = <<>> /\ peer[s]
Do(g, steps) == todo' = [todo EXCEPT ![g] = steps]
Expect(s, seq) == inSeq' = [inSeq EXCEPT ![s] = seq]
Disturb == events < MaxEvents /\ events' = events + 1

\* What the trade hook sends while the instrument is locked: reports to the
\* sessions of the orders that met, and market data to subscribers.
Reports == {[i \in DOMAIN t |-> Tell(t[i])] : t \in Targets}
UnderLock(steps) == <<LockBook>> \o steps \o <<FreeBook>>

\* What the business handlers do: an order is acknowledged and then placed, a
\* cancel goes to the book first, a replacement does both, and a market data
\* request, a quote or a refusal takes the lock for a look or not at all.
Handlers(s) ==
    {<<Tell(s)>> \o UnderLock(r) : r \in Reports}
    \cup {UnderLock(<<>>) \o <<Tell(s)>>, <<Tell(s)>>}
    \cup {UnderLock(<<>>) \o <<Tell(s)>> \o UnderLock(r) : r \in Reports}

\* The peer numbers from 1.
Logon(s) ==
    /\ Reading(s) /\ inSeq[s] = 0
    /\ Expect(s, 2) /\ Do(s, <<Tell(s)>>)
    /\ UNCHANGED <<outSeq, out, written, sender, bookLock, writer, closed, peer, handled, events>>

\* Mutant: a reset may lower the expected number.
ResetRewinds(s, newSeq) ==
    /\ Reading(s) /\ inSeq[s] > 0
    /\ Expect(s, newSeq)
    /\ UNCHANGED <<outSeq, out, written, sender, todo, bookLock, writer, closed, peer, handled,
                   events>>

ResetSequence(s, newSeq) ==
    /\ Reading(s) /\ inSeq[s] > 0 /\ newSeq >= inSeq[s]
    /\ Expect(s, newSeq)
    /\ UNCHANGED <<outSeq, out, written, sender, todo, bookLock, writer, closed, peer, handled,
                   events>>

\* A number ahead of the expected one is answered with a resend request and
\* the message dropped; one behind it is ignored.
GapFound(s, seq) ==
    /\ Reading(s) /\ inSeq[s] > 0 /\ seq > inSeq[s]
    /\ Disturb
    /\ Do(s, <<Tell(s)>>)
    /\ UNCHANGED <<inSeq, outSeq, out, written, sender, bookLock, writer, closed, peer, handled>>

\* Heartbeats are not answered; test and resend requests and messages the
\* dictionary refuses are; a logout also ends the session.
Administer(s) ==
    /\ Reading(s) /\ inSeq[s] \in 1..MaxSeq
    /\ Expect(s, inSeq[s] + 1)
    /\ \E steps \in {<<>>, <<Tell(s)>>, <<Tell(s), EndSession>>} : Do(s, steps)
    /\ UNCHANGED <<outSeq, out, written, sender, bookLock, writer, closed, peer, handled, events>>

Business(s) ==
    /\ Reading(s) /\ inSeq[s] \in 1..MaxSeq
    /\ Expect(s, inSeq[s] + 1)
    /\ handled' = [handled EXCEPT ![s] = inSeq[s]]
    /\ \E steps \in Handlers(s) : Do(s, steps)
    /\ UNCHANGED <<outSeq, out, written, sender, bookLock, writer, closed, peer, events>>

\* The connection broke, or what came was no FIX message or no Logon.
ReadFails(s) ==
    /\ ~closed[s] /\ todo[s] = <<>>
    /\ closed' = [closed EXCEPT ![s] = TRUE]
    /\ UNCHANGED <<inSeq, outSeq, out, written, sender, todo, bookLock, writer, peer, handled, events>>

PeerLeaves(s) ==
    /\ peer[s]
    /\ peer' = [peer EXCEPT ![s] = FALSE]
    /\ UNCHANGED <<inSeq, outSeq, out, written, sender, todo, bookLock, writer, closed, handled,
                   events>>

\* Another edge's order meets orders of sessions.
OutsiderTrades ==
    /\ todo[Outsider] = <<>> /\ Disturb
    /\ \E r \in Reports : Do(Outsider, UnderLock(r))
    /\ UNCHANGED <<inSeq, outSeq, out, written, sender, bookLock, writer, closed, peer, handled>>
-----------------------------------------------------------------------------
(* The steps of a handler                                                  *)

Next1(g, do) == todo[g] # <<>> /\ Head(todo[g]).do = do
Advance(g) == todo' = [todo EXCEPT ![g] = Tail(@)]

TakeBook(g) ==
    /\ Next1(g, "lock") /\ bookLock = Nobody
    /\ bookLock' = g /\ Advance(g)
    /\ UNCHANGED <<inSeq, outSeq, out, written, sender, writer, closed, peer, handled, events>>

LeaveBook(g) ==
    /\ Next1(g, "unlock")
    /\ bookLock' = Nobody /\ Advance(g)
    /\ UNCHANGED <<inSeq, outSeq, out, written, sender, writer, closed, peer, handled, events>>

End(s) ==
    /\ Next1(s, "end")
    /\ closed' = [closed EXCEPT ![s] = TRUE] /\ Advance(s)
    /\ UNCHANGED <<inSeq, outSeq, out, written, sender, bookLock, writer, peer, handled, events>>

\* Mutant: the mutex guards the number alone.
StampUnlocked(g) ==
    LET s == Head(todo[g]).to
    IN  /\ Next1(g, "send")
        /\ outSeq' = [outSeq EXCEPT ![s] = @ + 1]
        /\ todo' = [todo EXCEPT ![g][1] = [do |-> "queue", to |-> s, seq |-> outSeq[s]]]
        /\ UNCHANGED <<inSeq, out, written, sender, bookLock, writer, closed, peer, handled, events>>

\* Send takes the session's mutex and a number, ...
StampMessage(g) ==
    LET s == Head(todo[g]).to
    IN  /\ Next1(g, "send") /\ sender[s] = Nobody
        /\ sender' = [sender EXCEPT ![s] = g]
        /\ outSeq' = [outSeq EXCEPT ![s] = @ + 1]
        /\ todo' = [todo EXCEPT ![g][1] = [do |-> "queue", to |-> s, seq |-> outSeq[s]]]
        /\ UNCHANGED <<inSeq, out, written, bookLock, writer, closed, peer, handled, events>>

\* ... and keeps it until the queue has room or the session is over.
Enqueue(g) ==
    LET s == Head(todo[g]).to
    IN  /\ Next1(g, "queue")
        /\ \/ Len(out[s]) < OutBuffer /\ out' = [out EXCEPT ![s] = Append(@, Head(todo[g]).seq)]
           \/ closed[s] /\ UNCHANGED out
        /\ sender' = [sender EXCEPT ![s] = Nobody] /\ Advance(g)
        /\ UNCHANGED <<inSeq, outSeq, written, bookLock, writer, closed, peer, handled, events>>
-----------------------------------------------------------------------------
(* writeLoop                                                               *)

\* Mutant: the writer, too, takes the session's mutex.
WriteLocked(s) ==
    /\ writer[s] /\ out[s] # <<>> /\ peer[s] /\ sender[s] = Nobody
    /\ out' = [out EXCEPT ![s] = Tail(@)]
    /\ written' = [written EXCEPT ![s] = Head(out[s])]
    /\ UNCHANGED <<inSeq, outSeq, sender, todo, bookLock, writer, closed, peer, handled, events>>

Write(s) ==
    /\ writer[s] /\ out[s] # <<>> /\ peer[s]
    /\ out' = [out EXCEPT ![s] = Tail(@)]
    /\ written' = [written EXCEPT ![s] = Head(out[s])]
    /\ UNCHANGED <<inSeq, outSeq, sender, todo, bookLock, writer, closed, peer, handled, events>>

\* A write fails, or done is chosen, with messages left in the queue or not.
WriterEnds(s) ==
    /\ writer[s] /\ (closed[s] \/ (out[s] # <<>> /\ ~peer[s]))
    /\ writer' = [writer EXCEPT ![s] = FALSE]
    /\ UNCHANGED <<inSeq, outSeq, out, written, sender, todo, bookLock, closed, peer, handled,
                   events>>
-----------------------------------------------------------------------------
Steps(g) == TakeBook(g) \/ LeaveBook(g) \/ StampMessage(g) \/ Enqueue(g)

SessionNext ==
    \/ \E s \in Sessions :
          \/ \E seq \in 1..(MaxSeq + 1) : ResetSequence(s, seq) \/ GapFound(s, seq)
          \/ Logon(s) \/ Administer(s) \/ Business(s) \/ ReadFails(s) \/ PeerLeaves(s)
          \/ End(s) \/ Write(s) \/ WriterEnds(s)
    \/ \E g \in Goroutines :
          TakeBook(g) \/ LeaveBook(g) \/ StampMessage(g) \/ Enqueue(g)
    \/ OutsiderTrades

\* Goroutines run on, a lock that comes free again and again is got, and a
\* connected peer reads.
SessionFairness ==
    /\ \A g \in Goroutines : SF_sessionVars(Steps(g))
    /\ \A s \in Sessions : WF_sessionVars(End(s)) /\ WF_sessionVars(Write(s) \/ WriterEnds(s))
    /\ \A s \in Sessions : WF_sessionVars(ReadFails(s) /\ ~peer[s])

SessionSpec == SessionInit /\ [][SessionNext]_sessionVars /\ SessionFairness
-----------------------------------------------------------------------------
InHand(s) == {g \in Goroutines : Next1(g, "queue") /\ Head(todo[g]).to = s}

\* Both directions keep their numbers: while a session is open, what is written
\* and queued carries one number after the other, whoever sent it, with at most
\* one more in hand; and business messages are handled in the order of their
\* numbers and none twice, whatever resets, gaps and repeats the peer sends.
NumbersKept ==
    \A s \in Sessions :
        /\ \A i \in DOMAIN out[s] : closed[s] \/ out[s][i] = written[s] + i
        /\ closed[s] \/ InHand(s) # {} \/ outSeq[s] = written[s] + Len(out[s]) + 1
        /\ inSeq[s] > 0 => handled[s] < inSeq[s]

\* However the hooks of one session's orders wait for the queues of another's,
\* every handler ends as long as the peers read what they are sent.
HandlersEnd ==
    [](\A s \in Sessions : peer[s]) => \A g \in Goroutines : []<>(todo[g] = <<>>)

\* session.go:50-54: the engine is only held back while a client backs up.  A
\* client that has left holds nothing back.
EngineFreed == []<>(bookLock = Nobody)
=============================================================================
