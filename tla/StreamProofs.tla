---------------------------- MODULE StreamProofs ----------------------------
(* What is proved of the streams and of what admits their clients: the listen  *)
(* keys (ListenKeys.tla), the engine's events on their way to the native       *)
(* streams and to the journal (EventStream.tla), the limiter of requests       *)
(* (RateLimit.tla) and the two depth channels (DiffDepth.tla, Level2.tla).     *)
EXTENDS EventStream, ListenKeys, RateLimit, DiffDepth, Level2, SequenceTheorems, FiniteSetTheorems, TLAPS

-----------------------------------------------------------------------------
(* Listen keys. *)

\* A key whose DELETE succeeded is in nobody's hands, unless a keepalive had
\* looked at it by then; and a key that was never drawn is nowhere.
ListenInv ==
    /\ hour \in Nat
    /\ touched \in [Keys -> Nat \cup {Never}]
    /\ keeping \in [KeyUsers -> SUBSET Keys]
    /\ live \subseteq Keys /\ removed \subseteq Keys
    /\ \A k \in live \cup removed : Drawn(k)
    /\ removed \cap live \subseteq raced
    /\ \A u \in KeyUsers : keeping[u] \cap removed \subseteq raced

\* One step of the manager keeps ListenInv: StoreKeepalive may bring back only
\* a key that was raced, CreateKey only one that was never drawn.
LEMMA ListenStep == ListenInv /\ [ListenNext]_listenVars => ListenInv'
<1> SUFFICES ASSUME ListenInv, [ListenNext]_listenVars PROVE ListenInv'
  OBVIOUS
<1>1. ASSUME NEW k \in Keys, ConnectStream(k) PROVE ListenInv'
  BY <1>1 DEF ListenInv, ConnectStream, Prune, Drawn
<1>2. ASSUME NEW k \in Keys, NEW u \in KeyUsers, CreateKey(u, k) PROVE ListenInv'
  <2>1. k \notin live \cup removed /\ hour # Never
    BY <1>2 DEF ListenInv, CreateKey, Drawn, Never
  <2> QED
    BY <1>2, <2>1 DEF ListenInv, CreateKey, Drawn
<1>3. ASSUME NEW k \in Keys, NEW u \in KeyUsers, AskKeepalive(u, k) PROVE ListenInv'
  <2>1. live' \subseteq live /\ UNCHANGED <<hour, touched, removed, raced>>
    BY <1>3 DEF AskKeepalive, Prune
  <2>2. PICK S \in SUBSET Keys : S \subseteq live /\ keeping' = [keeping EXCEPT ![u] = S]
    BY <1>3 DEF AskKeepalive, IsLive, ListenInv
  <2> QED
    BY <2>1, <2>2 DEF ListenInv, Drawn
<1>4. ASSUME NEW k \in Keys, NEW u \in KeyUsers, RemoveKey(u, k) PROVE ListenInv'
  BY <1>4 DEF ListenInv, RemoveKey, Drawn
<1>5. ASSUME NEW u \in KeyUsers, StoreKeepalive(u) PROVE ListenInv'
  <2>1. PICK k \in keeping[u] :
            /\ live' = live \cup {k} /\ touched' = [touched EXCEPT ![k] = hour]
            /\ keeping' = [keeping EXCEPT ![u] = {}]
            /\ UNCHANGED <<hour, removed, raced>>
    BY <1>5 DEF StoreKeepalive
  <2>2. k \in Keys /\ hour # Never
    BY <2>1 DEF ListenInv, Never
  <2> QED
    BY <2>1, <2>2 DEF ListenInv, Drawn
<1>6. CASE ListenTick
  BY <1>6 DEF ListenInv, ListenTick, Drawn
<1>7. CASE UNCHANGED listenVars
  BY <1>7 DEF ListenInv, listenVars, Drawn
<1> QED
  BY <1>1, <1>2, <1>3, <1>4, <1>5, <1>6, <1>7 DEF ListenNext

\* listenkey.go keepalive, valid, remove: for any number of users, keys and any
\* time to live, a listen key whose DELETE succeeded does not come back, unless
\* a keepalive of it stood between its two holds of the lock as it went.
THEOREM ListenKeysRemoved == ListenSpec => []RemovedStaysRemoved
<1>1. ListenInit => ListenInv
  BY DEF ListenInit, ListenInv
<1>2. ListenInv => RemovedStaysRemoved
  BY DEF ListenInv, RemovedStaysRemoved
<1> QED
  BY <1>1, <1>2, ListenStep, PTL DEF ListenSpec

-----------------------------------------------------------------------------
(* The engine's events: what the channels and the journal hold. *)

Events == [kind : {"event"}, inst : Instruments, n : Nat, by : Nat, run : Nat]
Updates == [kind : {"event", "reply"}, inst : Instruments, n : Nat, by : Nat, run : Nat]
Entries == [kind : {"intent"}, inst : Instruments, by : Nat, run : Nat] \cup Events
Handlers == [at : {"off", "serving", "closed", "gone"}]
              \cup [at : {"intended", "matching"}, inst : Instruments, id : Nat, left : Nat, own : Seq(Events)]
              \cup [at : {"replying"}, own : Seq(Events) \ {<<>>}]

WalTypes ==
    /\ journal.file \in Seq(Entries) /\ journal.buffer \in Seq(Entries) /\ journal.pending \in Nat
    /\ journal = [file |-> journal.file, buffer |-> journal.buffer,
                  pending |-> journal.pending, broken |-> journal.broken]
StreamTypes ==
    /\ runs \in Nat /\ commands \in Nat
    /\ fired \in [Instruments -> Nat]
    /\ handler \in [Sockets -> Handlers]
    /\ watchers \subseteq Sockets
    /\ channel \in Seq(Events)
    /\ updates \in [Sockets -> Seq(Events)] /\ wire \in [Sockets -> Seq(Updates)]
    /\ fan \in [event : Events \cup {NoEvent}, todo : SUBSET Sockets, to : Sockets \cup {NoStream}]
    /\ (fan.to # NoStream \/ fan.todo # {}) => fan.event \in Events
    /\ WalTypes

\* What is known of a sequence that gets an element at its end, loses its head
\* or is followed by another.
LEMMA Longer ==
  ASSUME NEW S, NEW q \in Seq(S), NEW e \in S, NEW r, r = Append(q, e), NEW m, m = Len(q)
  PROVE  /\ r \in Seq(S) /\ m \in Nat /\ Len(r) = m + 1
         /\ r[m + 1] = e /\ \A i \in 1..m : r[i] = q[i]
BY AppendProperties, LenProperties

LEMMA Shorter ==
  ASSUME NEW S, NEW q \in Seq(S), q # <<>>, NEW e, e = Head(q), NEW r, r = Tail(q), NEW m, m = Len(r)
  PROVE  /\ e \in S /\ e = q[1] /\ r \in Seq(S) /\ m \in Nat /\ Len(q) = m + 1
         /\ \A i \in 1..m : r[i] = q[i + 1]
<1>1. Len(q) \in Nat \ {0} /\ r \in Seq(S)
  BY EmptySeq, HeadTailProperties
<1>2. m \in Nat
  BY <1>1, LenProperties
<1>3. m = Len(q) - 1 /\ \A i \in 1..m : r[i] = q[i + 1]
  BY HeadTailProperties
<1>4. e \in S /\ e = q[1]
  BY HeadTailProperties
<1>5. Len(q) = m + 1
  BY <1>1, <1>3
<1> QED
  BY <1>1, <1>2, <1>3, <1>4, <1>5

LEMMA Joined ==
  ASSUME NEW S, NEW w \in Seq(S), NEW u \in Seq(S), NEW q, q = w \o u,
         NEW m, m = Len(w), NEW l, l = Len(u)
  PROVE  /\ q \in Seq(S) /\ m \in Nat /\ l \in Nat /\ Len(q) = m + l
         /\ \A i \in 1..m : q[i] = w[i]
         /\ \A i \in 1..l : q[m + i] = u[i]
<1>1. m \in Nat /\ l \in Nat
  BY LenProperties
<1>2. q \in Seq(S)
  BY ConcatProperties
<1>3. Len(q) = m + l /\ \A i \in 1..(m + l) : q[i] = IF i <= m THEN w[i] ELSE u[i - m]
  BY <1>1, <1>2, ConcatProperties
<1>4. \A i \in 1..m : q[i] = w[i]
  BY <1>1, <1>3
<1>5. \A i \in 1..l : q[m + i] = u[i]
  <2> TAKE i \in 1..l
  <2>1. m + i \in 1..(m + l) /\ ~ (m + i =< m) /\ m + i - m = i
    BY <1>1
  <2> QED
    BY <1>3, <2>1
<1> QED
  BY <1>1, <1>2, <1>3, <1>4, <1>5

\* Log keeps the journal a sequence of entries.
LEMMA LogTypes ==
  ASSUME StreamTypes, NEW entry \in Entries, Log(entry)
  PROVE  WalTypes'
<1>0. PICK k : k = journal.broken
  OBVIOUS
<1>1. PICK f \in Seq(Entries), b \in Seq(Entries), n \in Nat :
          journal = [file |-> f, buffer |-> b, pending |-> n, broken |-> k]
  BY <1>0 DEF StreamTypes, WalTypes
<1>2. PICK c \in Seq(Entries) : c = Append(b, entry)
  BY AppendProperties
<1>3. PICK g \in Seq(Entries) : g = f \o c
  BY ConcatProperties
<1>4. \/ journal' = journal
      \/ journal' = [file |-> f, buffer |-> c, pending |-> n + 1, broken |-> k]
      \/ journal' = [file |-> g, buffer |-> <<>>, pending |-> 0, broken |-> k]
      \/ journal' = [file |-> f, buffer |-> c, pending |-> n + 1, broken |-> TRUE]
  BY <1>1, <1>2, <1>3 DEF Log
<1>5. n + 1 \in Nat /\ <<>> \in Seq(Entries)
  BY EmptySeq
<1>6. ASSUME NEW F \in Seq(Entries), NEW B \in Seq(Entries), NEW N \in Nat, NEW K,
             journal' = [file |-> F, buffer |-> B, pending |-> N, broken |-> K]
      PROVE  WalTypes'
  BY ONLY <1>6 DEF WalTypes
<1>7. CASE journal' = journal
  BY ONLY <1>1, <1>6, <1>7
<1>8. CASE journal' = [file |-> f, buffer |-> c, pending |-> n + 1, broken |-> k]
  BY ONLY <1>5, <1>6, <1>8
<1>9. CASE journal' = [file |-> g, buffer |-> <<>>, pending |-> 0, broken |-> k]
  BY ONLY <1>5, <1>6, <1>9
<1>10. CASE journal' = [file |-> f, buffer |-> c, pending |-> n + 1, broken |-> TRUE]
  BY ONLY <1>5, <1>6, <1>10
<1> QED
  BY ONLY <1>4, <1>7, <1>8, <1>9, <1>10

\* TakeEvent takes the head of the channel.
LEMMA TakesHead ==
  ASSUME StreamTypes, TakeEvent
  PROVE  /\ channel # <<>> /\ channel' = Tail(channel)
         /\ fan' = [event |-> channel[1], todo |-> watchers, to |-> NoStream]
<1>1. PICK p \in Pick : /\ fan' = [event |-> channel[p], todo |-> watchers, to |-> NoStream]
                        /\ channel' = SubSeq(channel, 1, p - 1) \o SubSeq(channel, p + 1, Len(channel))
  BY DEF TakeEvent
<1>2. p = 1 /\ channel \in Seq(Events) /\ 1 \in DOMAIN channel
  BY <1>1 DEF Pick, StreamTypes
<1>3. channel # <<>>
  BY <1>2
<1>4. PICK q \in Seq(Events) : q = Tail(channel) /\ q = SubSeq(channel, 2, Len(channel))
  BY <1>2, <1>3, HeadTailProperties, TailIsSubSeq
<1>5. SubSeq(channel, 1, 0) = <<>>
  BY <1>2, SubSeqEmpty
<1>6. p - 1 = 0 /\ p + 1 = 2
  BY <1>2
<1>7. <<>> \o q = q
  BY <1>4, ConcatEmptySeq
<1> QED
  BY ONLY <1>1, <1>2, <1>3, <1>4, <1>5, <1>6, <1>7

\* What a command's handler does next with what it has yet to tell.
LEMMA AnswerTypes ==
  ASSUME NEW s \in Sockets, NEW own \in Seq(Events), Answering(s, own)
  PROVE  \E h \in Handlers : /\ handler' = [handler EXCEPT ![s] = h]
                             /\ h.at \in {"serving", "replying"} /\ (h.at = "replying" => h.own = own)
<1>1. CASE s \in Streaming /\ own # <<>>
  <2>1. PICK h : h = [at |-> "replying", own |-> own]
    OBVIOUS
  <2>2. h \in Handlers /\ h.at = "replying" /\ h.own = own
    BY <1>1, <2>1 DEF Handlers
  <2> QED
    BY <1>1, <2>1, <2>2 DEF Answering, Now
<1>2. CASE ~ (s \in Streaming /\ own # <<>>)
  <2>1. PICK h : h = [at |-> "serving"]
    OBVIOUS
  <2>2. h \in Handlers /\ h.at = "serving"
    BY <2>1 DEF Handlers
  <2> QED
    BY <1>2, <2>1, <2>2 DEF Answering, Now
<1> QED
  BY <1>1, <1>2

\* What is left to tell is a sequence of events, and is not empty in a reply.
LEMMA OwnTypes ==
  ASSUME StreamTypes, NEW s \in Sockets, handler[s].at \in {"intended", "matching", "replying"}
  PROVE  /\ handler[s].own \in Seq(Events)
         /\ handler[s].at = "replying" => handler[s].own # <<>>
<1>1. PICK h \in Handlers : h = handler[s] /\ h.at \in {"intended", "matching", "replying"}
  BY DEF StreamTypes
<1> QED
  BY <1>1 DEF Handlers

\* The update an answer brings of an event.
LEMMA ReplySays ==
  ASSUME NEW e \in Events
  PROVE  /\ [e EXCEPT !.kind = "reply"] \in Updates /\ [e EXCEPT !.kind = "reply"].kind = "reply"
         /\ [e EXCEPT !.kind = "reply"].inst = e.inst /\ [e EXCEPT !.kind = "reply"].n = e.n
BY DEF Events, Updates

\* What Fire does, with the event it brings about.
LEMMA FireDoes ==
  ASSUME StreamTypes, NEW s \in Sockets, Fire(s)
  PROVE  \E e \in Events, h \in Handlers :
            /\ h = [at |-> "matching", inst |-> handler[s].inst, id |-> handler[s].id,
                    left |-> handler[s].left - 1, own |-> Append(handler[s].own, e)]
            /\ handler' = [handler EXCEPT ![s] = h] /\ handler[s].at = "matching"
            /\ e.inst = handler[s].inst /\ e.n = fired[e.inst] + 1 /\ e.by = handler[s].id /\ e.run = runs
            /\ Log(e) /\ channel' = Offer(channel, EventCap, e)
            /\ fired' = [fired EXCEPT ![e.inst] = @ + 1]
            /\ UNCHANGED <<status, runs, fan, updates, wire>>
<1>1. PICK i \in Instruments, b \in Nat, l \in Nat, o \in Seq(Events) :
          /\ handler[s] = [at |-> "matching", inst |-> i, id |-> b, left |-> l, own |-> o] /\ l > 0
  <2>1. PICK g \in Handlers : g = handler[s] /\ g.at = "matching" /\ g.left > 0
    BY DEF StreamTypes, Fire, Is
  <2> QED
    BY <2>1 DEF Handlers
<1>2. PICK m \in Nat, r \in Nat : m = fired[i] + 1 /\ r = runs
  BY DEF StreamTypes
<1>3. PICK e \in Events : e = [kind |-> "event", inst |-> i, n |-> m, by |-> b, run |-> r]
  BY ONLY <1>1, <1>2 DEF Events
<1>4. PICK c \in Seq(Events) : c = Append(o, e)
  BY AppendProperties
<1>5. PICK h \in Handlers : h = [at |-> "matching", inst |-> i, id |-> b, left |-> l - 1, own |-> c]
  <2>1. l - 1 \in Nat
    BY <1>1
  <2> QED
    BY <2>1, <1>1, <1>4 DEF Handlers
<1>6. e.inst = i /\ e.n = m /\ e.by = b /\ e.run = r
  BY <1>3
<1>7. /\ Log(e) /\ channel' = Offer(channel, EventCap, e) /\ fired' = [fired EXCEPT ![i] = @ + 1]
      /\ handler' = [handler EXCEPT ![s] = [handler[s] EXCEPT !.left = @ - 1, !.own = Append(@, e)]]
      /\ UNCHANGED <<status, runs, fan, updates, wire>>
  BY <1>1, <1>2, <1>3 DEF Fire, Now
<1>10. PICK g : g = [at |-> "matching", inst |-> i, id |-> b, left |-> l, own |-> o] /\ g = handler[s]
  BY <1>1
<1>11. g.inst = i /\ g.id = b /\ g.left = l /\ g.own = o /\ g.at = "matching"
  BY ONLY <1>10
<1>8. [handler[s] EXCEPT !.left = @ - 1, !.own = Append(@, e)] = h
  <2>1. PICK d, f : d = l - 1 /\ f = [g EXCEPT !.left = d]
    OBVIOUS
  <2>2. f = [at |-> "matching", inst |-> i, id |-> b, left |-> d, own |-> o]
    BY ONLY <1>10, <2>1
  <2>5. h = [at |-> "matching", inst |-> i, id |-> b, left |-> d, own |-> c]
    BY ONLY <1>5, <2>1
  <2>3. [f EXCEPT !.own = c] = h
    BY ONLY <2>2, <2>5
  <2>4. [g EXCEPT !.left = d, !.own = c] = h
    BY ONLY <2>1, <2>3
  <2> QED
    BY ONLY <2>1, <2>4, <1>4, <1>10, <1>11
<1>9. /\ h = [at |-> "matching", inst |-> handler[s].inst, id |-> handler[s].id,
              left |-> handler[s].left - 1, own |-> Append(handler[s].own, e)]
      /\ handler[s].at = "matching" /\ handler[s].inst = i /\ handler[s].id = b
  BY ONLY <1>4, <1>5, <1>10, <1>11
<1> QED
  BY <1>2, <1>6, <1>7, <1>8, <1>9

\* The events, the queues and the goroutines' locals are what they seem.
LEMMA StreamTypesStep == StreamTypes /\ [StreamNext]_streamVars => StreamTypes'
<1> SUFFICES ASSUME StreamTypes, [StreamNext]_streamVars PROVE StreamTypes'
  OBVIOUS
<1> USE StreamAssumption
<1>1. ASSUME NEW s \in Sockets, Connect(s) PROVE StreamTypes'
  BY <1>1 DEF StreamTypes, WalTypes, Connect, Now, Handlers
<1>2. ASSUME NEW s \in Sockets, EnterBook(s) PROVE StreamTypes'
  <2>1. PICK h \in Handlers : h = handler[s] /\ h.at = "intended"
    BY <1>2 DEF StreamTypes, WalTypes, EnterBook, Is
  <2>2. [h EXCEPT !.at = "matching"] \in Handlers
    BY <2>1 DEF Handlers
  <2> QED
    BY <1>2, <2>1, <2>2 DEF StreamTypes, WalTypes, EnterBook, Now
<1>3. ASSUME NEW s \in Sockets, Fire(s) PROVE StreamTypes'
  <2>1. PICK e \in Events, h \in Handlers :
            /\ handler' = [handler EXCEPT ![s] = h] /\ Log(e) /\ channel' = Offer(channel, EventCap, e)
            /\ fired' = [fired EXCEPT ![e.inst] = @ + 1]
    BY <1>3, FireDoes
  <2>2. e \in Entries /\ e.inst \in Instruments
    BY DEF Entries, Events
  <2>3. channel' \in Seq(Events)
    BY <2>1, AppendProperties DEF StreamTypes, Offer
  <2>4. fired' \in [Instruments -> Nat] /\ handler' \in [Sockets -> Handlers]
    BY <2>1, <2>2 DEF StreamTypes
  <2> QED
    BY <1>3, <2>1, <2>2, <2>3, <2>4, LogTypes DEF StreamTypes, Fire
<1>4. ASSUME NEW s \in Sockets, BookReplies(s) PROVE StreamTypes'
  <2>1. handler[s].own \in Seq(Events)
    BY <1>4, OwnTypes DEF BookReplies, Is
  <2>2. PICK h \in Handlers : handler' = [handler EXCEPT ![s] = h]
    <3>1. PICK own \in Seq(Events) : Answering(s, own)
      BY <1>4, <2>1 DEF BookReplies
    <3> QED
      BY <3>1, AnswerTypes
  <2> QED
    BY <1>4, <2>2 DEF StreamTypes, WalTypes, BookReplies
<1>16. ASSUME NEW s \in Sockets, Reply(s) PROVE StreamTypes'
  <2>1. PICK o \in Seq(Events) : o = handler[s].own /\ o # <<>>
    BY <1>16, OwnTypes DEF Reply, Is
  <2>2. Head(o) \in Events /\ Tail(o) \in Seq(Events)
    BY <2>1, HeadTailProperties
  <2>3. PICK r \in Updates : r = [Head(o) EXCEPT !.kind = "reply"]
    BY <2>2, ReplySays
  <2>4. PICK w \in Seq(Updates) : w = Append(wire[s], r)
    BY AppendProperties DEF StreamTypes
  <2>5. PICK h \in Handlers : handler' = [handler EXCEPT ![s] = h]
    <3>1. PICK own \in Seq(Events) : Answering(s, own)
      BY <1>16, <2>1, <2>2 DEF Reply
    <3> QED
      BY <3>1, AnswerTypes
  <2>6. wire' = [wire EXCEPT ![s] = w]
    BY <1>16, <2>1, <2>3, <2>4 DEF Reply, StreamTypes
  <2> QED
    BY <1>16, <2>5, <2>6 DEF StreamTypes, WalTypes, Reply
<1>5. ASSUME NEW s \in Sockets, Forward(s) PROVE StreamTypes'
  <2>1. PICK u \in Seq(Events) : u = updates[s] /\ u # <<>>
    BY <1>5 DEF StreamTypes, WalTypes, Forward
  <2>2. Head(u) \in Events /\ Tail(u) \in Seq(Events)
    BY <2>1, HeadTailProperties
  <2>3. PICK w \in Seq(Updates) : w = Append(wire[s], Head(u))
    <3>1. Head(u) \in Updates
      BY <2>2 DEF Events, Updates
    <3> QED
      BY <3>1, AppendProperties DEF StreamTypes
  <2> QED
    BY <1>5, <2>1, <2>2, <2>3 DEF StreamTypes, WalTypes, Forward
<1>6. ASSUME NEW s \in Sockets, StreamLeaves(s) PROVE StreamTypes'
  BY <1>6 DEF StreamTypes, WalTypes, StreamLeaves, Now, Handlers
<1>7. ASSUME NEW s \in Sockets, Forget(s) PROVE StreamTypes'
  BY <1>7 DEF StreamTypes, WalTypes, Forget, Now, Handlers
<1>8. ASSUME NEW s \in Sockets, ReachStream(s) PROVE StreamTypes'
  BY <1>8 DEF StreamTypes, WalTypes, ReachStream
<1>9. ASSUME NEW s \in Sockets, NEW inst \in Instruments, NEW burst \in Bursts, Command(s, inst, burst)
      PROVE  StreamTypes'
  <2>1. PICK e \in Entries : e = [kind |-> "intent", inst |-> inst, by |-> commands + 1, run |-> runs]
    <3>1. commands + 1 \in Nat /\ runs \in Nat
      BY DEF StreamTypes
    <3> QED
      BY ONLY <3>1 DEF Entries
  <2>2. Log(e)
    BY <1>9, <2>1 DEF Command
  <2>3. [at |-> "intended", inst |-> inst, id |-> commands + 1, left |-> burst, own |-> <<>>] \in Handlers
    <3>1. commands + 1 \in Nat /\ burst \in Nat
      <4>1. commands \in Nat
        BY DEF StreamTypes
      <4>2. Bursts \subseteq Nat
        BY DEF StreamAssumption
      <4> QED
        BY ONLY <4>1, <4>2
    <3> QED
      BY ONLY <3>1, EmptySeq DEF Handlers
  <2> QED
    BY <1>9, <2>2, <2>3, LogTypes DEF StreamTypes, Command, Now
<1>10. CASE TakeEvent
  <2>1. channel \in Seq(Events) /\ channel # <<>> => channel[1] \in Events /\ Tail(channel) \in Seq(Events)
    BY HeadTailProperties
  <2> QED
    <3>1. channel' \in Seq(Events) /\ fan' \in [event : Events \cup {NoEvent}, todo : SUBSET Sockets,
                                                   to : Sockets \cup {NoStream}]
      <4>1. channel # <<>> /\ channel' = Tail(channel)
            /\ fan' = [event |-> channel[1], todo |-> watchers, to |-> NoStream]
        BY <1>10, TakesHead
      <4>2. channel[1] \in Events /\ Tail(channel) \in Seq(Events) /\ watchers \in SUBSET Sockets
        BY <2>1, <4>1 DEF StreamTypes
      <4> QED
        BY ONLY <4>1, <4>2
    <3>2. fan'.event \in Events
      BY <1>10, <2>1, TakesHead DEF StreamTypes
    <3> QED
      BY <1>10, <3>1, <3>2 DEF StreamTypes, WalTypes, TakeEvent
<1>11. CASE HandOver
  <2>1. CASE fan.to \in shut
    BY <1>11, <2>1 DEF HandOver, StreamTypes, WalTypes
  <2>2. CASE fan.to \notin shut
    <3>1. PICK u : u = fan.to /\ u \in Sockets /\ updates' = [updates EXCEPT ![u] = Offer(@, UpdateCap, fan.event)]
      BY <1>11, <2>2 DEF HandOver, StreamTypes
    <3>2. PICK q \in Seq(Events) : q = Offer(updates[u], UpdateCap, fan.event)
      <4>1. updates[u] \in Seq(Events) /\ fan.event \in Events
        BY <1>11, <3>1 DEF StreamTypes, HandOver
      <4> QED
        BY <4>1, AppendProperties DEF Offer
    <3> QED
      BY <1>11, <2>2, <3>1, <3>2 DEF HandOver, StreamTypes, WalTypes
  <2> QED
    BY <2>1, <2>2
<1>12. CASE HandedOut
  BY <1>12 DEF StreamTypes, WalTypes, HandedOut, NotHanding
<1>13. CASE Restart
  <2>1. WalTypes'
    BY <1>13, EmptySeq DEF StreamTypes, WalTypes, Restart
  <2>2. handler' \in [Sockets -> Handlers]
    BY <1>13 DEF Restart, NewProcess, Resting, Handlers
  <2>3. /\ <<>> \in Seq(Events) /\ <<>> \in Seq(Updates) /\ runs' \in Nat
        /\ fired' \in [Instruments -> Nat]
    BY <1>13, EmptySeq DEF StreamTypes, Restart
  <2>4. /\ fan' \in [event : Events \cup {NoEvent}, todo : SUBSET Sockets, to : Sockets \cup {NoStream}]
        /\ fan'.to = NoStream /\ fan'.todo = {}
    BY <1>13 DEF Restart, NewProcess, NotHanding
  <2> QED
    BY <1>13, <2>1, <2>2, <2>3, <2>4 DEF StreamTypes, Restart, NewProcess
<1>14. ASSUME NEW c \in BOOLEAN, Stop(c) PROVE StreamTypes'
  BY <1>14, ConcatProperties, EmptySeq DEF StreamTypes, WalTypes, Stop
<1>15. CASE UNCHANGED streamVars
  BY <1>15 DEF StreamTypes, WalTypes, streamVars
<1> QED
  BY <1>1, <1>2, <1>3, <1>4, <1>5, <1>6, <1>7, <1>8, <1>9, <1>10, <1>11, <1>12, <1>13, <1>14, <1>15,
     <1>16
  DEF StreamNext

-----------------------------------------------------------------------------
(* The order in which a stream is told. *)

Told(s) == wire[s] \o updates[s]
Later(d, e) == d.n < e.n \/ (d.kind = "reply" /\ e.kind = "event")
Ascends(q) == \A i, j \in 1..Len(q) : (i < j /\ q[i].inst = q[j].inst) => Later(q[i], q[j])
Before(q, e) == \A i \in 1..Len(q) : q[i].inst = e.inst => Later(q[i], e)
Happened(q) == \A i \in 1..Len(q) : q[i].n =< fired[q[i].inst]
Handing == fan.to # NoStream \/ fan.todo # {}

\* From the book to a stream's client the events of an instrument ascend: those
\* it was told of, the one that is handed out, those in the event channel, and
\* those the book has not brought about.  Only what answers told of is ahead.
QueueInv ==
    /\ Ascends(channel) /\ Happened(channel)
    /\ \A s \in Sockets :
         /\ Ascends(Told(s)) /\ Happened(Told(s))
         /\ \A j \in 1..Len(channel) : Before(Told(s), channel[j])
         /\ (s \in fan.todo \/ (s = fan.to /\ s # NoStream)) => Before(Told(s), fan.event)
    /\ Handing =>
         /\ fan.event.n =< fired[fan.event.inst]
         /\ \A j \in 1..Len(channel) : channel[j].inst = fan.event.inst => fan.event.n < channel[j].n
    /\ fan.to # NoStream => fan.to \notin fan.todo

\* What a command has brought about and its stream was not yet answered ascends
\* and is later than all that was written to the stream, for while the command
\* runs nothing is forwarded.
Preceding(q, e) == \A i \in 1..Len(q) : q[i].inst = e.inst => q[i].n < e.n
OwnInv ==
    \A s \in Sockets : handler[s].at \in {"intended", "matching", "replying"} =>
        LET own == handler[s].own IN
        /\ Ascends(own) /\ Happened(own)
        /\ \A j \in 1..Len(own) : Preceding(wire[s], own[j])

\* The wire and a stream's channel together are a sequence of updates.
LEMMA ToldSeq ==
  ASSUME StreamTypes, NEW s \in Sockets
  PROVE  wire[s] \in Seq(Updates) /\ updates[s] \in Seq(Updates) /\ Told(s) \in Seq(Updates)
<1>1. Events \subseteq Updates
  BY DEF Events, Updates
<1>2. wire[s] \in Seq(Updates) /\ updates[s] \in Seq(Updates)
  BY <1>1, SeqMonotonic DEF StreamTypes
<1> QED
  BY <1>2, ConcatProperties DEF Told

\* An event goes to the end of a queue of earlier ones.
LEMMA AscendsOn ==
  ASSUME NEW S, NEW q \in Seq(S), NEW e \in S, Ascends(q), Before(q, e)
  PROVE  Ascends(Append(q, e))
<1>1. PICK r, m : r = Append(q, e) /\ m = Len(q)
  OBVIOUS
<1>2. /\ r \in Seq(S) /\ m \in Nat /\ Len(r) = m + 1
      /\ r[m + 1] = e /\ \A i \in 1..m : r[i] = q[i]
  BY <1>1, Longer
<1>3. ASSUME NEW i \in 1..Len(r), NEW j \in 1..Len(r), i < j, r[i].inst = r[j].inst
      PROVE  Later(r[i], r[j])
  <2>1. i \in 1..m /\ (j \in 1..m \/ j = m + 1)
    BY <1>2, <1>3
  <2>2. CASE j \in 1..m
    BY <1>1, <1>2, <1>3, <2>1, <2>2 DEF Ascends
  <2>3. CASE j = m + 1
    BY <1>1, <1>2, <1>3, <2>1, <2>3 DEF Before
  <2> QED
    BY <2>1, <2>2, <2>3
<1> QED
  BY <1>1, <1>3 DEF Ascends

\* Both channels drop what does not fit: they are extended or left alone.
LEMMA OfferAdds ==
  ASSUME NEW q \in Seq(Events), NEW cap, NEW e \in Events
  PROVE  Offer(q, cap, e) \in {q, Append(q, e)}
BY DEF Offer

\* What a stream's channel is given follows what the stream was told before.
LEMMA ToldOn ==
  ASSUME NEW w \in Seq(Updates), NEW u \in Seq(Updates), NEW e \in Updates
  PROVE  w \o Append(u, e) = Append(w \o u, e)
<1>1. Append(u, e) = u \o <<e>> /\ w \o u \in Seq(Updates) /\ <<e>> \in Seq(Updates)
  BY AppendIsConcat, ConcatProperties
<1> QED
  BY <1>1, AppendIsConcat, ConcatAssociative

\* Forwarding an update changes nothing about what the stream is told.
LEMMA ToldForward ==
  ASSUME NEW w \in Seq(Updates), NEW u \in Seq(Updates), u # <<>>
  PROVE  Append(w, Head(u)) \o Tail(u) = w \o u
<1>1. Head(u) \in Updates /\ Tail(u) \in Seq(Updates) /\ <<Head(u)>> \in Seq(Updates)
  BY HeadTailProperties
<1>2. Append(w, Head(u)) = w \o <<Head(u)>>
  BY <1>1, AppendIsConcat
<1>3. <<Head(u)>> \o Tail(u) = u
  <2>1. PICK h \in Updates, t \in Seq(Updates) : h = Head(u) /\ t = Tail(u)
    BY <1>1
  <2>2. PICK r \in Seq(Updates) : r = <<h>> \o t
    BY <2>1, ConcatProperties, <1>1
  <2>3. Len(<<h>>) = 1 /\ <<h>>[1] = h /\ <<h>> \in Seq(Updates)
    BY <2>1
  <2>4. Len(r) = 1 + Len(t) /\ \A i \in 1..(1 + Len(t)) : r[i] = IF i =< 1 THEN h ELSE t[i - 1]
    BY <2>2, <2>3, ConcatProperties
  <2>5. Len(u) \in Nat /\ Len(t) = Len(u) - 1 /\ u[1] = h /\ \A i \in 1..Len(t) : t[i] = u[i + 1]
    BY <2>1, HeadTailProperties, LenProperties
  <2>6. Len(r) = Len(u) /\ \A i \in 1..Len(r) : r[i] = u[i]
    BY <2>4, <2>5
  <2> QED
    BY <2>1, <2>2, <2>6, SeqEqual
<1> QED
  BY <1>1, <1>2, <1>3, ConcatAssociative

\* An event the book brings about is later than all there were.
LEMMA FiresLater ==
  ASSUME StreamTypes, NEW e \in Events, e.n = fired[e.inst] + 1, fired' = [fired EXCEPT ![e.inst] = @ + 1],
         NEW q \in Seq(Updates), Happened(q)
  PROVE  /\ Preceding(q, e) /\ Before(q, e)
         /\ \A p \in 1..Len(q) : q[p].n =< fired'[q[p].inst]
<1>1. ASSUME NEW p \in 1..Len(q)
      PROVE  q[p].inst \in Instruments /\ q[p].n \in Nat /\ q[p].n =< fired[q[p].inst]
  <2>1. q[p] \in Updates
    BY ElementOfSeq
  <2> QED
    BY <2>1 DEF Happened, Updates
<1>2. \A x \in Instruments : fired[x] \in Nat /\ fired'[x] \in Nat /\ fired[x] =< fired'[x]
  BY DEF StreamTypes
<1>3. e.inst \in Instruments /\ e.n \in Nat
  BY DEF Events
<1>4. Preceding(q, e)
  BY <1>1, <1>2, <1>3 DEF Preceding
<1>5. Before(q, e)
  BY <1>4 DEF Preceding, Before, Later
<1>6. \A p \in 1..Len(q) : q[p].n =< fired'[q[p].inst]
  <2> TAKE p \in 1..Len(q)
  <2>1. PICK x \in Instruments, n \in Nat : x = q[p].inst /\ n = q[p].n /\ n =< fired[x]
    BY <1>1
  <2> QED
    BY <1>2, <2>1
<1> QED
  BY <1>4, <1>5, <1>6

\* The book brings about an event.
LEMMA FireQueues ==
  ASSUME StreamTypes, QueueInv, NEW s \in Sockets, Fire(s) PROVE QueueInv'
<1>1. PICK e \in Events : /\ e.n = fired[e.inst] + 1 /\ channel' = Offer(channel, EventCap, e)
                          /\ fired' = [fired EXCEPT ![e.inst] = @ + 1]
  BY FireDoes
<1>2. PICK i \in Instruments : i = e.inst /\ e.n = fired[i] + 1 /\ fired' = [fired EXCEPT ![i] = @ + 1]
  BY <1>1 DEF Events
<1>3. UNCHANGED <<fan, updates, wire>>
  BY DEF Fire
<1>4. \A x \in Instruments : fired[x] \in Nat /\ fired'[x] \in Nat /\ fired[x] =< fired'[x]
  BY <1>2 DEF StreamTypes
<1>5. ASSUME NEW q \in Seq(Updates), Happened(q)
      PROVE  /\ Before(q, e)
             /\ \A p \in 1..Len(q) : q[p].n =< fired'[q[p].inst]
  BY <1>1, <1>5, FiresLater
<1>6. /\ channel \in Seq(Events) /\ channel \in Seq(Updates)
      /\ \A t \in Sockets : Told(t) \in Seq(Updates) /\ Told(t)' = Told(t)
  <2>1. Events \subseteq Updates
    BY DEF Events, Updates
  <2>2. channel \in Seq(Events) /\ channel \in Seq(Updates)
    BY <2>1, SeqMonotonic DEF StreamTypes
  <2> QED
    BY <1>3, <2>2, ToldSeq DEF Told
<1>7. Before(channel, e) /\ \A t \in Sockets : Before(Told(t), e)
  BY <1>5, <1>6 DEF QueueInv
<1>8. \A t \in Sockets : Happened(Told(t))'
  <2> TAKE t \in Sockets
  <2>1. PICK q \in Seq(Updates) : q = Told(t) /\ q = Told(t)'
    BY <1>6
  <2>2. \A p \in 1..Len(q) : q[p].n =< fired'[q[p].inst]
    BY <1>5, <2>1 DEF QueueInv
  <2> QED
    BY <2>1, <2>2 DEF Happened
<1>9. \A p \in 1..Len(channel) : channel[p].n =< fired'[channel[p].inst]
  BY <1>5, <1>6 DEF QueueInv
<1>10. Handing => /\ fan.event \in Events
                  /\ fan.event.n =< fired'[fan.event.inst]
                  /\ fan.event.inst = e.inst => fan.event.n < e.n
  <2> SUFFICES ASSUME Handing
               PROVE  /\ fan.event \in Events
                      /\ fan.event.n =< fired'[fan.event.inst]
                      /\ fan.event.inst = e.inst => fan.event.n < e.n
    OBVIOUS
  <2>1. PICK f \in Events : f = fan.event /\ f.n =< fired[f.inst]
    BY DEF StreamTypes, QueueInv, Handing
  <2>2. f.n \in Nat /\ f.inst \in Instruments
    BY <2>1 DEF Events
  <2> QED
    BY <1>2, <1>4, <2>1, <2>2
<1>11. CASE channel' = channel
  BY <1>3, <1>6, <1>8, <1>9, <1>10, <1>11 DEF QueueInv, Handing, Happened
<1>12. CASE channel' = Append(channel, e)
  <2>1. Ascends(channel)'
    BY <1>6, <1>7, <1>12, AscendsOn DEF QueueInv
  <2>2. PICK r \in Seq(Events) : /\ r = channel' /\ Len(r) = Len(channel) + 1 /\ r[Len(channel) + 1] = e
                                 /\ Len(channel) \in Nat
                                 /\ \A p \in 1..Len(channel) : r[p] = channel[p]
    <3>1. PICK c \in Seq(Events) : c = channel /\ Len(c) \in Nat
      BY <1>6, LenProperties
    <3>2. /\ Append(c, e) \in Seq(Events) /\ Len(Append(c, e)) = Len(c) + 1
          /\ Append(c, e)[Len(c) + 1] = e /\ \A p \in 1..Len(c) : Append(c, e)[p] = c[p]
      BY <3>1, AppendProperties
    <3> QED
      BY <1>12, <3>1, <3>2
  <2>3. \A p \in 1..Len(r) : p \in 1..Len(channel) \/ r[p] = e
    BY <2>2
  <2>4. e.n =< fired'[e.inst]
    BY <1>2 DEF StreamTypes
  <2>5. Happened(channel)'
    BY <1>9, <2>2, <2>3, <2>4 DEF Happened
  <2>6. \A t \in Sockets : \A p \in 1..Len(r) : Before(Told(t), r[p])
    BY <1>7, <2>2, <2>3 DEF QueueInv
  <2>7. Handing => \A p \in 1..Len(r) : r[p].inst = fan.event.inst => fan.event.n < r[p].n
    BY <1>10, <2>2, <2>3 DEF QueueInv
  <2>8. /\ \A t \in Sockets :
             /\ Ascends(Told(t)') /\ \A p \in 1..Len(r) : Before(Told(t)', r[p])
             /\ (t \in fan'.todo \/ (t = fan'.to /\ t # NoStream)) => Before(Told(t)', fan'.event)
        /\ fan'.to # NoStream => fan'.to \notin fan'.todo
    BY <1>3, <1>6, <2>6 DEF QueueInv, Handing
  <2>9. Handing' => /\ fan'.event.n =< fired'[fan'.event.inst]
                    /\ \A p \in 1..Len(r) : r[p].inst = fan'.event.inst => fan'.event.n < r[p].n
    BY <1>3, <1>10, <2>7 DEF Handing
  <2> QED
    BY <1>8, <2>1, <2>2, <2>5, <2>8, <2>9 DEF QueueInv, Ascends, Before, Later
<1> QED
  BY <1>1, <1>6, <1>11, <1>12, OfferAdds

\* Forwarding moves an update from the channel to the wire.
LEMMA ForwardQueues ==
  ASSUME StreamTypes, QueueInv, NEW s \in Sockets, Forward(s) PROVE QueueInv'
<1>1. UNCHANGED <<fired, channel, fan>>
  BY DEF Forward
<1>2. \A t \in Sockets : Told(t)' = Told(t)
  <2>1. Told(s)' = Append(wire[s], Head(updates[s])) \o Tail(updates[s])
    BY DEF Forward, Told, StreamTypes
  <2>2. Told(s)' = Told(s)
    BY <2>1, ToldSeq, ToldForward DEF Forward, Told
  <2>3. \A t \in Sockets \ {s} : Told(t)' = Told(t)
    BY DEF Forward, Told, StreamTypes
  <2> QED
    BY <2>2, <2>3
<1> QED
  BY <1>1, <1>2 DEF QueueInv, Handing, Ascends, Before, Later, Happened

\* Taking the next event: all that is later stays in the channel.
LEMMA TakeQueues ==
  ASSUME StreamTypes, QueueInv, TakeEvent PROVE QueueInv'
<1>1. /\ channel # <<>> /\ channel' = Tail(channel)
      /\ fan' = [event |-> channel[1], todo |-> watchers, to |-> NoStream]
      /\ UNCHANGED <<fired, updates, wire, watchers>>
  BY TakesHead DEF TakeEvent
<1>2. PICK c \in Seq(Events), r \in Seq(Events) :
          /\ c = channel /\ r = channel' /\ Len(c) \in Nat \ {0} /\ Len(r) = Len(c) - 1
          /\ \A j \in 1..Len(r) : r[j] = c[j + 1]
  <2>1. PICK c \in Seq(Events) : c = channel /\ c # <<>>
    BY <1>1 DEF StreamTypes
  <2>2. /\ Tail(c) \in Seq(Events) /\ Len(Tail(c)) = Len(c) - 1
        /\ \A j \in 1..Len(Tail(c)) : Tail(c)[j] = c[j + 1]
        /\ Len(c) \in Nat \ {0}
    BY <2>1, HeadTailProperties, EmptySeq
  <2> QED
    BY <1>1, <2>1, <2>2
<1>3. \A t \in Sockets : Told(t)' = Told(t)
  BY <1>1 DEF Told
<1>4. ASSUME NEW j \in 1..Len(r)
      PROVE  /\ j + 1 \in 1..Len(c) /\ 1 \in 1..Len(c) /\ r[j] = c[j + 1]
             /\ r[j].n =< fired'[r[j].inst]
             /\ r[j].inst = c[1].inst => c[1].n < r[j].n
  <2>1. j + 1 \in 1..Len(c) /\ 1 \in 1..Len(c) /\ 1 < j + 1 /\ r[j] = c[j + 1]
    BY <1>2
  <2>2. c[1] \in Events
    BY <2>1, ElementOfSeq
  <2>3. c[1].kind # "reply"
    BY <2>2 DEF Events
  <2> QED
    BY <1>1, <1>2, <2>1, <2>3 DEF QueueInv, Ascends, Happened, Later
<1>5. Ascends(r)
  <2> SUFFICES ASSUME NEW i \in 1..Len(r), NEW j \in 1..Len(r), i < j, r[i].inst = r[j].inst
               PROVE  Later(r[i], r[j])
    BY DEF Ascends
  <2>1. i + 1 < j + 1
    OBVIOUS
  <2> QED
    BY <1>2, <1>4, <2>1 DEF QueueInv, Ascends
<1>6. \A t \in Sockets : Before(Told(t), c[1]) /\ \A j \in 1..Len(r) : Before(Told(t), r[j])
  BY <1>2, <1>4 DEF QueueInv
<1>7. c[1].n =< fired'[c[1].inst]
  BY <1>1, <1>2 DEF QueueInv, Happened
<1>8. /\ fan'.event = c[1] /\ fan'.to = NoStream /\ fan'.todo = watchers
  BY <1>1, <1>2
<1>9. Ascends(channel') /\ \A j \in 1..Len(channel') : channel'[j].n =< fired'[channel'[j].inst]
  BY <1>2, <1>4, <1>5
<1>10. \A t \in Sockets :
         /\ Ascends(Told(t)') /\ \A i \in 1..Len(Told(t)') : Told(t)'[i].n =< fired'[Told(t)'[i].inst]
         /\ \A j \in 1..Len(channel') : Before(Told(t)', channel'[j])
         /\ Before(Told(t)', fan'.event)
  BY <1>1, <1>2, <1>3, <1>6, <1>8 DEF QueueInv, Happened
<1>11. /\ fan'.event.n =< fired'[fan'.event.inst]
       /\ \A j \in 1..Len(channel') : channel'[j].inst = fan'.event.inst => fan'.event.n < channel'[j].n
  BY <1>2, <1>4, <1>7, <1>8
<1>12. fan'.to = NoStream
  BY <1>8
<1> QED
  BY ONLY <1>9, <1>10, <1>11, <1>12 DEF QueueInv, Happened, Ascends, Before, Later

\* While the queues stay as they are, so does their order: what remains to show
\* is about the event that is handed out.
LEMMA QueuesStay ==
  ASSUME QueueInv, UNCHANGED <<fired, channel, updates, wire>>,
         \A s \in Sockets : (s \in fan'.todo \/ (s = fan'.to /\ s # NoStream)) => Before(Told(s), fan'.event),
         Handing' => Handing /\ fan'.event = fan.event,
         fan'.to # NoStream => fan'.to \notin fan'.todo
  PROVE  QueueInv'
<1>1. \A s \in Sockets : Told(s)' = Told(s)
  BY DEF Told
<1>2. Ascends(channel') /\ \A j \in 1..Len(channel') : channel'[j].n =< fired'[channel'[j].inst]
  BY DEF QueueInv, Happened
<1>3. \A s \in Sockets :
        /\ Ascends(Told(s)') /\ \A i \in 1..Len(Told(s)') : Told(s)'[i].n =< fired'[Told(s)'[i].inst]
        /\ \A j \in 1..Len(channel') : Before(Told(s)', channel'[j])
        /\ (s \in fan'.todo \/ (s = fan'.to /\ s # NoStream)) => Before(Told(s)', fan'.event)
  BY <1>1 DEF QueueInv, Happened
<1>4. Handing' =>
        /\ fan'.event.n =< fired'[fan'.event.inst]
        /\ \A j \in 1..Len(channel') : channel'[j].inst = fan'.event.inst => fan'.event.n < channel'[j].n
  BY DEF QueueInv
<1>5. fan'.to # NoStream => fan'.to \notin fan'.todo
  OBVIOUS
<1> QED
  BY ONLY <1>2, <1>3, <1>4, <1>5 DEF QueueInv, Happened, Ascends, Before, Later, Handing

\* The send to a stream's channel: the event is later than all it was told.
LEMMA HandQueues ==
  ASSUME StreamTypes, QueueInv, HandOver PROVE QueueInv'
<1>1. PICK u \in Sockets : u = fan.to /\ u # NoStream /\ fan' = [fan EXCEPT !.to = NoStream]
  BY DEF HandOver, StreamTypes
<1>2. PICK e \in Events : e = fan.event /\ Before(Told(u), e) /\ u \notin fan.todo
  BY <1>1 DEF StreamTypes, QueueInv
<1>3. UNCHANGED <<fired, channel, wire>>
  BY DEF HandOver
<1>4. /\ fan'.event = e /\ fan'.todo = fan.todo /\ fan'.to = NoStream
      /\ Handing' => Handing
  BY <1>1, <1>2 DEF StreamTypes, Handing
<1>5. Handing
  BY <1>1 DEF Handing
<1>6. CASE updates' = updates
  <2>1. \A t \in Sockets : t \in fan'.todo => Before(Told(t), fan'.event)
    BY <1>2, <1>4 DEF QueueInv
  <2> QED
    BY <1>2, <1>3, <1>4, <1>5, <1>6, <2>1, QueuesStay
<1>7. CASE updates' = [updates EXCEPT ![u] = Append(@, e)]
  <2>1. PICK q \in Seq(Updates), r \in Seq(Updates) :
            /\ q = Told(u) /\ r = Told(u)' /\ r = Append(q, e)
            /\ Len(q) \in Nat /\ Len(r) = Len(q) + 1 /\ r[Len(q) + 1] = e
            /\ \A i \in 1..Len(q) : r[i] = q[i]
    <3>1. wire[u] \in Seq(Updates) /\ updates[u] \in Seq(Updates) /\ e \in Updates
      BY ToldSeq DEF Events, Updates
    <3>2. PICK q \in Seq(Updates) : q = Told(u) /\ Len(q) \in Nat
      BY ToldSeq, LenProperties
    <3>3. Told(u)' = wire[u] \o Append(updates[u], e)
      BY <1>3, <1>7, <3>1 DEF Told, StreamTypes
    <3>4. Told(u)' = Append(q, e)
      BY <3>1, <3>2, <3>3, ToldOn DEF Told
    <3>5. PICK r, m : r = Append(q, e) /\ m = Len(q)
      OBVIOUS
    <3>6. /\ r \in Seq(Updates) /\ m \in Nat /\ Len(r) = m + 1
          /\ r[m + 1] = e /\ \A i \in 1..m : r[i] = q[i]
      BY <3>1, <3>5, Longer
    <3> QED
      BY <3>2, <3>4, <3>5, <3>6
  <2>2. \A t \in Sockets \ {u} : Told(t)' = Told(t)
    BY <1>3, <1>7 DEF Told, StreamTypes
  <2>3. Ascends(r)
    <3>1. e \in Updates
      BY DEF Events, Updates
    <3> QED
      BY <1>2, <2>1, <3>1, AscendsOn DEF QueueInv
  <2>4. e.n =< fired[e.inst] /\ \A j \in 1..Len(channel) : channel[j].inst = e.inst => e.n < channel[j].n
    BY <1>2, <1>5 DEF QueueInv
  <2>5. \A i \in 1..Len(r) : r[i].n =< fired[r[i].inst]
    BY <2>1, <2>4 DEF QueueInv, Happened
  <2>6. \A j \in 1..Len(channel) : Before(r, channel[j])
    BY <2>1, <2>4 DEF QueueInv, Before, Later
  <2>7. \A t \in Sockets :
          /\ Ascends(Told(t)') /\ \A i \in 1..Len(Told(t)') : Told(t)'[i].n =< fired'[Told(t)'[i].inst]
          /\ \A j \in 1..Len(channel') : Before(Told(t)', channel'[j])
          /\ t \in fan'.todo => Before(Told(t)', fan'.event)
    <3> TAKE t \in Sockets
    <3>1. CASE t = u
      BY <1>2, <1>3, <1>4, <2>1, <2>3, <2>5, <2>6, <3>1
    <3>2. CASE t # u
      BY <1>2, <1>3, <1>4, <2>2, <3>2 DEF QueueInv, Happened
    <3> QED
      BY <3>1, <3>2
  <2>8. Ascends(channel') /\ \A j \in 1..Len(channel') : channel'[j].n =< fired'[channel'[j].inst]
    BY <1>3 DEF QueueInv, Happened
  <2>9. /\ fan'.event.n =< fired'[fan'.event.inst]
        /\ \A j \in 1..Len(channel') : channel'[j].inst = fan'.event.inst => fan'.event.n < channel'[j].n
    BY <1>3, <1>4, <2>4
  <2> QED
    BY ONLY <1>4, <2>7, <2>8, <2>9 DEF QueueInv, Happened, Ascends, Before, Later
<1>8. updates' = updates \/ updates' = [updates EXCEPT ![u] = Append(@, e)]
  <2>1. updates[u] \in Seq(Events) /\ updates \in [Sockets -> Seq(Events)]
    BY DEF StreamTypes
  <2>2. updates' = updates \/ updates' = [updates EXCEPT ![u] = Offer(@, UpdateCap, e)]
    BY <1>1, <1>2 DEF HandOver
  <2> QED
    BY <2>1, <2>2, OfferAdds
<1> QED
  BY <1>6, <1>7, <1>8

\* An answer goes before what waits.
LEMMA Inserted ==
  ASSUME NEW S, NEW w \in Seq(S), NEW u \in Seq(S), NEW r \in S,
         NEW v, v = Append(w, r), NEW q, q = w \o u, NEW k, k = v \o u,
         NEW m, m = Len(w), NEW l, l = Len(u)
  PROVE  /\ m \in Nat /\ l \in Nat /\ Len(q) = m + l /\ Len(k) = m + 1 + l
         /\ \A x \in 1..m : k[x] = q[x] /\ q[x] = w[x]
         /\ k[m + 1] = r
         /\ \A x \in (m + 2)..(m + 1 + l) : k[x] = q[x - 1] /\ k[x] = u[x - 1 - m]
<1>1. PICK h : h = Len(v)
  OBVIOUS
<1>2. /\ v \in Seq(S) /\ m \in Nat /\ h = m + 1
      /\ v[m + 1] = r /\ \A x \in 1..m : v[x] = w[x]
  BY <1>1, Longer
<1>3. /\ l \in Nat /\ Len(q) = m + l
      /\ \A x \in 1..m : q[x] = w[x]
      /\ \A x \in 1..l : q[m + x] = u[x]
  BY Joined
<1>4. /\ Len(k) = h + l
      /\ \A x \in 1..h : k[x] = v[x]
      /\ \A x \in 1..l : k[h + x] = u[x]
  <2>1. v \in Seq(S)
    BY <1>2
  <2> QED
    BY ONLY <1>1, <2>1, Joined, u \in Seq(S), k = v \o u, l = Len(u)
<1>5. /\ Len(k) = m + 1 + l
      /\ \A x \in 1..(m + 1) : k[x] = v[x]
      /\ \A x \in 1..l : k[m + 1 + x] = u[x]
  BY ONLY <1>2, <1>4
<1>6. \A x \in 1..m : x \in 1..(m + 1)
  BY <1>2
<1>7. m + 1 \in 1..(m + 1)
  BY <1>2
<1>8. ASSUME NEW x \in (m + 2)..(m + 1 + l)
      PROVE  k[x] = q[x - 1] /\ k[x] = u[x - 1 - m]
  <2>1. PICK y \in 1..l : x = m + 1 + y /\ x - 1 = m + y /\ x - 1 - m = y
    <3>1. x - 1 - m \in 1..l /\ x = m + 1 + (x - 1 - m) /\ x - 1 = m + (x - 1 - m)
      BY <1>2, <1>3
    <3> QED
      BY <3>1
  <2> QED
    BY ONLY <1>3, <1>5, <2>1
<1> QED
  BY ONLY <1>2, <1>3, <1>5, <1>6, <1>7, <1>8

\* An answer is later than what the stream was told, and ahead of what waits.
LEMMA ReplyQueues ==
  ASSUME StreamTypes, QueueInv, OwnInv, NEW s \in Sockets, Reply(s) PROVE QueueInv'
<1>1. PICK o \in Seq(Events) : o = handler[s].own /\ o # <<>> /\ handler[s].at = "replying"
  BY OwnTypes DEF Reply, Is
<1>2. PICK e \in Events : e = Head(o) /\ e = o[1] /\ 1 \in 1..Len(o)
  <2>1. PICK e, c, m : e = Head(o) /\ c = Tail(o) /\ m = Len(c)
    OBVIOUS
  <2>2. o # <<>>
    BY <1>1
  <2>3. e \in Events /\ e = o[1] /\ m \in Nat /\ Len(o) = m + 1
    BY <2>1, <2>2, Shorter
  <2>4. 1 \in 1..Len(o)
    BY ONLY <2>3
  <2> QED
    BY <2>1, <2>3, <2>4
<1>3. PICK r \in Updates : /\ r = [e EXCEPT !.kind = "reply"]
                           /\ r.kind = "reply" /\ r.inst = e.inst /\ r.n = e.n
  BY ReplySays
<1>4. PICK w, u, v, m, l, q, k :
          /\ w = wire[s] /\ u = updates[s] /\ v = Append(w, r) /\ m = Len(w) /\ l = Len(u)
          /\ q = w \o u /\ k = v \o u
  OBVIOUS
<1>19. w \in Seq(Updates) /\ u \in Seq(Updates) /\ r \in Updates
  BY <1>4, ToldSeq
<1>5. /\ m \in Nat /\ l \in Nat /\ Len(q) = m + l /\ Len(k) = m + 1 + l
      /\ \A x \in 1..m : k[x] = q[x] /\ q[x] = w[x]
      /\ k[m + 1] = r
      /\ \A x \in (m + 2)..(m + 1 + l) : k[x] = q[x - 1] /\ k[x] = u[x - 1 - m]
  <2>1. v = Append(w, r) /\ m = Len(w) /\ l = Len(u) /\ q = w \o u /\ k = v \o u
    BY <1>4
  <2>2. w \in Seq(Updates) /\ u \in Seq(Updates) /\ r \in Updates
    BY <1>19
  <2> QED
    BY <2>1, <2>2, Inserted
<1>6. /\ wire' = [wire EXCEPT ![s] = v] /\ UNCHANGED <<fired, channel, fan, updates>>
  BY <1>1, <1>2, <1>3, <1>4 DEF Reply
<1>7. /\ Told(s) = q /\ Told(s)' = k
      /\ \A t \in Sockets \ {s} : Told(t)' = Told(t)
  <2>1. wire'[s] = v /\ updates'[s] = u /\ \A t \in Sockets \ {s} : wire'[t] = wire[t] /\ updates'[t] = updates[t]
    BY <1>4, <1>6 DEF StreamTypes
  <2> QED
    BY <1>4, <2>1 DEF Told
<1>8. /\ \A x \in 1..m : w[x].inst = r.inst => w[x].n < r.n
      /\ r.n =< fired[r.inst]
  <2>1. Happened(o) /\ Preceding(w, o[1])
    BY <1>1, <1>2, <1>4 DEF OwnInv
  <2> QED
    BY <1>2, <1>3, <1>4, <2>1 DEF Preceding, Happened
<1>9. \A x \in 1..l : u[x].kind = "event"
  <2>1. u \in Seq(Events)
    BY <1>4 DEF StreamTypes
  <2>2. \A x \in 1..l : u[x] \in Events
    BY <1>4, <2>1, ElementOfSeq
  <2> QED
    BY <2>2 DEF Events
<1>10. \A x \in 1..(m + 1 + l) : x \in 1..m \/ x = m + 1 \/ x \in (m + 2)..(m + 1 + l)
  BY <1>5
<1>11. Ascends(q) /\ Happened(q)
  BY <1>7 DEF QueueInv
<1>12. Ascends(k)
  <2> SUFFICES ASSUME NEW x \in 1..(m + 1 + l), NEW y \in 1..(m + 1 + l), x < y, k[x].inst = k[y].inst
               PROVE  Later(k[x], k[y])
    BY <1>5 DEF Ascends
  <2>1. CASE y \in 1..m
    <3>1. x \in 1..m /\ x \in 1..(m + l) /\ y \in 1..(m + l)
      BY <1>5, <2>1
    <3> QED
      BY <1>5, <1>11, <2>1, <3>1 DEF Ascends
  <2>2. CASE y = m + 1
    <3>1. x \in 1..m
      BY <1>5, <2>2
    <3> QED
      BY <1>5, <1>8, <2>2, <3>1 DEF Later
  <2>3. CASE y \in (m + 2)..(m + 1 + l)
    <3>1. y - 1 \in 1..(m + l) /\ k[y] = q[y - 1] /\ k[y].kind = "event"
      <4>1. y - 1 \in 1..(m + l) /\ y - 1 - m \in 1..l
        BY <1>5, <2>3
      <4> QED
        BY <1>5, <1>9, <2>3, <4>1
    <3>2. CASE x \in 1..m
      <4>1. x \in 1..(m + l) /\ x < y - 1
        BY <1>5, <2>3, <3>2
      <4>2. k[x] = q[x]
        BY <1>5, <3>2
      <4>3. q[x].inst = q[y - 1].inst
        BY <3>1, <4>2
      <4>4. Later(q[x], q[y - 1])
        BY <1>5, <1>11, <3>1, <4>1, <4>3 DEF Ascends
      <4> QED
        BY <3>1, <4>2, <4>4
    <3>3. CASE x = m + 1
      BY <1>3, <1>5, <3>1, <3>3 DEF Later
    <3>4. CASE x \in (m + 2)..(m + 1 + l)
      <4>1. x - 1 \in 1..(m + l) /\ x - 1 < y - 1
        BY <1>5, <3>4
      <4>2. k[x] = q[x - 1]
        BY <1>5, <3>4
      <4>3. q[x - 1].inst = q[y - 1].inst
        BY <3>1, <4>2
      <4>4. Later(q[x - 1], q[y - 1])
        BY <1>5, <1>11, <3>1, <4>1, <4>3 DEF Ascends
      <4> QED
        BY <3>1, <4>2, <4>4
    <3> QED
      BY <1>10, <3>2, <3>3, <3>4
  <2> QED
    BY <1>10, <2>1, <2>2, <2>3
<1>13. ASSUME NEW x \in 1..(m + 1 + l)
       PROVE  k[x] = r \/ \E y \in 1..(m + l) : k[x] = q[y]
  <2>1. CASE x \in 1..m
    <3>1. x \in 1..(m + l)
      BY <1>5, <2>1
    <3> QED
      BY <1>5, <2>1, <3>1
  <2>2. CASE x \in (m + 2)..(m + 1 + l)
    <3>1. x - 1 \in 1..(m + l)
      BY <1>5, <2>2
    <3>2. k[x] = q[x - 1]
      BY <1>5, <2>2
    <3> QED
      BY <3>1, <3>2
  <2> QED
    BY <1>5, <1>10, <2>1, <2>2
<1>14. \A x \in 1..Len(k) : k[x].n =< fired[k[x].inst]
  <2>1. \A y \in 1..(m + l) : q[y].n =< fired[q[y].inst]
    BY <1>5, <1>11 DEF Happened
  <2> SUFFICES ASSUME NEW x \in 1..(m + 1 + l) PROVE k[x].n =< fired[k[x].inst]
    BY <1>5
  <2>2. CASE k[x] = r
    BY <1>8, <2>2
  <2>3. CASE \E y \in 1..(m + l) : k[x] = q[y]
    BY <2>1, <2>3
  <2> QED
    BY <1>13, <2>2, <2>3
<1>15. ASSUME NEW d, d.kind = "event", Before(q, d) PROVE Before(k, d)
  <2>1. \A y \in 1..(m + l) : q[y].inst = d.inst => Later(q[y], d)
    BY <1>5, <1>15 DEF Before
  <2> SUFFICES ASSUME NEW x \in 1..(m + 1 + l), k[x].inst = d.inst PROVE Later(k[x], d)
    BY <1>5 DEF Before
  <2>2. CASE k[x] = r
    BY <1>3, <1>15, <2>2 DEF Later
  <2>3. CASE \E y \in 1..(m + l) : k[x] = q[y]
    BY <2>1, <2>3
  <2> QED
    BY <1>13, <2>2, <2>3
<1>16. \A j \in 1..Len(channel) : channel[j].kind = "event"
  <2>1. channel \in Seq(Events)
    BY DEF StreamTypes
  <2>2. \A j \in 1..Len(channel) : channel[j] \in Events
    BY <2>1, ElementOfSeq
  <2> QED
    BY <2>2 DEF Events
<1>17. \A t \in Sockets :
         /\ Ascends(Told(t)') /\ \A x \in 1..Len(Told(t)') : Told(t)'[x].n =< fired'[Told(t)'[x].inst]
         /\ \A j \in 1..Len(channel') : Before(Told(t)', channel'[j])
         /\ (t \in fan'.todo \/ (t = fan'.to /\ t # NoStream)) => Before(Told(t)', fan'.event)
  <2> TAKE t \in Sockets
  <2>1. CASE t # s
    BY <1>6, <1>7, <2>1 DEF QueueInv, Happened
  <2>2. CASE t = s
    <3>1. \A j \in 1..Len(channel) : Before(k, channel[j])
      BY <1>7, <1>15, <1>16 DEF QueueInv
    <3>2. (s \in fan.todo \/ (s = fan.to /\ s # NoStream)) => Before(k, fan.event)
      <4> SUFFICES ASSUME s \in fan.todo \/ (s = fan.to /\ s # NoStream) PROVE Before(k, fan.event)
        OBVIOUS
      <4>1. fan.event.kind = "event"
        BY DEF StreamTypes, Events
      <4> QED
        BY <1>7, <1>15, <4>1 DEF QueueInv
    <3> QED
      BY <1>6, <1>7, <1>12, <1>14, <2>2, <3>1, <3>2
  <2> QED
    BY <2>1, <2>2
<1>18. /\ Ascends(channel') /\ \A j \in 1..Len(channel') : channel'[j].n =< fired'[channel'[j].inst]
       /\ Handing' => /\ fan'.event.n =< fired'[fan'.event.inst]
                      /\ \A j \in 1..Len(channel') :
                            channel'[j].inst = fan'.event.inst => fan'.event.n < channel'[j].n
       /\ fan'.to # NoStream => fan'.to \notin fan'.todo
  BY <1>6 DEF QueueInv, Happened, Handing
<1> QED
  BY ONLY <1>17, <1>18 DEF QueueInv, Happened, Ascends, Before, Later, Handing

\* What is yet to be told stays, or there is nothing.
LEMMA OwnStays ==
  ASSUME OwnInv, UNCHANGED fired,
         \A t \in Sockets : handler'[t].at \in {"intended", "matching", "replying"} =>
            \/ handler'[t].own = <<>>
            \/ /\ handler[t].at \in {"intended", "matching", "replying"} /\ wire'[t] = wire[t]
               /\ handler'[t].own = handler[t].own
  PROVE  OwnInv'
<1> SUFFICES ASSUME NEW t \in Sockets, handler'[t].at \in {"intended", "matching", "replying"}
             PROVE  /\ Ascends(handler'[t].own)
                    /\ \A j \in 1..Len(handler'[t].own) :
                          /\ handler'[t].own[j].n =< fired'[handler'[t].own[j].inst]
                          /\ Preceding(wire'[t], handler'[t].own[j])
  BY DEF OwnInv, Happened, Ascends, Later, Preceding
<1>1. CASE handler'[t].own = <<>>
  BY <1>1, EmptySeq DEF Ascends
<1>2. CASE /\ handler[t].at \in {"intended", "matching", "replying"} /\ wire'[t] = wire[t]
           /\ handler'[t].own = handler[t].own
  BY <1>2 DEF OwnInv, Happened
<1> QED
  BY <1>1, <1>2

\* What was written to a stream has happened.
LEMMA WireHappened ==
  ASSUME StreamTypes, QueueInv, NEW t \in Sockets PROVE Happened(wire[t])
<1>1. PICK w \in Seq(Updates), u \in Seq(Updates) : w = wire[t] /\ u = updates[t]
  BY ToldSeq
<1>5. PICK q, m, l : q = w \o u /\ m = Len(w) /\ l = Len(u)
  OBVIOUS
<1>3. /\ q \in Seq(Updates) /\ m \in Nat /\ l \in Nat /\ Len(q) = m + l
      /\ q = w \o u /\ Len(w) = m /\ \A x \in 1..m : q[x] = w[x]
  BY <1>5, Joined
<1>4. Happened(q)
  BY <1>1, <1>3 DEF QueueInv, Told
<1>2. \A x \in 1..Len(w) : x \in 1..Len(q) /\ q[x] = w[x]
  BY <1>3
<1> QED
  BY <1>1, <1>2, <1>4 DEF Happened

\* A command brings about an event later than its earlier ones and than all its
\* stream was told.
LEMMA FireOwn ==
  ASSUME StreamTypes, QueueInv, OwnInv, NEW s \in Sockets, Fire(s) PROVE OwnInv'
<1>1. PICK e \in Events, h \in Handlers :
          /\ h = [at |-> "matching", inst |-> handler[s].inst, id |-> handler[s].id,
                  left |-> handler[s].left - 1, own |-> Append(handler[s].own, e)]
          /\ handler' = [handler EXCEPT ![s] = h] /\ handler[s].at = "matching"
          /\ e.n = fired[e.inst] + 1 /\ fired' = [fired EXCEPT ![e.inst] = @ + 1]
          /\ UNCHANGED wire
  BY FireDoes
<1>2. h.own = Append(handler[s].own, e)
  BY ONLY <1>1
<1>3. Events \subseteq Updates
  BY DEF Events, Updates
<1>4. ASSUME NEW q \in Seq(Updates), Happened(q)
      PROVE  /\ Preceding(q, e) /\ Before(q, e)
             /\ \A x \in 1..Len(q) : q[x].n =< fired'[q[x].inst]
  BY <1>1, <1>4, FiresLater
<1>5. \A t \in Sockets \ {s} : handler'[t] = handler[t]
  BY <1>1 DEF StreamTypes
<1>6. handler'[s] = h
  BY <1>1 DEF StreamTypes
<1> SUFFICES ASSUME NEW t \in Sockets, handler'[t].at \in {"intended", "matching", "replying"}
             PROVE  /\ Ascends(handler'[t].own)
                    /\ \A j \in 1..Len(handler'[t].own) :
                          /\ handler'[t].own[j].n =< fired'[handler'[t].own[j].inst]
                          /\ Preceding(wire[t], handler'[t].own[j])
  BY <1>1 DEF OwnInv, Happened, Ascends, Later, Preceding
<1>7. CASE t # s
  <2>1. PICK o \in Seq(Updates) : o = handler[t].own /\ handler'[t].own = o
    BY <1>3, <1>5, <1>7, OwnTypes, SeqMonotonic
  <2>2. Ascends(o) /\ Happened(o) /\ \A j \in 1..Len(o) : Preceding(wire[t], o[j])
    BY <1>5, <1>7, <2>1 DEF OwnInv
  <2> QED
    BY <1>4, <2>1, <2>2
<1>8. CASE t = s
  <2>1. PICK o \in Seq(Events) : o = handler[s].own /\ o \in Seq(Updates)
    BY <1>1, <1>3, OwnTypes, SeqMonotonic
  <2>2. Ascends(o) /\ Happened(o) /\ \A j \in 1..Len(o) : Preceding(wire[s], o[j])
    BY <1>1, <2>1 DEF OwnInv
  <2>3. PICK c \in Seq(Events), m \in Nat : /\ c = Append(o, e) /\ Len(o) = m /\ Len(c) = m + 1
                                           /\ c[m + 1] = e /\ \A x \in 1..m : c[x] = o[x]
    <3>1. PICK c, m : c = Append(o, e) /\ m = Len(o)
      OBVIOUS
    <3>2. /\ c \in Seq(Events) /\ m \in Nat /\ Len(c) = m + 1
          /\ c[m + 1] = e /\ \A x \in 1..m : c[x] = o[x]
      BY <2>1, <3>1, Longer
    <3> QED
      BY <3>1, <3>2
  <2>4. Ascends(c)
    <3>1. Before(o, e)
      BY <1>4, <2>1, <2>2
    <3> QED
      BY <2>2, <2>3, <3>1, AscendsOn
  <2>5. Preceding(wire[s], e) /\ e.n =< fired'[e.inst]
    <3>1. wire[s] \in Seq(Updates) /\ Happened(wire[s])
      BY ToldSeq, WireHappened
    <3>2. fired'[e.inst] = fired[e.inst] + 1 /\ fired[e.inst] \in Nat
      BY <1>1 DEF StreamTypes, Events
    <3> QED
      BY <1>1, <1>4, <3>1, <3>2
  <2>6. \A j \in 1..Len(c) : j \in 1..Len(o) \/ c[j] = e
    BY <2>3
  <2>7. \A j \in 1..Len(c) : c[j].n =< fired'[c[j].inst] /\ Preceding(wire[s], c[j])
    <3>1. \A j \in 1..Len(o) : o[j].n =< fired'[o[j].inst]
      BY <1>4, <2>1, <2>2
    <3> QED
      BY <2>2, <2>3, <2>5, <2>6, <3>1
  <2>8. handler'[s].own = c
    BY <1>2, <1>6, <2>1, <2>3
  <2> QED
    BY <1>8, <2>4, <2>7, <2>8
<1> QED
  BY <1>7, <1>8

\* One event less is yet to be told, and it is earlier than the others.
LEMMA ReplyOwn ==
  ASSUME StreamTypes, OwnInv, NEW s \in Sockets, Reply(s) PROVE OwnInv'
<1>1. PICK o \in Seq(Events) : o = handler[s].own /\ o # <<>> /\ handler[s].at = "replying"
  BY OwnTypes DEF Reply, Is
<1>2. PICK e \in Events, c \in Seq(Events), l \in Nat :
          /\ e = Head(o) /\ e = o[1] /\ c = Tail(o) /\ Len(c) = l /\ Len(o) = l + 1
          /\ \A x \in 1..l : c[x] = o[x + 1]
  <2>1. PICK e, c, l : e = Head(o) /\ c = Tail(o) /\ l = Len(c)
    OBVIOUS
  <2>2. o # <<>>
    BY <1>1
  <2>3. /\ e \in Events /\ e = o[1] /\ c \in Seq(Events) /\ l \in Nat /\ Len(o) = l + 1
        /\ \A x \in 1..l : c[x] = o[x + 1]
    BY <2>1, <2>2, Shorter
  <2> QED
    BY <2>1, <2>3
<1>3. PICK r \in Updates : r = [e EXCEPT !.kind = "reply"] /\ r.inst = e.inst /\ r.n = e.n
  BY ReplySays
<1>4. PICK w \in Seq(Updates), v \in Seq(Updates), m \in Nat :
          /\ w = wire[s] /\ v = Append(w, r) /\ Len(w) = m
          /\ Len(v) = m + 1 /\ v[m + 1] = r /\ \A x \in 1..m : v[x] = w[x]
  <2>1. PICK w \in Seq(Updates) : w = wire[s]
    BY ToldSeq
  <2>2. PICK v, m : v = Append(w, r) /\ m = Len(w)
    OBVIOUS
  <2>3. /\ v \in Seq(Updates) /\ m \in Nat /\ Len(v) = m + 1
        /\ v[m + 1] = r /\ \A x \in 1..m : v[x] = w[x]
    BY <2>2, Longer
  <2> QED
    BY <2>1, <2>2, <2>3
<1>5. wire' = [wire EXCEPT ![s] = v] /\ UNCHANGED fired
  BY <1>1, <1>2, <1>3, <1>4 DEF Reply
<1>6. PICK h \in Handlers : /\ handler' = [handler EXCEPT ![s] = h]
                            /\ h.at \in {"serving", "replying"} /\ (h.at = "replying" => h.own = c)
  <2>1. Answering(s, c)
    BY <1>1, <1>2 DEF Reply
  <2> QED
    BY <2>1, AnswerTypes
<1>7. /\ handler'[s] = h /\ wire'[s] = v
      /\ \A t \in Sockets \ {s} : handler'[t] = handler[t] /\ wire'[t] = wire[t]
  BY <1>5, <1>6 DEF StreamTypes
<1>8. Ascends(o) /\ Happened(o) /\ \A j \in 1..Len(o) : Preceding(w, o[j])
  BY <1>1, <1>4 DEF OwnInv
<1>9. ASSUME NEW j \in 1..Len(c)
      PROVE  /\ j + 1 \in 1..Len(o) /\ 1 \in 1..Len(o) /\ c[j] = o[j + 1]
             /\ c[j].n =< fired'[c[j].inst] /\ Preceding(v, c[j])
  <2>1. j + 1 \in 1..Len(o) /\ 1 \in 1..Len(o) /\ 1 < j + 1 /\ c[j] = o[j + 1]
    BY <1>2
  <2>2. e.kind # "reply"
    BY DEF Events
  <2>7. e.inst = c[j].inst => Later(e, c[j])
    BY <1>2, <1>8, <2>1 DEF Ascends
  <2>3. r.inst = c[j].inst => r.n < c[j].n
    BY <1>3, <2>2, <2>7 DEF Later
  <2>4. Preceding(w, c[j])
    BY <1>8, <2>1
  <2>5. \A x \in 1..Len(v) : x \in 1..Len(w) \/ v[x] = r
    BY <1>4
  <2>6. Preceding(v, c[j])
    BY <1>4, <2>3, <2>4, <2>5 DEF Preceding
  <2> QED
    BY <1>5, <1>8, <2>1, <2>6 DEF Happened
<1>10. Ascends(c)
  <2> SUFFICES ASSUME NEW x \in 1..Len(c), NEW y \in 1..Len(c), x < y, c[x].inst = c[y].inst
               PROVE  Later(c[x], c[y])
    BY DEF Ascends
  <2>1. x + 1 < y + 1 /\ x + 1 \in 1..Len(o) /\ y + 1 \in 1..Len(o) /\ c[x] = o[x + 1] /\ c[y] = o[y + 1]
    BY <1>9
  <2> QED
    BY <1>8, <2>1 DEF Ascends
<1> SUFFICES ASSUME NEW t \in Sockets, handler'[t].at \in {"intended", "matching", "replying"}
             PROVE  /\ Ascends(handler'[t].own)
                    /\ \A j \in 1..Len(handler'[t].own) :
                          /\ handler'[t].own[j].n =< fired'[handler'[t].own[j].inst]
                          /\ Preceding(wire'[t], handler'[t].own[j])
  BY DEF OwnInv, Happened, Ascends, Later, Preceding
<1>11. CASE t = s
  <2>1. handler'[t].own = c /\ wire'[t] = v
    BY <1>6, <1>7, <1>11
  <2> QED
    BY <1>9, <1>10, <2>1
<1>12. CASE t # s
  BY <1>5, <1>7, <1>12 DEF OwnInv, Happened
<1> QED
  BY <1>11, <1>12

\* The other steps leave what is yet to be told.
LEMMA OwnStep == StreamTypes /\ QueueInv /\ OwnInv /\ [StreamNext]_streamVars => OwnInv'
<1> SUFFICES ASSUME StreamTypes, QueueInv, OwnInv, [StreamNext]_streamVars PROVE OwnInv'
  OBVIOUS
<1>1. ASSUME NEW s \in Sockets, NEW h, handler' = [handler EXCEPT ![s] = h], UNCHANGED <<fired, wire>>,
             \/ h.at \notin {"intended", "matching", "replying"} \/ h.own = <<>>
             \/ h.own = handler[s].own /\ handler[s].at \in {"intended", "matching", "replying"}
      PROVE  OwnInv'
  <2>1. handler'[s] = h /\ \A t \in Sockets \ {s} : handler'[t] = handler[t]
    BY <1>1 DEF StreamTypes
  <2> QED
    BY <1>1, <2>1, OwnStays
<1>2. ASSUME NEW s \in Sockets, NEW a \in {"serving", "closed", "gone"}, Now(s, [at |-> a]),
             UNCHANGED <<fired, wire>>
      PROVE  OwnInv'
  <2>1. PICK h : h = [at |-> a]
    OBVIOUS
  <2>2. h.at = a
    BY <2>1
  <2> QED
    BY <1>1, <1>2, <2>1, <2>2 DEF Now
<1>3. ASSUME NEW s \in Sockets, Connect(s) \/ StreamLeaves(s) \/ Forget(s) PROVE OwnInv'
  BY <1>2, <1>3 DEF Connect, StreamLeaves, Forget
<1>4. ASSUME NEW s \in Sockets, NEW inst \in Instruments, NEW burst \in Bursts, Command(s, inst, burst)
      PROVE  OwnInv'
  <2>1. PICK h : h = [at |-> "intended", inst |-> inst, id |-> commands + 1, left |-> burst, own |-> <<>>]
    OBVIOUS
  <2>2. h.own = <<>>
    BY <2>1
  <2> QED
    BY <1>1, <1>4, <2>1, <2>2 DEF Command, Now
<1>5. ASSUME NEW s \in Sockets, EnterBook(s) PROVE OwnInv'
  <2>1. PICK g \in Handlers : g = handler[s] /\ g.at = "intended"
    BY <1>5 DEF EnterBook, Is, StreamTypes
  <2>2. [g EXCEPT !.at = "matching"].own = g.own
    BY <2>1 DEF Handlers
  <2> QED
    BY <1>1, <1>5, <2>1, <2>2 DEF EnterBook, Now
<1>6. ASSUME NEW s \in Sockets, BookReplies(s) PROVE OwnInv'
  <2>1. handler[s].at = "matching" /\ handler[s].own \in Seq(Events)
    BY <1>6, OwnTypes DEF BookReplies, Is
  <2>2. PICK h \in Handlers : /\ handler' = [handler EXCEPT ![s] = h]
                              /\ h.at \in {"serving", "replying"}
                              /\ h.at = "replying" => h.own = handler[s].own
    BY <1>6, <2>1, AnswerTypes DEF BookReplies
  <2>3. UNCHANGED <<fired, wire>>
    BY <1>6 DEF BookReplies
  <2> QED
    BY <1>1, <2>1, <2>2, <2>3
<1>7. ASSUME NEW s \in Sockets, Forward(s) PROVE OwnInv'
  <2>1. handler[s].at = "serving" /\ UNCHANGED <<fired, handler>>
    BY <1>7 DEF Forward, Is
  <2>2. \A t \in Sockets \ {s} : wire'[t] = wire[t]
    BY <1>7 DEF Forward, StreamTypes
  <2> QED
    BY <2>1, <2>2, OwnStays
<1>8. CASE Restart
  <2>1. \A t \in Sockets : handler'[t].at = "off"
    BY <1>8 DEF Restart, NewProcess, Resting
  <2> QED
    BY <2>1 DEF OwnInv
<1>9. ASSUME UNCHANGED <<fired, handler, wire>> PROVE OwnInv'
  BY <1>9, OwnStays
<1> QED
  BY <1>3, <1>4, <1>5, <1>6, <1>7, <1>8, <1>9, FireOwn, ReplyOwn
  DEF StreamNext, streamVars, ReachStream, TakeEvent, HandOver, HandedOut, Stop

\* One step keeps the queues in order.
LEMMA QueueStep == StreamTypes /\ QueueInv /\ OwnInv /\ [StreamNext]_streamVars => QueueInv'
<1> SUFFICES ASSUME StreamTypes, QueueInv, OwnInv, [StreamNext]_streamVars PROVE QueueInv'
  OBVIOUS
<1>1. ASSUME UNCHANGED <<fired, channel, fan, updates, wire>> PROVE QueueInv'
  <2>1. fan' = fan /\ (Handing' <=> Handing)
    BY <1>1 DEF Handing
  <2>2. /\ \A s \in Sockets : (s \in fan'.todo \/ (s = fan'.to /\ s # NoStream)) => Before(Told(s), fan'.event)
        /\ fan'.to # NoStream => fan'.to \notin fan'.todo
    BY <2>1 DEF QueueInv
  <2> QED
    BY <1>1, <2>1, <2>2, QueuesStay
<1>2. ASSUME NEW s \in Sockets, ReachStream(s) PROVE QueueInv'
  <2>1. /\ fan.to = NoStream /\ s \in fan.todo /\ UNCHANGED <<fired, channel, updates, wire>>
        /\ fan'.event = fan.event /\ fan'.todo = fan.todo \ {s} /\ fan'.to \in {s, NoStream}
        /\ Handing
    BY <1>2 DEF ReachStream, StreamTypes, Handing
  <2> QED
    BY <2>1, QueuesStay DEF QueueInv
<1>3. CASE HandedOut
  <2>1. ~ Handing' /\ fan'.todo = {} /\ fan'.to = NoStream /\ UNCHANGED <<fired, channel, updates, wire>>
    BY <1>3 DEF HandedOut, NotHanding, Handing
  <2> QED
    BY <2>1, QueuesStay
<1>4. CASE Restart
  <2>1. /\ ~ Handing' /\ fan'.todo = {} /\ fan'.to = NoStream /\ channel' = <<>>
        /\ \A s \in Sockets : updates'[s] = <<>> /\ wire'[s] = <<>>
    BY <1>4 DEF Restart, NewProcess, NotHanding, Handing
  <2>2. <<>> \o <<>> = <<>> /\ Len(<<>>) = 0 /\ 1..0 = {}
    BY ConcatEmptySeq, EmptySeq
  <2>3. \A s \in Sockets : Told(s)' = <<>>
    BY <2>1, <2>2 DEF Told
  <2> QED
    BY <2>1, <2>2, <2>3 DEF QueueInv, Ascends, Before, Later, Happened
<1> QED
  BY <1>1, <1>2, <1>3, <1>4, FireQueues, ForwardQueues, ReplyQueues, TakeQueues, HandQueues
  DEF StreamNext, streamVars, Connect, EnterBook, BookReplies, StreamLeaves, Forget, Command, Stop

\* The process starts with nothing in any queue.
LEMMA StreamStarts == StreamInit => StreamTypes /\ QueueInv /\ OwnInv
<1> SUFFICES ASSUME StreamInit PROVE StreamTypes /\ QueueInv /\ OwnInv
  OBVIOUS
<1>1. WalTypes
  BY EmptySeq DEF StreamInit, WalTypes
<1>2. /\ handler \in [Sockets -> Handlers]
      /\ fan \in [event : Events \cup {NoEvent}, todo : SUBSET Sockets, to : Sockets \cup {NoStream}]
      /\ fan.to = NoStream /\ fan.todo = {} /\ ~ Handing
  BY DEF StreamInit, Resting, Handlers, NotHanding, Handing
<1>3. <<>> \o <<>> = <<>> /\ Len(<<>>) = 0 /\ 1..0 = {} /\ <<>> \in Seq(Events) /\ <<>> \in Seq(Updates)
  BY ConcatEmptySeq, EmptySeq
<1>4. StreamTypes
  BY <1>1, <1>2, <1>3 DEF StreamTypes, StreamInit
<1>5. \A s \in Sockets : Told(s) = <<>>
  BY <1>3 DEF Told, StreamInit
<1>6. QueueInv
  BY <1>2, <1>3, <1>5 DEF StreamInit, QueueInv, Ascends, Before, Later, Happened
<1>7. OwnInv
  BY DEF StreamInit, Resting, OwnInv
<1> QED
  BY <1>4, <1>6, <1>7

\* main.go's hook, consumeEvents, StreamOrders and its command handlers: for any
\* number of sessions, instruments and commands and any capacity of the channels,
\* a stream may miss events, but what is forwarded to it ascends per instrument,
\* what answers tell it ascends, and no answer tells of an event after that event
\* or a later one; only an answer is ahead of what is forwarded.
THEOREM StreamsTold == StreamSpec => []StreamsInOrder
<1>1. StreamTypes /\ QueueInv => StreamsInOrder
  <2> SUFFICES ASSUME StreamTypes, QueueInv, NEW s \in Streaming,
                      NEW p \in DOMAIN (wire[s] \o updates[s]), NEW q \in DOMAIN (wire[s] \o updates[s]),
                      p < q, (wire[s] \o updates[s])[p].inst = (wire[s] \o updates[s])[q].inst
               PROVE  Later((wire[s] \o updates[s])[p], (wire[s] \o updates[s])[q])
    BY DEF StreamsInOrder, Later
  <2>1. s \in Sockets
    BY StreamAssumption DEF StreamAssumption
  <2>2. PICK t \in Seq(Updates) : t = wire[s] \o updates[s] /\ DOMAIN t = 1..Len(t) /\ Ascends(t)
    BY <2>1, ToldSeq, LenProperties DEF QueueInv, Told
  <2> QED
    BY <2>2 DEF Ascends
<1>2. /\ StreamTypes /\ QueueInv /\ OwnInv /\ [StreamNext]_streamVars
            => (StreamTypes /\ QueueInv /\ OwnInv)'
  BY StreamTypesStep, QueueStep, OwnStep
<1> QED
  BY <1>1, <1>2, StreamStarts, PTL DEF StreamSpec

-----------------------------------------------------------------------------
(* The journal. *)

Asked(j, id) == \E p \in 1..Len(j) : j[p].kind = "intent" /\ j[p].by = id
Has(j, i, n, r) == \E p \in 1..Len(j) : j[p].kind = "event" /\ j[p].inst = i /\ j[p].run = r /\ j[p].n = n
Follows(j) == \A q \in 1..Len(j) : j[q].kind = "event" =>
    /\ \E p \in 1..(q - 1) : j[p].kind = "intent" /\ j[p].by = j[q].by
    /\ j[q].n > 1 => \E p \in 1..(q - 1) :
         j[p].kind = "event" /\ j[p].inst = j[q].inst /\ j[p].run = j[q].run /\ j[p].n = j[q].n - 1

\* While the disk works the journal has every intent that is being carried out
\* and every event there was; a flush is due before the buffer is full.
JournalInv ==
    /\ Follows(Journalled)
    /\ (status = "up" /\ ~ journal.broken) =>
         /\ Len(journal.buffer) = journal.pending /\ journal.pending < FlushEvery
         /\ \A i \in Instruments : \A n \in 1..fired[i] : Has(Journalled, i, n, runs)
         /\ \A s \in Sockets : handler[s].at \in {"intended", "matching"} => Asked(Journalled, handler[s].id)

\* An entry the journal accounts for goes to its end, and none is lost.
LEMMA FollowsOn ==
  ASSUME NEW j \in Seq(Entries), NEW e \in Entries, Follows(j),
         e.kind = "event" => Asked(j, e.by) /\ (e.n > 1 => Has(j, e.inst, e.n - 1, e.run))
  PROVE  /\ Follows(Append(j, e))
         /\ \A i, n, r : Has(j, i, n, r) => Has(Append(j, e), i, n, r)
         /\ \A id : Asked(j, id) => Asked(Append(j, e), id)
         /\ e.kind = "intent" => Asked(Append(j, e), e.by)
         /\ e.kind = "event" => Has(Append(j, e), e.inst, e.n, e.run)
<1>1. PICK k \in Seq(Entries) : k = Append(j, e)
  BY AppendProperties
<1>2. Len(j) \in Nat /\ Len(k) = Len(j) + 1 /\ k[Len(j) + 1] = e /\ \A i \in 1..Len(j) : k[i] = j[i]
  BY <1>1, AppendProperties, LenProperties
<1>3. /\ \A i, n, r : Has(j, i, n, r) => Has(k, i, n, r)
      /\ \A id : Asked(j, id) => Asked(k, id)
      /\ e.kind = "intent" => Asked(k, e.by)
      /\ e.kind = "event" => Has(k, e.inst, e.n, e.run)
  BY ONLY <1>2 DEF Has, Asked
<1>4. ASSUME NEW q \in 1..Len(k), k[q].kind = "event"
      PROVE  /\ \E p \in 1..(q - 1) : k[p].kind = "intent" /\ k[p].by = k[q].by
             /\ k[q].n > 1 => \E p \in 1..(q - 1) :
                  k[p].kind = "event" /\ k[p].inst = k[q].inst /\ k[p].run = k[q].run /\ k[p].n = k[q].n - 1
  <2>1. CASE q = Len(j) + 1
    <3>1. q - 1 = Len(j) /\ k[q] = e
      BY <1>2, <2>1
    <3> QED
      BY <1>2, <1>4, <3>1 DEF Asked, Has
  <2>2. CASE q \in 1..Len(j)
    <3>1. k[q] = j[q] /\ \A p \in 1..(q - 1) : p \in 1..Len(j) /\ k[p] = j[p]
      BY <1>2, <2>2
    <3> QED
      BY <1>4, <2>2, <3>1 DEF Follows
  <2> QED
    BY <1>2, <2>1, <2>2
<1>5. Follows(k)
  BY ONLY <1>4 DEF Follows
<1> QED
  BY ONLY <1>1, <1>3, <1>5

\* What was flushed follows the book as well: a crash takes the journal's end.
LEMMA FollowsBefore ==
  ASSUME NEW f \in Seq(Entries), NEW b \in Seq(Entries), Follows(f \o b) PROVE Follows(f)
<1>1. PICK k \in Seq(Entries) : k = f \o b /\ Follows(k)
  BY ConcatProperties
<1>2. Len(f) \in Nat /\ Len(b) \in Nat /\ Len(k) = Len(f) + Len(b)
      /\ \A i \in 1..(Len(f) + Len(b)) : k[i] = IF i <= Len(f) THEN f[i] ELSE b[i - Len(f)]
  BY <1>1, ConcatProperties, LenProperties
<1>3. \A i \in 1..Len(f) : i \in 1..Len(k) /\ k[i] = f[i] /\ \A p \in 1..(i - 1) : p \in 1..Len(f)
  BY <1>2
<1> QED
  BY <1>1, <1>3 DEF Follows

\* Log adds the entry at the journal's end, flushed or not.
LEMMA LogAdds ==
  ASSUME StreamTypes, NEW entry \in Entries, Log(entry)
  PROVE  /\ journal.broken => journal' = journal
         /\ ~ journal.broken =>
              /\ Journalled' = Append(Journalled, entry)
              /\ (~ journal'.broken /\ Len(journal.buffer) = journal.pending) =>
                    Len(journal'.buffer) = journal'.pending /\ journal'.pending < FlushEvery
<1>0. PICK k : k = journal.broken
  OBVIOUS
<1>1. PICK f \in Seq(Entries), b \in Seq(Entries), n \in Nat :
          journal = [file |-> f, buffer |-> b, pending |-> n, broken |-> k]
  BY <1>0 DEF StreamTypes, WalTypes
<1>2. PICK c \in Seq(Entries) : c = Append(b, entry) /\ Len(c) = Len(b) + 1
  BY AppendProperties
<1>3. f \o c = Append(f \o b, entry) /\ (f \o c) \o <<>> = f \o c /\ Journalled = f \o b
  <2>1. c = b \o <<entry>> /\ <<entry>> \in Seq(Entries) /\ f \o b \in Seq(Entries) /\ f \o c \in Seq(Entries)
    BY <1>2, AppendIsConcat, ConcatProperties
  <2> QED
    BY <1>1, <2>1, AppendIsConcat, ConcatAssociative, ConcatEmptySeq DEF Journalled
<1>4. FlushEvery \in Nat \ {0} /\ Len(<<>>) = 0
  BY StreamAssumption, EmptySeq DEF StreamAssumption
<1>5. CASE journal.broken
  BY <1>5 DEF Log
<1>6. CASE ~ journal.broken /\ n + 1 < FlushEvery
  <2>1. journal' = [file |-> f, buffer |-> c, pending |-> n + 1, broken |-> k]
    BY <1>1, <1>2, <1>6 DEF Log
  <2>2. Journalled' = f \o c
    BY <2>1 DEF Journalled
  <2> QED
    BY <1>1, <1>2, <1>3, <1>6, <2>1, <2>2
<1>7. CASE ~ journal.broken /\ ~ (n + 1 < FlushEvery)
  <2>1. \/ journal' = [file |-> f \o c, buffer |-> <<>>, pending |-> 0, broken |-> k]
        \/ journal' = [file |-> f, buffer |-> c, pending |-> n + 1, broken |-> TRUE]
    BY <1>1, <1>2, <1>7 DEF Log
  <2>2. CASE journal' = [file |-> f \o c, buffer |-> <<>>, pending |-> 0, broken |-> k]
    <3>1. Journalled' = (f \o c) \o <<>>
      BY <2>2 DEF Journalled
    <3> QED
      BY <1>3, <1>4, <1>7, <2>2, <3>1
  <2>3. CASE journal' = [file |-> f, buffer |-> c, pending |-> n + 1, broken |-> TRUE]
    <3>1. Journalled' = f \o c /\ journal'.broken
      BY <2>3 DEF Journalled
    <3> QED
      BY <1>3, <1>7, <3>1
  <2> QED
    BY <2>1, <2>2, <2>3
<1> QED
  BY <1>5, <1>6, <1>7

\* A log call that had its cause keeps the journal in the book's order, and
\* while the disk works loses nothing.
LEMMA LogFollows ==
  ASSUME StreamTypes, JournalInv, status = "up", NEW entry \in Entries, Log(entry),
         (~ journal.broken /\ entry.kind = "event") =>
            Asked(Journalled, entry.by) /\ (entry.n > 1 => Has(Journalled, entry.inst, entry.n - 1, entry.run))
  PROVE  /\ Follows(Journalled')
         /\ ~ journal'.broken =>
              /\ ~ journal.broken
              /\ Len(journal'.buffer) = journal'.pending /\ journal'.pending < FlushEvery
              /\ \A i, n, r : Has(Journalled, i, n, r) => Has(Journalled', i, n, r)
              /\ \A id : Asked(Journalled, id) => Asked(Journalled', id)
              /\ entry.kind = "intent" => Asked(Journalled', entry.by)
              /\ entry.kind = "event" => Has(Journalled', entry.inst, entry.n, entry.run)
<1>1. CASE journal.broken
  <2>1. journal' = journal
    BY <1>1, LogAdds
  <2> QED
    BY <1>1, <2>1 DEF JournalInv, Journalled
<1>2. CASE ~ journal.broken
  <2>1. PICK j \in Seq(Entries) : j = Journalled /\ Journalled' = Append(j, entry)
    <3>1. Journalled \in Seq(Entries)
      BY ConcatProperties DEF Journalled, StreamTypes, WalTypes
    <3> QED
      BY <1>2, <3>1, LogAdds
  <2>2. Follows(j)
    BY <2>1 DEF JournalInv
  <2>3. entry.kind = "event" => Asked(j, entry.by) /\ (entry.n > 1 => Has(j, entry.inst, entry.n - 1, entry.run))
    BY <1>2, <2>1
  <2>4. /\ Follows(Append(j, entry))
        /\ \A i, n, r : Has(j, i, n, r) => Has(Append(j, entry), i, n, r)
        /\ \A id : Asked(j, id) => Asked(Append(j, entry), id)
        /\ entry.kind = "intent" => Asked(Append(j, entry), entry.by)
        /\ entry.kind = "event" => Has(Append(j, entry), entry.inst, entry.n, entry.run)
    BY <2>2, <2>3, FollowsOn
  <2>5. ~ journal'.broken => Len(journal'.buffer) = journal'.pending /\ journal'.pending < FlushEvery
    BY <1>2, LogAdds DEF JournalInv
  <2> QED
    BY <1>2, <2>1, <2>4, <2>5
<1> QED
  BY <1>1, <1>2

\* The intent is logged before the command reaches the book.
LEMMA CommandLogs ==
  ASSUME StreamTypes, JournalInv, NEW s \in Sockets, NEW inst \in Instruments, NEW burst \in Bursts,
         Command(s, inst, burst)
  PROVE  JournalInv'
<1>1. PICK e \in Entries : e = [kind |-> "intent", inst |-> inst, by |-> commands + 1, run |-> runs]
  <2>1. commands + 1 \in Nat /\ runs \in Nat
    BY DEF StreamTypes
  <2> QED
    BY ONLY <2>1 DEF Entries
<1>2. e.kind = "intent" /\ e.by = commands + 1 /\ Log(e) /\ status = "up"
  BY <1>1 DEF Command, Is
<1>3. e.kind # "event"
  BY <1>2
<1>4. /\ Follows(Journalled')
      /\ ~ journal'.broken =>
           /\ ~ journal.broken
           /\ Len(journal'.buffer) = journal'.pending /\ journal'.pending < FlushEvery
           /\ \A i, n, r : Has(Journalled, i, n, r) => Has(Journalled', i, n, r)
           /\ \A id : Asked(Journalled, id) => Asked(Journalled', id)
           /\ Asked(Journalled', commands + 1)
  BY <1>2, <1>3, LogFollows
<1>5. UNCHANGED <<fired, runs, status>>
  BY DEF Command
<1>6. \A t \in Sockets : \/ handler'[t] = handler[t]
                         \/ handler'[t].id = commands + 1
  BY DEF Command, Now, StreamTypes
<1>7. ASSUME ~ journal'.broken
      PROVE  /\ \A i \in Instruments : \A n \in 1..fired'[i] : Has(Journalled', i, n, runs')
             /\ \A t \in Sockets : handler'[t].at \in {"intended", "matching"} => Asked(Journalled', handler'[t].id)
  BY <1>2, <1>4, <1>5, <1>6, <1>7 DEF JournalInv
<1> QED
  BY <1>4, <1>7 DEF JournalInv

\* The hook logs the event: its command is in the journal and so is the event
\* before it.
LEMMA FireLogs ==
  ASSUME StreamTypes, JournalInv, NEW s \in Sockets, Fire(s) PROVE JournalInv'
<1>1. PICK e \in Events, h \in Handlers :
          /\ h.id = handler[s].id /\ handler' = [handler EXCEPT ![s] = h] /\ handler[s].at = "matching"
          /\ e.n = fired[e.inst] + 1 /\ e.by = handler[s].id /\ e.run = runs /\ Log(e)
          /\ fired' = [fired EXCEPT ![e.inst] = @ + 1] /\ UNCHANGED <<runs, status>>
  <2>1. PICK e \in Events, h \in Handlers :
            /\ h = [at |-> "matching", inst |-> handler[s].inst, id |-> handler[s].id,
                    left |-> handler[s].left - 1, own |-> Append(handler[s].own, e)]
            /\ handler' = [handler EXCEPT ![s] = h] /\ handler[s].at = "matching"
            /\ e.n = fired[e.inst] + 1 /\ e.by = handler[s].id /\ e.run = runs /\ Log(e)
            /\ fired' = [fired EXCEPT ![e.inst] = @ + 1] /\ UNCHANGED <<runs, status>>
    BY FireDoes
  <2>2. h.id = handler[s].id
    BY ONLY <2>1
  <2> QED
    BY <2>1, <2>2
<1>2. PICK i \in Instruments, b \in Nat, m \in Nat, r \in Nat :
          i = e.inst /\ b = e.by /\ m = fired[i] /\ r = runs /\ e.kind = "event" /\ status = "up"
  <2>1. status = "up" /\ runs \in Nat /\ fired \in [Instruments -> Nat]
    BY DEF StreamTypes, Fire, Is
  <2> QED
    BY <2>1 DEF Events
<1>4. Log(e) /\ e \in Entries /\ fired' = [fired EXCEPT ![i] = m + 1] /\ UNCHANGED <<runs, status>>
  BY <1>1, <1>2 DEF Entries
<1>5. e.inst = i /\ e.n = m + 1 /\ e.by = b /\ e.run = r /\ e.kind = "event"
  BY <1>1, <1>2
<1>6. ~ journal.broken => Asked(Journalled, b) /\ (m + 1 > 1 => Has(Journalled, i, m + 1 - 1, r))
  <2> SUFFICES ASSUME ~ journal.broken
               PROVE  Asked(Journalled, b) /\ (m + 1 > 1 => Has(Journalled, i, m + 1 - 1, r))
    OBVIOUS
  <2>1. Asked(Journalled, b)
    BY <1>1, <1>2 DEF JournalInv
  <2>2. m + 1 > 1 => m + 1 - 1 = m /\ m \in 1..m
    BY <1>2
  <2>3. m \in 1..m => Has(Journalled, i, m, r)
    BY <1>1, <1>2 DEF JournalInv
  <2> QED
    BY <2>1, <2>2, <2>3
<1>7. /\ Follows(Journalled')
      /\ ~ journal'.broken =>
           /\ ~ journal.broken
           /\ Len(journal'.buffer) = journal'.pending /\ journal'.pending < FlushEvery
           /\ \A x, n, y : Has(Journalled, x, n, y) => Has(Journalled', x, n, y)
           /\ \A id : Asked(Journalled, id) => Asked(Journalled', id)
           /\ Has(Journalled', i, m + 1, r)
  <2>1. (~ journal.broken /\ e.kind = "event") =>
            Asked(Journalled, e.by) /\ (e.n > 1 => Has(Journalled, e.inst, e.n - 1, e.run))
    BY <1>5, <1>6
  <2>2. /\ Follows(Journalled')
        /\ ~ journal'.broken =>
             /\ ~ journal.broken
             /\ Len(journal'.buffer) = journal'.pending /\ journal'.pending < FlushEvery
             /\ \A x, n, y : Has(Journalled, x, n, y) => Has(Journalled', x, n, y)
             /\ \A id : Asked(Journalled, id) => Asked(Journalled', id)
             /\ e.kind = "event" => Has(Journalled', e.inst, e.n, e.run)
    BY <1>2, <1>4, <2>1, LogFollows
  <2> QED
    BY <1>5, <2>2
<1>8. \A t \in Sockets : handler'[t].at \in {"intended", "matching"} =>
          handler[t].at \in {"intended", "matching"} /\ handler'[t].id = handler[t].id
  BY <1>1 DEF StreamTypes
<1>9. ASSUME ~ journal'.broken
      PROVE  /\ \A x \in Instruments : \A n \in 1..fired'[x] : Has(Journalled', x, n, runs')
             /\ \A t \in Sockets : handler'[t].at \in {"intended", "matching"} => Asked(Journalled', handler'[t].id)
  <2>1. \A x \in Instruments : \A n \in 1..fired'[x] : n \in 1..fired[x] \/ (x = i /\ n = m + 1)
    <3>1. \A x \in Instruments : x # i => fired'[x] = fired[x]
      BY <1>4 DEF StreamTypes
    <3>2. fired'[i] = m + 1
      BY <1>4 DEF StreamTypes
    <3> QED
      BY <1>2, <3>1, <3>2
  <2>2. \A x \in Instruments : \A n \in 1..fired[x] : Has(Journalled, x, n, runs)
    BY <1>2, <1>7, <1>9 DEF JournalInv
  <2>3. \A t \in Sockets : handler[t].at \in {"intended", "matching"} => Asked(Journalled, handler[t].id)
    BY <1>2, <1>7, <1>9 DEF JournalInv
  <2> QED
    BY <1>2, <1>4, <1>7, <1>8, <1>9, <2>1, <2>2, <2>3
<1> QED
  BY <1>7, <1>9 DEF JournalInv

\* One step keeps the journal true to the book.
LEMMA JournalStep == StreamTypes /\ JournalInv /\ [StreamNext]_streamVars => JournalInv'
<1> SUFFICES ASSUME StreamTypes, JournalInv, [StreamNext]_streamVars PROVE JournalInv'
  OBVIOUS
<1>1. ASSUME UNCHANGED <<journal, fired, runs>>, status' = "up" => status = "up",
             \A s \in Sockets : handler'[s].at \in {"intended", "matching"} =>
                handler[s].at \in {"intended", "matching"} /\ handler'[s].id = handler[s].id
      PROVE  JournalInv'
  <2>1. Journalled' = Journalled
    BY <1>1 DEF Journalled
  <2>2. Follows(Journalled')
    BY <2>1 DEF JournalInv
  <2>3. ASSUME status' = "up", ~ journal'.broken
        PROVE  /\ Len(journal'.buffer) = journal'.pending /\ journal'.pending < FlushEvery
               /\ \A i \in Instruments : \A n \in 1..fired'[i] : Has(Journalled', i, n, runs')
               /\ \A s \in Sockets : handler'[s].at \in {"intended", "matching"} => Asked(Journalled', handler'[s].id)
    <3>1. status = "up" /\ ~ journal.broken /\ journal' = journal
      BY <1>1, <2>3
    <3> QED
      BY <1>1, <2>1, <3>1 DEF JournalInv
  <2> QED
    BY <2>2, <2>3 DEF JournalInv
<1>2. ASSUME NEW s \in Sockets,
             Connect(s) \/ BookReplies(s) \/ Reply(s) \/ StreamLeaves(s) \/ Forget(s)
      PROVE  JournalInv'
  <2>1. PICK h : /\ handler' = [handler EXCEPT ![s] = h]
                 /\ h.at \in {"serving", "replying", "closed", "gone"}
    <3>1. ASSUME NEW a \in {"serving", "closed", "gone"}, Now(s, [at |-> a])
          PROVE  \E h : /\ handler' = [handler EXCEPT ![s] = h]
                        /\ h.at \in {"serving", "replying", "closed", "gone"}
      <4>1. PICK g : g = [at |-> a]
        OBVIOUS
      <4>2. g.at = a
        BY <4>1
      <4> QED
        BY <3>1, <4>1, <4>2 DEF Now
    <3>2. CASE Connect(s) \/ StreamLeaves(s) \/ Forget(s)
      BY <3>1, <3>2 DEF Connect, StreamLeaves, Forget
    <3>3. CASE BookReplies(s)
      BY <3>3, OwnTypes, AnswerTypes DEF BookReplies, Is
    <3>4. CASE Reply(s)
      <4>1. handler[s].own \in Seq(Events) /\ handler[s].own # <<>>
        BY <3>4, OwnTypes DEF Reply, Is
      <4>2. PICK own \in Seq(Events) : Answering(s, own)
        BY <3>4, <4>1, HeadTailProperties DEF Reply
      <4> QED
        BY <4>2, AnswerTypes
    <3> QED
      BY <1>2, <3>2, <3>3, <3>4
  <2>2. \A t \in Sockets : handler'[t] = handler[t] \/ handler'[t].at \notin {"intended", "matching"}
    BY <2>1 DEF StreamTypes
  <2>3. UNCHANGED <<journal, fired, runs, status>>
    BY <1>2 DEF Connect, BookReplies, Reply, StreamLeaves, Forget
  <2> QED
    BY <1>1, <2>2, <2>3
<1>3. ASSUME NEW s \in Sockets, EnterBook(s) PROVE JournalInv'
  <2>1. PICK h \in Handlers : h = handler[s] /\ h.at = "intended" /\ handler' = [handler EXCEPT ![s] = [h EXCEPT !.at = "matching"]]
    BY <1>3 DEF EnterBook, Is, Now, StreamTypes
  <2>2. [h EXCEPT !.at = "matching"].id = h.id
    BY <2>1 DEF Handlers
  <2>3. \A t \in Sockets : handler'[t] = handler[t] \/ (t = s /\ handler'[t].id = handler[t].id)
    BY <2>1, <2>2 DEF StreamTypes
  <2>4. UNCHANGED <<journal, fired, runs, status>>
    BY <1>3 DEF EnterBook
  <2> QED
    BY <1>1, <2>1, <2>3, <2>4
<1>4. ASSUME NEW s \in Sockets, Forward(s) \/ ReachStream(s) PROVE JournalInv'
  BY <1>1, <1>4 DEF Forward, ReachStream
<1>5. CASE TakeEvent \/ HandedOut
  BY <1>1, <1>5 DEF TakeEvent, HandedOut
<1>6. CASE HandOver
  BY <1>1, <1>6 DEF HandOver
<1>7. CASE UNCHANGED streamVars
  BY <1>1, <1>7 DEF streamVars
<1>0. PICK k : k = journal.broken
  OBVIOUS
<1>8. PICK f \in Seq(Entries), b \in Seq(Entries), n \in Nat :
          journal = [file |-> f, buffer |-> b, pending |-> n, broken |-> k] /\ Follows(f \o b)
  BY <1>0 DEF StreamTypes, WalTypes, JournalInv, Journalled
<1>9. /\ (f \o b) \o <<>> = f \o b /\ f \o <<>> = f /\ Follows(f)
      /\ Len(<<>>) = 0
  BY <1>8, FollowsBefore, ConcatEmptySeq, ConcatProperties, EmptySeq
<1>10. ASSUME NEW c \in BOOLEAN, Stop(c) PROVE JournalInv'
  <2>1. status' # "up"
    BY <1>10 DEF Stop
  <2>2. \/ journal' = journal
        \/ journal' = [file |-> f \o b, buffer |-> <<>>, pending |-> n, broken |-> k]
    BY <1>8, <1>10 DEF Stop
  <2>3. Journalled' \in {f \o b, (f \o b) \o <<>>}
    <3>1. CASE journal' = journal
      BY <1>8, <3>1 DEF Journalled
    <3>2. CASE journal' = [file |-> f \o b, buffer |-> <<>>, pending |-> n, broken |-> k]
      BY <3>2 DEF Journalled
    <3> QED
      BY <2>2, <3>1, <3>2
  <2>4. Journalled' = f \o b
    BY <1>9, <2>3
  <2>5. Follows(Journalled')
    BY <1>8, <2>4
  <2> QED
    BY <2>1, <2>5 DEF JournalInv
<1>11. CASE Restart
  <2>1. journal' = [file |-> f, buffer |-> <<>>, pending |-> 0, broken |-> FALSE]
    BY <1>8, <1>11 DEF Restart
  <2>2. Journalled' = f \o <<>>
    BY <2>1 DEF Journalled
  <2>3. Follows(Journalled')
    BY <1>9, <2>2
  <2>4. Len(journal'.buffer) = journal'.pending /\ journal'.pending < FlushEvery
    BY <1>9, <2>1, StreamAssumption DEF StreamAssumption
  <2>5. /\ \A i \in Instruments : fired'[i] = 0
        /\ \A s \in Sockets : handler'[s].at = "off"
    BY <1>11 DEF Restart, NewProcess, Resting
  <2>6. \A i \in Instruments : 1..fired'[i] = {}
    BY <2>5
  <2> QED
    BY <2>3, <2>4, <2>5, <2>6 DEF JournalInv
<1> QED
  BY <1>2, <1>3, <1>4, <1>5, <1>6, <1>7, <1>10, <1>11, CommandLogs, FireLogs DEF StreamNext

\* wal.Append, Close, the hook and engine.PlaceLimit: for any number of sessions
\* and instruments, any flush interval and any crashes and failed flushes, the
\* journal tells each instrument's events in the book's order and without a
\* gap, and what was asked before what came of it; while the disk works it has
\* all of them, and a crash costs less than a flush interval.
THEOREM JournalTrue == StreamSpec => []JournalFollowsBook
<1>1. StreamInit => JournalInv
  <2> SUFFICES ASSUME StreamInit PROVE JournalInv
    OBVIOUS
  <2>1. Len(<<>>) = 0 /\ <<>> \o <<>> = <<>> /\ 1..0 = {}
    BY EmptySeq, ConcatEmptySeq
  <2>2. /\ Journalled = <<>> /\ Len(journal.buffer) = journal.pending /\ journal.pending < FlushEvery
        /\ \A i \in Instruments : fired[i] = 0
        /\ \A s \in Sockets : handler[s].at = "off"
    BY <2>1, StreamAssumption DEF StreamInit, StreamAssumption, Journalled, Resting
  <2> QED
    BY <2>1, <2>2 DEF JournalInv, Follows
<1>2. StreamTypes /\ JournalInv => JournalFollowsBook
  <2> SUFFICES ASSUME StreamTypes, JournalInv PROVE JournalFollowsBook
    OBVIOUS
  <2>1. PICK j \in Seq(Entries) : j = Journalled /\ DOMAIN j = 1..Len(j) /\ Follows(j)
    <3>1. Journalled \in Seq(Entries)
      BY ConcatProperties DEF Journalled, StreamTypes, WalTypes
    <3> QED
      BY <3>1, LenProperties DEF JournalInv
  <2>2. \A q \in DOMAIN j : j[q].kind = "event" =>
          /\ \E p \in 1..(q - 1) : j[p].kind = "intent" /\ j[p].by = j[q].by
          /\ j[q].n > 1 => \E p \in 1..(q - 1) :
               j[p].kind = "event" /\ j[p].inst = j[q].inst /\ j[p].run = j[q].run /\ j[p].n = j[q].n - 1
    BY <2>1 DEF Follows
  <2>3. (status = "up" /\ ~ journal.broken) =>
          /\ Len(journal.buffer) < FlushEvery
          /\ \A i \in Instruments : \A n \in 1..fired[i] : \E p \in DOMAIN j :
               j[p].kind = "event" /\ j[p].inst = i /\ j[p].run = runs /\ j[p].n = n
    BY <2>1 DEF JournalInv, Has
  <2> QED
    BY <2>1, <2>2, <2>3 DEF JournalFollowsBook
<1>3. StreamTypes /\ JournalInv /\ [StreamNext]_streamVars => (StreamTypes /\ JournalInv)'
  BY StreamTypesStep, JournalStep
<1>4. StreamInit => StreamTypes
  BY StreamStarts
<1> QED
  BY <1>1, <1>2, <1>3, <1>4, PTL DEF StreamSpec

-----------------------------------------------------------------------------
(* The limiter. *)

\* What a bucket would hold if it were asked now.
Worth(b) == Accrued(b).tokens

Tank(b) == b.tokens \in 0..Burst /\ b.last \in Nat /\ b.last =< tick

LimitTypes ==
    /\ tick \in Nat /\ lastGC \in Nat
    /\ DOMAIN mapped \subseteq Sources /\ IsFiniteSet(DOMAIN mapped) /\ Cardinality(DOMAIN mapped) =< MaxKeys
    /\ \A c \in DOMAIN mapped : /\ mapped[c].bucket \in DOMAIN bucket
                                /\ mapped[c].seen \in Nat /\ mapped[c].seen =< tick
    /\ DOMAIN held \subseteq Servers
    /\ \A r \in DOMAIN held : /\ held[r].bucket \in DOMAIN bucket /\ held[r].caller \in Sources
                              /\ held[r].since \in Nat /\ held[r].since =< tick
                              /\ tick =< held[r].since + MaxHold
    /\ DOMAIN bucket \subseteq Reachable
    /\ \A b \in DOMAIN bucket : Tank(bucket[b])
    /\ allowance \in [Sources -> [tokens : Nat, last : Nat]]
    /\ \A c \in Sources : Tank(allowance[c])

\* A caller that lost no bucket to the cap: the requests it has under way hold
\* the bucket it has in the map; that bucket is worth no more than its
\* allowance; while it is in the map its last token was not taken much later
\* than it was seen; and while it is not, its allowance is full.
Limited(c) ==
    /\ \A r \in DOMAIN held : held[r].caller = c =>
         c \in DOMAIN mapped /\ mapped[c].bucket = held[r].bucket /\ held[r].since =< mapped[c].seen
    /\ c \in DOMAIN mapped => /\ Worth(bucket[mapped[c].bucket]) =< Worth(allowance[c])
                              /\ allowance[c].last =< mapped[c].seen + MaxHold
    /\ c \notin DOMAIN mapped => Worth(allowance[c]) = Burst

LimitInv ==
    /\ LimitTypes
    /\ \A c \in Sources \ displaced : Limited(c)
    /\ overdrawn \subseteq displaced

\* There is always a bucket left for a new caller.
LEMMA FreshBucket ==
  ASSUME LimitTypes, NEW r \in Servers, r \notin DOMAIN held
  PROVE  \E b \in Buckets : b \notin DOMAIN bucket
<1>1. IsFiniteSet(Servers) /\ MaxKeys \in Nat
  BY LimitAssumption DEF LimitAssumption
<1>2. PICK M, H : M = {mapped[c].bucket : c \in DOMAIN mapped} /\ H = {held[q].bucket : q \in DOMAIN held}
  OBVIOUS
<1>3. IsFiniteSet(M) /\ Cardinality(M) =< Cardinality(DOMAIN mapped)
  <2>1. [c \in DOMAIN mapped |-> mapped[c].bucket] \in Surjection(DOMAIN mapped, M)
    BY <1>2 DEF Surjection
  <2> QED
    BY <2>1, FS_Surjection DEF LimitTypes
<1>4. IsFiniteSet(DOMAIN held) /\ Cardinality(DOMAIN held) =< Cardinality(Servers) - 1
  <2>1. DOMAIN held \in SUBSET (Servers \ {r})
    BY DEF LimitTypes
  <2>2. IsFiniteSet(Servers \ {r}) /\ Cardinality(Servers \ {r}) = Cardinality(Servers) - 1
    BY <1>1, FS_RemoveElement
  <2> QED
    BY <2>1, <2>2, FS_Subset
<1>5. IsFiniteSet(H) /\ Cardinality(H) =< Cardinality(DOMAIN held)
  <2>1. [q \in DOMAIN held |-> held[q].bucket] \in Surjection(DOMAIN held, H)
    BY <1>2 DEF Surjection
  <2> QED
    BY <2>1, <1>4, FS_Surjection
<1>6. IsFiniteSet(M \cup H) /\ Cardinality(M \cup H) =< Cardinality(M) + Cardinality(H)
  <2>1. /\ IsFiniteSet(M \cup H)
        /\ Cardinality(M \cup H) = Cardinality(M) + Cardinality(H) - Cardinality(M \cap H)
    BY <1>3, <1>5, FS_Union
  <2>2. IsFiniteSet(M \cap H)
    BY <1>3, FS_Subset
  <2>3. Cardinality(M) \in Nat /\ Cardinality(H) \in Nat /\ Cardinality(M \cap H) \in Nat
    BY <1>3, <1>5, <2>2, FS_CardinalityType
  <2> QED
    BY <2>1, <2>3
<1>7. IsFiniteSet(Buckets) /\ Cardinality(Buckets) = MaxKeys + Cardinality(Servers)
  <2>1. PICK n \in Nat : n = Cardinality(Servers)
    BY <1>1, FS_CardinalityType
  <2>2. PICK m \in Nat : m = MaxKeys + n /\ m >= 1
    BY <1>1, <2>1, LimitAssumption DEF LimitAssumption
  <2>3. IsFiniteSet(1..m) /\ Cardinality(1..m) = m
    BY <2>2, FS_Interval
  <2> QED
    BY <2>1, <2>2, <2>3 DEF Buckets
<1>8. Cardinality(M \cup H) < Cardinality(Buckets)
  <2>1. /\ Cardinality(M) \in Nat /\ Cardinality(H) \in Nat /\ Cardinality(Servers) \in Nat
        /\ Cardinality(DOMAIN mapped) \in Nat /\ Cardinality(DOMAIN held) \in Nat /\ Cardinality(M \cup H) \in Nat
    BY <1>1, <1>3, <1>4, <1>5, <1>6, FS_CardinalityType DEF LimitTypes
  <2> QED
    BY <1>1, <1>3, <1>4, <1>5, <1>6, <1>7, <2>1 DEF LimitTypes
<1>9. DOMAIN bucket \subseteq M \cup H
  BY <1>2 DEF LimitTypes, Reachable
<1>10. ~ (Buckets \subseteq M \cup H)
  <2>1. SUFFICES ASSUME Buckets \in SUBSET (M \cup H) PROVE FALSE
    OBVIOUS
  <2>2. Cardinality(Buckets) =< Cardinality(M \cup H)
    BY <1>6, <2>1, FS_Subset
  <2> QED
    BY <1>6, <1>7, <1>8, <2>2, FS_CardinalityType
<1> QED
  BY <1>9, <1>10

\* While time passes a bucket gains a token or is full.
LEMMA WorthGrows ==
  ASSUME tick \in Nat, tick' = tick + 1, NEW b, NEW a, Tank(b), Tank(a)
  PROVE  /\ Tank(b)'
         /\ Worth(b)' = IF Worth(b) + 1 > Burst THEN Burst ELSE Worth(b) + 1
         /\ Worth(b) =< Worth(a) => Worth(b)' =< Worth(a)'
         /\ Worth(b) \in 0..Burst
<1> USE LimitAssumption DEF LimitAssumption
<1>1. /\ b.tokens \in 0..Burst /\ b.last \in Nat /\ b.last =< tick
      /\ a.tokens \in 0..Burst /\ a.last \in Nat /\ a.last =< tick
  BY DEF Tank
<1>2. Worth(b) = IF b.tokens + (tick - b.last) > Burst THEN Burst ELSE b.tokens + (tick - b.last)
  BY DEF Worth, Accrued
<1>3. Worth(a) = IF a.tokens + (tick - a.last) > Burst THEN Burst ELSE a.tokens + (tick - a.last)
  BY DEF Worth, Accrued
<1>4. Worth(b)' = IF b.tokens + (tick' - b.last) > Burst THEN Burst ELSE b.tokens + (tick' - b.last)
  BY DEF Worth, Accrued
<1>5. Worth(a)' = IF a.tokens + (tick' - a.last) > Burst THEN Burst ELSE a.tokens + (tick' - a.last)
  BY DEF Worth, Accrued
<1>6. Tank(b)'
  BY <1>1 DEF Tank
<1> QED
  BY <1>1, <1>2, <1>3, <1>4, <1>5, <1>6

\* A tick: allowance and bucket fill alike.
LEMMA TickKeepsLimit == ASSUME LimitInv, LimitTick PROVE LimitInv'
<1> USE LimitAssumption DEF LimitAssumption
<1>1. /\ tick \in Nat /\ tick' = tick + 1 /\ UNCHANGED <<bucket, mapped, lastGC, held, allowance, displaced, overdrawn>>
      /\ \A r \in DOMAIN held : tick - held[r].since < MaxHold
  BY DEF LimitTick, LimitInv, LimitTypes
<1>2. \A b, a : Tank(b) /\ Tank(a) =>
        /\ Tank(b)'
        /\ Worth(b)' = IF Worth(b) + 1 > Burst THEN Burst ELSE Worth(b) + 1
        /\ Worth(b) =< Worth(a) => Worth(b)' =< Worth(a)'
        /\ Worth(b) \in 0..Burst
  BY <1>1, WorthGrows
<1>3. \A r \in DOMAIN held : /\ held[r].since \in Nat /\ held[r].since =< tick'
                            /\ tick' =< held[r].since + MaxHold
  BY <1>1 DEF LimitInv, LimitTypes
<1>4. \A c \in DOMAIN mapped : mapped[c].seen =< tick'
  BY <1>1 DEF LimitInv, LimitTypes
<1>5. Reachable' = Reachable
  BY <1>1 DEF Reachable
<1>6. (\A b \in DOMAIN bucket : Tank(bucket[b])') /\ (\A c \in Sources : Tank(allowance[c])')
  <2>1. ASSUME NEW b \in DOMAIN bucket PROVE Tank(bucket[b])'
    <3>1. PICK x : x = bucket[b] /\ x = bucket'[b] /\ Tank(x)
      BY <1>1 DEF LimitInv, LimitTypes
    <3>2. Tank(x)'
      BY <1>2, <3>1
    <3> QED
      BY <3>1, <3>2 DEF Tank
  <2>2. ASSUME NEW c \in Sources PROVE Tank(allowance[c])'
    <3>1. PICK x : x = allowance[c] /\ x = allowance'[c] /\ Tank(x)
      BY <1>1 DEF LimitInv, LimitTypes
    <3>2. Tank(x)'
      BY <1>2, <3>1
    <3> QED
      BY <3>1, <3>2 DEF Tank
  <2> QED
    BY <2>1, <2>2
<1>7. LimitTypes'
  BY <1>1, <1>3, <1>4, <1>5, <1>6 DEF LimitInv, LimitTypes
<1>8. ASSUME NEW c \in Sources \ displaced PROVE Limited(c)'
  <2>1. PICK a : a = allowance[c] /\ a = allowance'[c] /\ Tank(a)
    BY <1>1 DEF LimitInv, LimitTypes
  <2>2. Limited(c)
    BY DEF LimitInv
  <2>3. c \notin DOMAIN mapped => Worth(allowance[c])' = Burst
    <3>1. c \notin DOMAIN mapped => Worth(a) = Burst
      BY <2>1, <2>2 DEF Limited
    <3>2. c \notin DOMAIN mapped => Worth(a)' = Burst
      BY <1>2, <2>1, <3>1
    <3> QED
      BY <2>1, <3>2 DEF Worth, Accrued
  <2>4. c \in DOMAIN mapped => Worth(bucket[mapped[c].bucket])' =< Worth(allowance[c])'
    <3> SUFFICES ASSUME c \in DOMAIN mapped PROVE Worth(bucket[mapped[c].bucket])' =< Worth(allowance[c])'
      OBVIOUS
    <3>1. PICK x : x = bucket[mapped[c].bucket] /\ x = bucket'[mapped'[c].bucket] /\ Tank(x) /\ Worth(x) =< Worth(a)
      BY <1>1, <2>1, <2>2 DEF LimitInv, LimitTypes, Limited
    <3>2. Worth(x)' =< Worth(a)'
      BY <1>2, <2>1, <3>1
    <3> QED
      BY <2>1, <3>1, <3>2 DEF Worth, Accrued
  <2> QED
    BY <1>1, <2>2, <2>3, <2>4 DEF Limited
<1> QED
  BY <1>1, <1>7, <1>8 DEF LimitInv

\* Asking a bucket: its worth stays, and taking a token costs one.
LEMMA AskBucket ==
  ASSUME tick \in Nat, NEW b, Tank(b)
  PROVE  /\ Worth(b) \in 0..Burst
         /\ Tank(Accrued(b)) /\ Worth(Accrued(b)) = Worth(b)
         /\ Accrued(b) \in [tokens : Nat, last : Nat] /\ Accrued(b).last = tick
         /\ Worth(b) >= 1 => /\ Tank(Taken(b)) /\ Worth(Taken(b)) = Worth(b) - 1
                             /\ Taken(b) \in [tokens : Nat, last : Nat] /\ Taken(b).last = tick
<1> USE LimitAssumption DEF LimitAssumption
<1>1. b.tokens \in 0..Burst /\ b.last \in Nat /\ b.last =< tick
  BY DEF Tank
<1>2. PICK w \in 0..Burst : w = Worth(b) /\ Accrued(b) = [tokens |-> w, last |-> tick]
  BY <1>1 DEF Worth, Accrued
<1>3. PICK x : x = Accrued(b) /\ x = [tokens |-> w, last |-> tick]
  BY <1>2
<1>4. Tank(x) /\ Worth(x) = w /\ x \in [tokens : Nat, last : Nat] /\ x.last = tick
  BY <1>3 DEF Tank, Worth, Accrued
<1>5. ASSUME w >= 1
      PROVE  /\ Tank(Taken(b)) /\ Worth(Taken(b)) = w - 1
             /\ Taken(b) \in [tokens : Nat, last : Nat] /\ Taken(b).last = tick
  <2>1. PICK y : y = Taken(b) /\ y = [tokens |-> w - 1, last |-> tick]
    <3>1. Taken(b) = [x EXCEPT !.tokens = @ - 1]
      BY <1>3 DEF Taken
    <3>2. [x EXCEPT !.tokens = @ - 1] = [tokens |-> w - 1, last |-> tick]
      BY ONLY <1>3
    <3> QED
      BY ONLY <3>1, <3>2
  <2> QED
    BY <1>5, <2>1 DEF Tank, Worth, Accrued
<1> QED
  BY <1>2, <1>3, <1>4, <1>5

\* A request is done with its bucket: the bucket is left with y, its caller's
\* allowance with n.
LEMMA DoneKeepsLimit ==
  ASSUME LimitInv, NEW r \in DOMAIN held, NEW b, NEW c, b = held[r].bucket, c = held[r].caller,
         held' = Restrict(held, DOMAIN held \ {r}), UNCHANGED <<tick, mapped, lastGC, displaced>>,
         NEW y, Tank(y), Worth(y) =< Worth(bucket[b]), bucket' = Collected([bucket EXCEPT ![b] = y]),
         NEW n \in [tokens : Nat, last : Nat], Tank(n), allowance' = [allowance EXCEPT ![c] = n],
         Worth(bucket[b]) =< Worth(allowance[c]) => Worth(y) =< Worth(n),
         n = allowance[c] \/ n.last = tick,
         overdrawn' \subseteq displaced
  PROVE  LimitInv'
<1> USE LimitAssumption DEF LimitAssumption
<1>1. /\ b \in DOMAIN bucket /\ c \in Sources /\ tick \in Nat
      /\ held[r].since \in Nat /\ tick =< held[r].since + MaxHold
  BY DEF LimitInv, LimitTypes
<1>2. DOMAIN held' = DOMAIN held \ {r} /\ \A q \in DOMAIN held' : held'[q] = held[q]
  BY DEF Restrict
<1>3. /\ DOMAIN bucket' = DOMAIN bucket \cap Reachable'
      /\ \A e \in DOMAIN bucket' : bucket'[e] = IF e = b THEN y ELSE bucket[e]
  BY <1>1 DEF Collected, Restrict
<1>4. \A z : (Tank(z)' <=> Tank(z)) /\ Worth(z)' = Worth(z)
  BY DEF Tank, Worth, Accrued
<1>5. \A e \in DOMAIN bucket' : /\ Tank(bucket'[e]) /\ e \in DOMAIN bucket
                               /\ Worth(bucket'[e]) =< Worth(bucket[e])
  <2> TAKE e \in DOMAIN bucket'
  <2>1. PICK z : z = bucket[e] /\ Tank(z) /\ e \in DOMAIN bucket
    BY <1>3 DEF LimitInv, LimitTypes
  <2>2. Worth(z) \in 0..Burst
    BY <1>1, <2>1, AskBucket
  <2> QED
    <3>1. CASE e = b
      BY <1>3, <3>1, <2>1
    <3>2. CASE e # b
      <4>1. bucket'[e] = z
        BY <1>3, <2>1, <3>2
      <4>2. Worth(z) =< Worth(z)
        BY <2>2
      <4> QED
        BY <2>1, <4>1, <4>2
    <3> QED
      BY <3>1, <3>2
<1>6. /\ \A d \in DOMAIN mapped : mapped[d].bucket \in DOMAIN bucket'
      /\ \A q \in DOMAIN held' : held'[q].bucket \in DOMAIN bucket'
  BY <1>2, <1>3 DEF LimitInv, LimitTypes, Reachable
<1>7. /\ allowance' \in [Sources -> [tokens : Nat, last : Nat]] /\ allowance'[c] = n
      /\ \A d \in Sources : Tank(allowance'[d]) /\ (d # c => allowance'[d] = allowance[d])
  BY <1>1 DEF LimitInv, LimitTypes
<1>8. LimitTypes'
  <2>1. \A e \in DOMAIN bucket' : Tank(bucket[e])'
    <3> TAKE e \in DOMAIN bucket'
    <3>1. PICK z : z = bucket'[e] /\ Tank(z)
      BY <1>5
    <3> QED
      BY <3>1 DEF Tank
  <2>2. \A d \in Sources : Tank(allowance[d])'
    <3> TAKE d \in Sources
    <3>1. PICK z : z = allowance'[d] /\ Tank(z)
      BY <1>7
    <3> QED
      BY <3>1 DEF Tank
  <2> QED
    BY <1>2, <1>3, <1>6, <1>7, <2>1, <2>2 DEF LimitInv, LimitTypes
<1>9. ASSUME NEW d \in Sources \ displaced PROVE Limited(d)'
  <2>1. Limited(d)
    BY DEF LimitInv
  <2>2. \A q \in DOMAIN held' : held'[q].caller = d =>
           d \in DOMAIN mapped' /\ mapped'[d].bucket = held'[q].bucket /\ held'[q].since =< mapped'[d].seen
    BY <1>2, <2>1 DEF Limited
  <2>3. CASE d # c
    <3>1. ASSUME d \in DOMAIN mapped
          PROVE  Worth(bucket'[mapped[d].bucket]) =< Worth(allowance[d])
      <4>1. PICK p, q, z : /\ p = bucket'[mapped[d].bucket] /\ q = bucket[mapped[d].bucket] /\ z = allowance[d]
                           /\ Tank(p) /\ Tank(q) /\ Tank(z) /\ Worth(p) =< Worth(q) /\ Worth(q) =< Worth(z)
        BY <1>5, <1>6, <2>1, <3>1 DEF Limited, LimitInv, LimitTypes
      <4>2. Worth(p) \in 0..Burst /\ Worth(q) \in 0..Burst /\ Worth(z) \in 0..Burst
        BY <1>1, <4>1, AskBucket
      <4> QED
        BY <4>1, <4>2
    <3>2. /\ d \in DOMAIN mapped => Worth(bucket[mapped[d].bucket])' =< Worth(allowance[d])'
          /\ d \notin DOMAIN mapped => Worth(allowance[d])' = Burst
      BY <1>7, <2>1, <2>3, <3>1 DEF Limited, Worth, Accrued
    <3> QED
      BY <1>7, <2>1, <2>2, <2>3, <3>2 DEF Limited
  <2>4. CASE d = c
    <3>1. /\ d \in DOMAIN mapped /\ mapped[d].bucket = b /\ held[r].since =< mapped[d].seen
          /\ Worth(bucket[b]) =< Worth(allowance[c])
      BY <2>1, <2>4 DEF Limited
    <3>2. bucket'[mapped'[d].bucket] = y /\ allowance'[d] = n /\ Worth(y) =< Worth(n)
      BY <1>3, <1>6, <1>7, <2>4, <3>1
    <3>3. Worth(bucket[mapped[d].bucket])' =< Worth(allowance[d])'
      BY <1>4, <3>2 DEF Worth, Accrued
    <3>4. n.last =< mapped[d].seen + MaxHold
      <4>1. CASE n = allowance[c]
        BY <2>1, <2>4, <3>1, <4>1 DEF Limited
      <4>2. CASE n.last = tick
        <5>1. mapped[d].seen \in Nat
          BY <3>1 DEF LimitInv, LimitTypes
        <5> QED
          BY <1>1, <3>1, <4>2, <5>1
      <4> QED
        BY <4>1, <4>2
    <3> QED
      BY <2>2, <3>1, <3>2, <3>3, <3>4 DEF Limited
  <2> QED
    BY <2>3, <2>4
<1> QED
  BY <1>8, <1>9 DEF LimitInv

\* lim.Allow draws the bucket and the allowance of its caller together, and
\* who lost no bucket to the cap is let in only within its allowance.
LEMMA AllowKeepsLimit == ASSUME LimitInv, NEW r \in Servers, Allow(r) PROVE LimitInv'
<1>1. PICK b, c : c \in Sources /\ r \in DOMAIN held /\ b = held[r].bucket /\ c = held[r].caller /\ b \in DOMAIN bucket
          /\ Tank(bucket[b]) /\ Tank(allowance[c]) /\ tick \in Nat
          /\ allowance[c] \in [tokens : Nat, last : Nat]
  <2>1. r \in DOMAIN held
    BY DEF Allow
  <2>2. PICK b, c : b = held[r].bucket /\ c = held[r].caller /\ b \in DOMAIN bucket /\ c \in Sources
    BY <2>1 DEF LimitInv, LimitTypes
  <2>3. /\ Tank(bucket[b]) /\ Tank(allowance[c]) /\ tick \in Nat
        /\ allowance[c] \in [tokens : Nat, last : Nat]
    BY <2>2 DEF LimitInv, LimitTypes
  <2> QED
    BY <2>1, <2>2, <2>3
<1>2. PICK x, a : x = bucket[b] /\ a = allowance[c]
  OBVIOUS
<1>3. /\ held' = Restrict(held, DOMAIN held \ {r})
      /\ UNCHANGED <<tick, mapped, lastGC, displaced>>
      /\ \/ /\ Worth(x) >= 1
            /\ bucket' = Collected([bucket EXCEPT ![b] = Taken(x)])
            /\ allowance' = [allowance EXCEPT ![c] = IF Worth(a) < 1 THEN a ELSE Taken(a)]
            /\ overdrawn' = overdrawn \cup {d \in {c} : Worth(allowance[d]) < 1}
         \/ /\ bucket' = Collected([bucket EXCEPT ![b] = Accrued(x)])
            /\ UNCHANGED <<allowance, overdrawn>>
  BY <1>1, <1>2 DEF Allow, Worth
<1>4. Worth(x) \in 0..Burst /\ Worth(a) \in 0..Burst /\ Burst \in Nat
  BY <1>1, <1>2, AskBucket, LimitAssumption DEF LimitAssumption
<1>5. c \notin displaced => Worth(x) =< Worth(a)
  <2> SUFFICES ASSUME c \notin displaced PROVE Worth(x) =< Worth(a)
    OBVIOUS
  <2>1. Limited(c)
    BY <1>1 DEF LimitInv
  <2> QED
    BY <1>1, <1>2, <2>1 DEF Limited
<1>6. CASE /\ Worth(x) >= 1
           /\ bucket' = Collected([bucket EXCEPT ![b] = Taken(x)])
           /\ allowance' = [allowance EXCEPT ![c] = IF Worth(a) < 1 THEN a ELSE Taken(a)]
           /\ overdrawn' = overdrawn \cup {d \in {c} : Worth(allowance[d]) < 1}
  <2>1. PICK y : y = Taken(x) /\ Tank(y) /\ Worth(y) = Worth(x) - 1
    BY <1>1, <1>2, <1>6, AskBucket
  <2>2. PICK n \in [tokens : Nat, last : Nat] :
            /\ n = (IF Worth(a) < 1 THEN a ELSE Taken(a)) /\ Tank(n) /\ (n = a \/ n.last = tick)
            /\ Worth(a) >= 1 => Worth(n) = Worth(a) - 1
    <3>1. CASE Worth(a) < 1
      BY <1>1, <1>2, <1>4, <3>1
    <3>2. CASE Worth(a) >= 1
      BY <1>1, <1>2, <1>4, <3>2, AskBucket
    <3> QED
      BY <1>4, <3>1, <3>2
  <2>3. overdrawn' \subseteq displaced
    BY <1>2, <1>4, <1>5, <1>6 DEF LimitInv
  <2>4. Worth(x) =< Worth(a) => Worth(y) =< Worth(n)
    BY <1>4, <1>6, <2>1, <2>2
  <2>5. Worth(y) =< Worth(x)
    BY <1>4, <2>1
  <2> QED
    BY <1>1, <1>2, <1>3, <1>6, <2>1, <2>2, <2>3, <2>4, <2>5, DoneKeepsLimit
<1>7. CASE bucket' = Collected([bucket EXCEPT ![b] = Accrued(x)]) /\ UNCHANGED <<allowance, overdrawn>>
  <2>1. PICK y : y = Accrued(x) /\ Tank(y) /\ Worth(y) = Worth(x)
    BY <1>1, <1>2, AskBucket
  <2>2. Worth(y) =< Worth(x) /\ (Worth(x) =< Worth(a) => Worth(y) =< Worth(a))
    BY <1>4, <2>1
  <2>3. allowance' = [allowance EXCEPT ![c] = a]
    BY <1>2, <1>7 DEF LimitInv, LimitTypes
  <2>4. overdrawn' \subseteq displaced
    BY <1>7 DEF LimitInv
  <2> QED
    <3>1. a \in [tokens : Nat, last : Nat] /\ Tank(a) /\ (a = allowance[c] \/ a.last = tick)
      BY <1>1, <1>2
    <3>2. bucket' = Collected([bucket EXCEPT ![b] = y]) /\ Worth(y) =< Worth(bucket[b])
          /\ (Worth(bucket[b]) =< Worth(allowance[c]) => Worth(y) =< Worth(a))
      BY <1>2, <1>7, <2>1, <2>2
    <3> QED
      BY <1>1, <1>3, <2>1, <2>3, <2>4, <3>1, <3>2, DoneKeepsLimit
<1> QED
  BY <1>3, <1>6, <1>7

\* What KeyedLimiter.Allow does to the map: it keeps K of the callers, and c.
LEMMA KeyMaps ==
  ASSUME LimitTypes, NEW r \in Servers, NEW c \in Sources, AllowKey(r, c)
  PROVE  \E K, mine :
    /\ K \subseteq DOMAIN mapped /\ DOMAIN mapped' = K \cup {c}
    /\ mapped'[c] = [bucket |-> mine, seen |-> tick]
    /\ \A d \in K \ {c} : mapped'[d] = mapped[d]
    /\ \A d \in DOMAIN mapped \ (K \cup {c}) : d \in displaced' \/ tick - mapped[d].seen > IdleTTL
    /\ displaced \subseteq displaced'
    /\ IsFiniteSet(K \cup {c}) /\ Cardinality(K \cup {c}) =< MaxKeys
    /\ c \in DOMAIN mapped => mine = mapped[c].bucket
    /\ c \notin DOMAIN mapped => mine \notin DOMAIN bucket
    /\ DOMAIN held' = DOMAIN held \cup {r} /\ r \notin DOMAIN held
    /\ held'[r] = [caller |-> c, bucket |-> mine, since |-> tick]
    /\ \A q \in DOMAIN held : held'[q] = held[q]
    /\ DOMAIN bucket' = (DOMAIN bucket \cup {mine}) \cap Reachable'
    /\ \A e \in DOMAIN bucket' :
         bucket'[e] = IF e = mine /\ c \notin DOMAIN mapped THEN Full ELSE bucket[e]
    /\ lastGC' \in Nat
<1> USE LimitAssumption DEF LimitAssumption
<1> DEFINE new == c \notin DOMAIN mapped
           full == new /\ Cardinality(DOMAIN mapped) >= MaxKeys
           left == DOMAIN mapped \ (IF full THEN Unseen(mapped) ELSE {})
           outs == IF new /\ Cardinality(left) >= MaxKeys THEN {{o} : o \in LeastSeen(left)} ELSE {{}}
           gc == IF full THEN tick ELSE lastGC
           mine == IF new THEN CHOOSE b \in Buckets : b \notin DOMAIN bucket ELSE mapped[c].bucket
           Marked(evicted) == [d \in (left \ evicted) \cup {c} |-> IF d = c THEN Mark(c, mine) ELSE mapped[d]]
<1>1. PICK evicted \in outs :
        /\ mapped' = IF tick - gc < IdleTTL THEN Marked(evicted)
                     ELSE Restrict(Marked(evicted), DOMAIN Marked(evicted) \ Unseen(Marked(evicted)))
        /\ displaced' = displaced \cup evicted
        /\ held' = [q \in DOMAIN held \cup {r} |->
                      IF q = r THEN [caller |-> c, bucket |-> mine, since |-> tick] ELSE held[q]]
        /\ bucket' = Collected([b \in DOMAIN bucket \cup {mine} |->
                                  IF b = mine /\ new THEN Full ELSE bucket[b]])
        /\ lastGC' = (IF tick - gc < IdleTTL THEN gc ELSE tick)
        /\ r \notin DOMAIN held
  BY DEF AllowKey
<1>2. tick \in Nat /\ lastGC \in Nat /\ lastGC' \in Nat
  <2>1. tick \in Nat /\ lastGC \in Nat
    BY DEF LimitTypes
  <2>2. gc \in {tick, lastGC} /\ lastGC' \in {gc, tick}
    BY <1>1
  <2> QED
    BY <2>1, <2>2
<1>3. PICK marked : /\ marked = [d \in (left \ evicted) \cup {c} |-> IF d = c THEN Mark(c, mine) ELSE mapped[d]]
                    /\ mapped' = IF tick - gc < IdleTTL THEN marked
                                 ELSE Restrict(marked, DOMAIN marked \ Unseen(marked))
  BY <1>1
<1>4. /\ DOMAIN marked = (left \ evicted) \cup {c}
      /\ marked[c] = [bucket |-> mine, seen |-> tick]
      /\ \A d \in (left \ evicted) \ {c} : marked[d] = mapped[d]
  BY <1>3 DEF Mark
<1>5. left \subseteq DOMAIN mapped /\ \A d \in DOMAIN mapped \ left : tick - mapped[d].seen > IdleTTL
  BY <1>1 DEF Unseen
<1>6. c \notin Unseen(marked)
  BY <1>2, <1>4 DEF Unseen
<1>7. PICK gone : /\ gone \subseteq (left \ evicted) \ {c} /\ \A d \in gone : tick - mapped[d].seen > IdleTTL
                  /\ DOMAIN mapped' = DOMAIN marked \ gone
                  /\ \A d \in DOMAIN mapped' : mapped'[d] = marked[d]
  <2>1. CASE tick - gc < IdleTTL
    <3>1. PICK gone : gone = {}
      OBVIOUS
    <3>2. mapped' = marked
      BY <1>3, <2>1
    <3>3. gone \subseteq (left \ evicted) \ {c} /\ DOMAIN mapped' = DOMAIN marked \ gone
      BY <3>1, <3>2
    <3>4. (\A d \in gone : tick - mapped[d].seen > IdleTTL) /\ (\A d \in DOMAIN mapped' : mapped'[d] = marked[d])
      BY <3>1, <3>2
    <3> QED
      BY <3>3, <3>4
  <2>2. CASE ~ (tick - gc < IdleTTL)
    <3>1. PICK gone : gone = Unseen(marked)
      OBVIOUS
    <3>2. mapped' = Restrict(marked, DOMAIN marked \ gone)
      BY <1>3, <2>2, <3>1
    <3>3. \A d \in gone : d \in DOMAIN marked /\ tick - marked[d].seen > IdleTTL /\ d # c
      BY <1>6, <3>1 DEF Unseen
    <3>4. \A d \in gone : d \in (left \ evicted) \ {c} /\ tick - mapped[d].seen > IdleTTL
      BY <1>4, <3>3
    <3>5. DOMAIN mapped' = DOMAIN marked \ gone /\ \A d \in DOMAIN mapped' : mapped'[d] = marked[d]
      BY <3>2 DEF Restrict
    <3> QED
      BY <3>4, <3>5
  <2> QED
    BY <2>1, <2>2
<1>8. PICK K : K = (left \ evicted) \ gone
  OBVIOUS
<1>9. K \subseteq DOMAIN mapped /\ DOMAIN mapped' = K \cup {c}
  BY <1>4, <1>5, <1>7, <1>8
<1>10. mapped'[c] = [bucket |-> mine, seen |-> tick] /\ \A d \in K \ {c} : mapped'[d] = mapped[d]
  BY <1>4, <1>7, <1>8, <1>9
<1>11. \A d \in DOMAIN mapped \ (K \cup {c}) : d \in displaced' \/ tick - mapped[d].seen > IdleTTL
  BY <1>1, <1>5, <1>7, <1>8
<1>12. IsFiniteSet(K \cup {c}) /\ Cardinality(K \cup {c}) =< MaxKeys
  <2>1. IsFiniteSet(DOMAIN mapped) /\ Cardinality(DOMAIN mapped) =< MaxKeys /\ Cardinality(DOMAIN mapped) \in Nat
    BY FS_CardinalityType DEF LimitTypes
  <2>2. CASE c \in DOMAIN mapped
    <3>1. K \cup {c} \in SUBSET DOMAIN mapped
      BY <1>9, <2>2
    <3>2. IsFiniteSet(K \cup {c}) /\ Cardinality(K \cup {c}) =< Cardinality(DOMAIN mapped)
      BY <2>1, <3>1, FS_Subset
    <3>3. Cardinality(K \cup {c}) \in Nat
      BY <3>2, FS_CardinalityType
    <3> QED
      BY <2>1, <3>2, <3>3
  <2>3. CASE c \notin DOMAIN mapped
    <3>1. PICK S : S = left \ evicted
      OBVIOUS
    <3>2. IsFiniteSet(left) /\ Cardinality(left) =< Cardinality(DOMAIN mapped) /\ Cardinality(left) \in Nat
      <4>1. left \in SUBSET DOMAIN mapped
        BY <1>5
      <4> QED
        BY <2>1, <4>1, FS_Subset, FS_CardinalityType
    <3>3. IsFiniteSet(S) /\ Cardinality(S) \in Nat /\ Cardinality(S) + 1 =< MaxKeys
      <4>1. CASE Cardinality(left) >= MaxKeys
        <5>1. PICK o \in left : evicted = {o}
          BY <1>1, <2>3, <4>1 DEF LeastSeen
        <5>2. S = left \ {o}
          BY <3>1, <5>1
        <5>3. IsFiniteSet(S) /\ Cardinality(S) = Cardinality(left) - 1
          BY <3>2, <5>2, FS_RemoveElement
        <5>4. Cardinality(S) \in Nat
          BY <5>3, FS_CardinalityType
        <5> QED
          BY <2>1, <3>2, <5>3, <5>4
      <4>2. CASE ~ (Cardinality(left) >= MaxKeys)
        <5>1. S = left
          BY <1>1, <3>1, <4>2
        <5> QED
          BY <3>2, <4>2, <5>1
      <4> QED
        BY <4>1, <4>2
    <3>4. K \in SUBSET S
      BY <1>8, <3>1
    <3>5. IsFiniteSet(K) /\ Cardinality(K) =< Cardinality(S)
      BY <3>3, <3>4, FS_Subset
    <3>6. IsFiniteSet(K \cup {c}) /\ Cardinality(K) \in Nat
          /\ Cardinality(K \cup {c}) \in {Cardinality(K), Cardinality(K) + 1}
      BY <3>5, FS_AddElement, FS_CardinalityType
    <3> QED
      BY <3>3, <3>5, <3>6
  <2> QED
    BY <2>2, <2>3
<1>13. /\ c \in DOMAIN mapped => mine = mapped[c].bucket
       /\ c \notin DOMAIN mapped => mine \notin DOMAIN bucket
  BY <1>1, FreshBucket
<1>14. /\ DOMAIN held' = DOMAIN held \cup {r} /\ r \notin DOMAIN held
       /\ held'[r] = [caller |-> c, bucket |-> mine, since |-> tick]
       /\ \A q \in DOMAIN held : held'[q] = held[q]
  BY <1>1
<1>15. PICK filled : /\ filled = [b \in DOMAIN bucket \cup {mine} |-> IF b = mine /\ new THEN Full ELSE bucket[b]]
                     /\ bucket' = Collected(filled)
  BY <1>1
<1>16. /\ DOMAIN bucket' = (DOMAIN bucket \cup {mine}) \cap Reachable'
       /\ \A e \in DOMAIN bucket' : bucket'[e] = IF e = mine /\ c \notin DOMAIN mapped THEN Full ELSE bucket[e]
  <2>1. DOMAIN filled = DOMAIN bucket \cup {mine}
    BY <1>15
  <2>2. DOMAIN bucket' = DOMAIN filled \cap Reachable' /\ \A e \in DOMAIN bucket' : bucket'[e] = filled[e]
    BY <1>15 DEF Collected, Restrict
  <2> QED
    BY <1>1, <1>15, <2>1, <2>2
<1>17. displaced \subseteq displaced'
  BY <1>1
<1> HIDE DEF mine
<1> QED
  BY ONLY <1>2, <1>9, <1>10, <1>11, <1>12, <1>13, <1>14, <1>16, <1>17

\* A caller gets a bucket worth no more than its allowance: its own, or a full
\* one when its allowance is full; who goes by idleness has a full allowance
\* and no request under way.
LEMMA KeyKeepsLimit ==
  ASSUME LimitInv, NEW r \in Servers, NEW c \in Sources, AllowKey(r, c) PROVE LimitInv'
<1> USE LimitAssumption DEF LimitAssumption
<1>1. LimitTypes /\ UNCHANGED <<tick, allowance, overdrawn>> /\ tick \in Nat
  BY DEF LimitInv, LimitTypes, AllowKey
<1>2. PICK K, mine :
    /\ K \subseteq DOMAIN mapped /\ DOMAIN mapped' = K \cup {c}
    /\ mapped'[c] = [bucket |-> mine, seen |-> tick]
    /\ \A d \in K \ {c} : mapped'[d] = mapped[d]
    /\ \A d \in DOMAIN mapped \ (K \cup {c}) : d \in displaced' \/ tick - mapped[d].seen > IdleTTL
    /\ displaced \subseteq displaced'
    /\ IsFiniteSet(K \cup {c}) /\ Cardinality(K \cup {c}) =< MaxKeys
    /\ c \in DOMAIN mapped => mine = mapped[c].bucket
    /\ c \notin DOMAIN mapped => mine \notin DOMAIN bucket
    /\ DOMAIN held' = DOMAIN held \cup {r} /\ r \notin DOMAIN held
    /\ held'[r] = [caller |-> c, bucket |-> mine, since |-> tick]
    /\ \A q \in DOMAIN held : held'[q] = held[q]
    /\ DOMAIN bucket' = (DOMAIN bucket \cup {mine}) \cap Reachable'
    /\ \A e \in DOMAIN bucket' :
         bucket'[e] = IF e = mine /\ c \notin DOMAIN mapped THEN Full ELSE bucket[e]
    /\ lastGC' \in Nat
  BY <1>1, KeyMaps
<1>3. \A z : (Tank(z)' <=> Tank(z)) /\ Worth(z)' = Worth(z)
  BY <1>1 DEF Tank, Worth, Accrued
<1>4. Tank(Full) /\ Worth(Full) = Burst
  <2>1. PICK f : f = Full /\ f = [tokens |-> Burst, last |-> tick]
    BY DEF Full
  <2> QED
    BY <1>1, <2>1 DEF Tank, Worth, Accrued
<1>5. Reachable' = {mapped'[d].bucket : d \in K \cup {c}} \cup {held'[q].bucket : q \in DOMAIN held \cup {r}}
  BY <1>2 DEF Reachable
<1>6. /\ \A d \in K \cup {c} : mapped'[d].bucket \in DOMAIN bucket'
      /\ \A q \in DOMAIN held \cup {r} : held'[q].bucket \in DOMAIN bucket'
  <2>1. ASSUME NEW d \in K \cup {c} PROVE mapped'[d].bucket \in DOMAIN bucket'
    <3>1. mapped'[d].bucket \in DOMAIN bucket \cup {mine}
      <4>1. CASE d = c
        BY <1>2, <4>1
      <4>2. CASE d # c
        BY <1>1, <1>2, <4>2 DEF LimitTypes
      <4> QED
        BY <4>1, <4>2
    <3> QED
      BY <1>2, <1>5, <3>1
  <2>2. ASSUME NEW q \in DOMAIN held \cup {r} PROVE held'[q].bucket \in DOMAIN bucket'
    <3>1. held'[q].bucket \in DOMAIN bucket \cup {mine}
      <4>1. CASE q = r
        BY <1>2, <4>1
      <4>2. CASE q # r
        BY <1>1, <1>2, <4>2 DEF LimitTypes
      <4> QED
        BY <4>1, <4>2
    <3> QED
      BY <1>2, <1>5, <3>1
  <2> QED
    BY <2>1, <2>2
<1>7. \A e \in DOMAIN bucket' : Tank(bucket'[e])
  <2> TAKE e \in DOMAIN bucket'
  <2>1. CASE e = mine /\ c \notin DOMAIN mapped
    BY <1>2, <1>4, <2>1
  <2>2. CASE ~ (e = mine /\ c \notin DOMAIN mapped)
    <3>1. bucket'[e] = bucket[e]
      BY <1>2, <2>2
    <3>2. e \in DOMAIN bucket
      BY <1>1, <1>2, <2>2 DEF LimitTypes
    <3> QED
      BY <1>1, <3>1, <3>2 DEF LimitTypes
  <2> QED
    BY <2>1, <2>2
<1>8. LimitTypes'
  <2>1. \A e \in DOMAIN bucket' : Tank(bucket[e])'
    <3> TAKE e \in DOMAIN bucket'
    <3>1. PICK z : z = bucket'[e] /\ Tank(z)
      BY <1>7
    <3> QED
      BY <1>1, <3>1 DEF Tank
  <2>2. \A d \in Sources : Tank(allowance[d])'
    BY <1>1 DEF LimitTypes, Tank
  <2>3. \A d \in DOMAIN mapped' : /\ mapped'[d].bucket \in DOMAIN bucket'
                                  /\ mapped'[d].seen \in Nat /\ mapped'[d].seen =< tick
    <3> TAKE d \in DOMAIN mapped'
    <3>1. CASE d = c
      BY <1>1, <1>2, <1>6, <3>1
    <3>2. CASE d # c
      <4>1. d \in K /\ d \in DOMAIN mapped /\ mapped'[d] = mapped[d]
        BY <1>2, <3>2
      <4> QED
        BY <1>1, <1>2, <1>6, <4>1 DEF LimitTypes
    <3> QED
      BY <3>1, <3>2
  <2>4. \A q \in DOMAIN held' : /\ held'[q].bucket \in DOMAIN bucket' /\ held'[q].caller \in Sources
                                /\ held'[q].since \in Nat /\ held'[q].since =< tick
                                /\ tick =< held'[q].since + MaxHold
    <3> TAKE q \in DOMAIN held'
    <3>1. CASE q = r
      BY <1>1, <1>2, <1>6, <3>1
    <3>2. CASE q # r
      <4>1. q \in DOMAIN held /\ held'[q] = held[q]
        BY <1>2, <3>2
      <4> QED
        BY <1>1, <1>2, <1>6, <4>1 DEF LimitTypes
    <3> QED
      BY <3>1, <3>2
  <2>5. /\ DOMAIN mapped' \subseteq Sources /\ IsFiniteSet(DOMAIN mapped') /\ Cardinality(DOMAIN mapped') =< MaxKeys
        /\ DOMAIN held' \subseteq Servers /\ DOMAIN bucket' \subseteq Reachable'
    BY <1>1, <1>2 DEF LimitTypes
  <2> QED
    BY <1>1, <1>2, <2>1, <2>2, <2>3, <2>4, <2>5 DEF LimitTypes
<1>9. ASSUME NEW d \in Sources \ displaced' PROVE Limited(d)'
  <2>1. Limited(d) /\ d \notin displaced
    BY <1>2 DEF LimitInv
  <2>2. PICK a : a = allowance[d] /\ a = allowance'[d] /\ Tank(a) /\ Worth(a) \in 0..Burst
    BY <1>1, AskBucket DEF LimitTypes
  <2>3. CASE d = c
    <3>1. ASSUME NEW q \in DOMAIN held', held'[q].caller = d
          PROVE  mapped'[d].bucket = held'[q].bucket /\ held'[q].since =< mapped'[d].seen
      <4>1. CASE q = r
        BY <1>1, <1>2, <2>3, <4>1
      <4>2. CASE q # r
        <5>1. /\ q \in DOMAIN held /\ held'[q] = held[q] /\ held[q].since =< tick
              /\ d \in DOMAIN mapped /\ mapped[d].bucket = held[q].bucket
          BY <1>1, <1>2, <2>1, <3>1, <4>2 DEF Limited, LimitTypes
        <5> QED
          BY <1>2, <2>3, <5>1
      <4> QED
        BY <4>1, <4>2
    <3>2. PICK b : b = bucket'[mine] /\ Worth(b) =< Worth(a)
      <4>1. mine \in DOMAIN bucket'
        BY <1>2, <1>6, <2>3
      <4>2. CASE d \in DOMAIN mapped
        BY <1>2, <2>1, <2>2, <2>3, <4>1, <4>2 DEF Limited
      <4>3. CASE d \notin DOMAIN mapped
        BY <1>2, <1>4, <2>1, <2>2, <2>3, <4>1, <4>3 DEF Limited
      <4> QED
        BY <4>2, <4>3
    <3>3. d \in DOMAIN mapped' /\ mapped'[d].bucket = mine /\ mapped'[d].seen = tick
      BY <1>2, <2>3
    <3>4. a.last =< tick + MaxHold
      BY <1>1, <2>2 DEF Tank
    <3>5. Worth(bucket[mapped[d].bucket])' =< Worth(allowance[d])'
      BY <1>1, <2>2, <3>2, <3>3 DEF Worth, Accrued
    <3> QED
      BY <2>2, <3>1, <3>3, <3>4, <3>5 DEF Limited
  <2>4. CASE d # c
    <3>1. \A q \in DOMAIN held' : held'[q].caller = d => q \in DOMAIN held /\ held'[q] = held[q]
      BY <1>2, <2>4
    <3>2. CASE d \in K
      <4>1. d \in DOMAIN mapped /\ d \in DOMAIN mapped' /\ mapped'[d] = mapped[d]
        BY <1>2, <2>4, <3>2
      <4>2. PICK b : b = bucket'[mapped'[d].bucket] /\ Worth(b) =< Worth(a)
        <5>1. mapped[d].bucket \in DOMAIN bucket' /\ mapped[d].bucket \in DOMAIN bucket
          BY <1>1, <1>2, <1>6, <3>2, <4>1 DEF LimitTypes
        <5>2. bucket'[mapped[d].bucket] = bucket[mapped[d].bucket]
          BY <1>2, <5>1
        <5> QED
          BY <2>1, <2>2, <4>1, <5>2 DEF Limited
      <4>3. Worth(bucket[mapped[d].bucket])' =< Worth(allowance[d])'
        BY <1>1, <2>2, <4>2 DEF Worth, Accrued
      <4> QED
        BY <1>1, <2>1, <3>1, <4>1, <4>3 DEF Limited
    <3>3. CASE d \notin K
      <4>1. d \notin DOMAIN mapped'
        BY <1>2, <2>4, <3>3
      <4>2. Worth(a) = Burst
        <5>1. CASE d \notin DOMAIN mapped
          BY <2>1, <2>2, <5>1 DEF Limited
        <5>2. CASE d \in DOMAIN mapped
          <6>1. PICK s \in Nat : s = mapped[d].seen /\ tick - s > IdleTTL /\ a.last =< s + MaxHold
            BY <1>1, <1>2, <2>1, <2>2, <2>4, <3>3, <5>2 DEF Limited, LimitTypes
          <6>2. a.tokens \in Nat /\ a.last \in Nat /\ a.tokens + (tick - a.last) >= Burst
            BY <1>1, <2>2, <6>1 DEF Tank
          <6> QED
            BY <1>1, <6>2 DEF Worth, Accrued
        <5> QED
          BY <5>1, <5>2
      <4>3. \A q \in DOMAIN held : held[q].caller # d
        <5> SUFFICES ASSUME NEW q \in DOMAIN held, held[q].caller = d PROVE FALSE
          OBVIOUS
        <5>1. d \in DOMAIN mapped /\ held[q].since =< mapped[d].seen
          BY <2>1 DEF Limited
        <5>2. /\ tick - mapped[d].seen > IdleTTL /\ mapped[d].seen \in Nat
              /\ held[q].since \in Nat /\ tick =< held[q].since + MaxHold
          BY <1>1, <1>2, <2>4, <3>3, <5>1 DEF LimitTypes
        <5> QED
          BY <1>1, <5>1, <5>2
      <4>4. Worth(allowance[d])' = Burst
        BY <1>1, <2>2, <4>2 DEF Worth, Accrued
      <4> QED
        BY <3>1, <4>1, <4>3, <4>4 DEF Limited
    <3> QED
      BY <3>2, <3>3
  <2> QED
    BY <2>3, <2>4
<1> QED
  BY <1>1, <1>2, <1>8, <1>9 DEF LimitInv

\* The limiter starts empty, with full allowances.
LEMMA LimitStarts == LimitInit => LimitInv
<1> SUFFICES ASSUME LimitInit PROVE LimitInv
  OBVIOUS
<1> USE LimitAssumption DEF LimitAssumption
<1>1. tick = 0 /\ lastGC = 0 /\ DOMAIN mapped = {} /\ DOMAIN held = {} /\ DOMAIN bucket = {} /\ overdrawn = {}
  BY DEF LimitInit
<1>2. allowance = [c \in Sources |-> [tokens |-> Burst, last |-> 0]]
  BY DEF LimitInit
<1>3. /\ allowance \in [Sources -> [tokens : Nat, last : Nat]]
      /\ \A c \in Sources : allowance[c] = [tokens |-> Burst, last |-> 0]
  BY <1>2
<1>4. \A c \in Sources : Tank(allowance[c]) /\ Worth(allowance[c]) = Burst
  <2> TAKE c \in Sources
  <2>1. PICK a : a = allowance[c] /\ a.tokens = Burst /\ a.last = 0
    BY <1>3
  <2> QED
    BY <1>1, <2>1 DEF Tank, Worth, Accrued
<1>5. IsFiniteSet({}) /\ Cardinality({}) = 0
  BY FS_EmptySet
<1>6. LimitTypes
  BY <1>1, <1>3, <1>4, <1>5 DEF LimitTypes
<1> QED
  BY <1>1, <1>4, <1>6 DEF LimitInv, Limited

\* ratelimit.go AllowN, Allow, gcLocked, sweepLocked: for any number of callers
\* and goroutines, any cap on the map, and any burst that refills within the
\* idle time less the time a request may stand between the locks, a caller that
\* lost no bucket to the cap is let in with no more than the burst plus the
\* refill since.
THEOREM LimitKept == LimitSpec => []LimitHolds
<1>1. LimitInv /\ [LimitNext]_limitVars => LimitInv'
  <2> SUFFICES ASSUME LimitInv, [LimitNext]_limitVars PROVE LimitInv'
    OBVIOUS
  <2>1. CASE UNCHANGED limitVars
    BY <2>1 DEF limitVars, LimitInv, LimitTypes, Limited, Worth, Accrued, Tank, Reachable
  <2> QED
    BY <2>1, KeyKeepsLimit, AllowKeepsLimit, TickKeepsLimit DEF LimitNext
<1>2. LimitInv => LimitHolds
  BY DEF LimitInv, LimitHolds
<1> QED
  BY <1>1, <1>2, LimitStarts, PTL DEF LimitSpec

-----------------------------------------------------------------------------
(* The diff-depth stream's ids. *)

Books == [Levels -> 0..MaxSize]
Diffs == UNION {[S -> 0..MaxSize] : S \in SUBSET Levels}
DiffEvents == [id : Nat, levels : Diffs]

DepthTypes ==
    /\ levels \in Books /\ snap \in Books \cup {NoBook}
    /\ lastID \in Nat
    /\ subs \in [Streams -> SUBSET Viewers] /\ name \in Streams
    /\ event \in DiffEvents \cup {<<>>}
    /\ out \in [Viewers -> Seq(DiffEvents)]
    /\ last \in [Viewers -> Nat]
    /\ closed = [c \in Viewers |-> closed[c]]

\* The ids on their way to a connection are the last ones, in a row, and the
\* one before them is the last it got.
Serial(c) ==
    /\ \A i \in 1..Len(Coming(c)) : Coming(c)[i].id = lastID - Len(Coming(c)) + i
    /\ last[c] # 0 => last[c] = lastID - Len(Coming(c))

\* The ticker works on a snapshot or has an event to fan out, not both; what
\* it fans out is the last id; and while the stream goes by one name, all who
\* are subscribed have that name, which is the one the ticker is at.
DiffInv ==
    /\ DepthTypes
    /\ snap = NoBook \/ event = <<>>
    /\ event # <<>> => event.id = lastID
    /\ \A c \in Viewers \ Subscribers : out[c] = <<>> /\ last[c] = 0
    /\ ~ split => \A s, z \in Streams : s # z =>
         /\ subs[s] = {} \/ subs[z] = {}
         /\ TickBusy(s) => subs[z] = {}
    /\ \A c \in Served : Serial(c)

\* An event is something.
LEMMA EventIsOne == \A e \in DiffEvents : e # <<>>
<1> SUFFICES ASSUME <<>> \in DiffEvents PROVE FALSE
  OBVIOUS
<1>1. DOMAIN <<>> = {}
  BY EmptySeq, LenProperties
<1>2. \A e \in DiffEvents : "id" \in DOMAIN e
  BY DEF DiffEvents
<1> QED
  BY <1>1, <1>2

\* What comes to a connection: its queue, and the event if it is to have it.
LEMMA ComingSeq ==
  ASSUME DepthTypes, NEW c \in Viewers
  PROVE  /\ Coming(c) \in Seq(DiffEvents) /\ Len(Coming(c)) \in Nat
         /\ event = <<>> \/ c \notin subs[name] => Coming(c) = out[c]
         /\ event # <<>> /\ c \in subs[name] => Coming(c) = Append(out[c], event)
<1>1. out[c] \in Seq(DiffEvents)
  BY DEF DepthTypes
<1>2. CASE event = <<>> \/ c \notin subs[name]
  <2>1. Coming(c) = out[c] \o <<>>
    BY <1>2 DEF Coming
  <2>2. Coming(c) = out[c]
    BY <1>1, <2>1, ConcatEmptySeq
  <2> QED
    BY <1>1, <1>2, <2>2, LenProperties
<1>3. CASE event # <<>> /\ c \in subs[name]
  <2>1. event \in DiffEvents
    BY <1>3 DEF DepthTypes
  <2>2. Coming(c) = out[c] \o <<event>>
    BY <1>3 DEF Coming
  <2>3. Coming(c) = Append(out[c], event) /\ Append(out[c], event) \in Seq(DiffEvents)
    BY <1>1, <2>1, <2>2, AppendIsConcat, AppendProperties
  <2> QED
    BY <1>3, <2>3, LenProperties
<1> QED
  BY <1>2, <1>3

\* A numbered row goes on with the next number.
LEMMA RowOn ==
  ASSUME NEW q \in Seq(DiffEvents), NEW e \in DiffEvents, NEW n \in Nat, e.id = n + 1,
         \A i \in 1..Len(q) : q[i].id = n - Len(q) + i
  PROVE  \E r : /\ r = Append(q, e) /\ Len(r) = Len(q) + 1
               /\ \A i \in 1..Len(r) : r[i].id = (n + 1) - Len(r) + i
<1>1. PICK r \in Seq(DiffEvents) : r = Append(q, e)
  BY AppendProperties
<1>2. Len(q) \in Nat /\ Len(r) = Len(q) + 1 /\ r[Len(q) + 1] = e /\ \A i \in 1..Len(q) : r[i] = q[i]
  BY <1>1, AppendProperties, LenProperties
<1>3. ASSUME NEW i \in 1..Len(r) PROVE r[i].id = (n + 1) - Len(r) + i
  <2>1. CASE i = Len(q) + 1
    BY <1>2, <2>1
  <2>2. CASE i \in 1..Len(q)
    BY <1>2, <2>2
  <2> QED
    BY <1>2, <2>1, <2>2
<1> QED
  BY <1>1, <1>2, <1>3

\* A row without its first is a row.
LEMMA RowTail ==
  ASSUME NEW q \in Seq(DiffEvents), q # <<>>, NEW n \in Nat,
         \A i \in 1..Len(q) : q[i].id = n - Len(q) + i
  PROVE  \E r : /\ r = Tail(q) /\ Len(r) = Len(q) - 1 /\ Head(q).id = n - Len(r)
               /\ \A i \in 1..Len(r) : r[i].id = n - Len(r) + i
<1>1. PICK r \in Seq(DiffEvents) : r = Tail(q)
  BY HeadTailProperties
<1>2. Len(q) \in Nat \ {0} /\ Len(r) = Len(q) - 1 /\ Head(q) = q[1] /\ \A i \in 1..Len(r) : r[i] = q[i + 1]
  BY <1>1, HeadTailProperties, EmptySeq
<1>3. Head(q).id = n - Len(r)
  BY <1>2
<1>4. ASSUME NEW i \in 1..Len(r) PROVE r[i].id = n - Len(r) + i
  <2>1. i + 1 \in 1..Len(q) /\ r[i] = q[i + 1]
    BY <1>2
  <2>2. q[i + 1].id = n - Len(q) + (i + 1)
    BY <2>1
  <2> QED
    BY <1>2, <2>1, <2>2
<1> QED
  BY <1>1, <1>2, <1>3, <1>4

\* The same comes to a connection if neither its queue nor the event changes.
LEMMA ComingStays ==
  ASSUME NEW c \in Viewers, event' = event, out'[c] = out[c],
         event # <<>> => (c \in subs[name] <=> c \in subs'[name'])
  PROVE  Coming(c)' = Coming(c)
<1>1. event = <<>> => Coming(c) = out[c] \o <<>> /\ Coming(c)' = out[c] \o <<>>
  BY DEF Coming
<1> QED
  BY <1>1 DEF Coming

\* A connection of which nothing changes stays in a row.
LEMMA SerialStays ==
  ASSUME DepthTypes, DepthTypes', NEW c \in Viewers, Serial(c),
         UNCHANGED <<lastID, event>>, out'[c] = out[c], last'[c] = last[c],
         event # <<>> => (c \in subs[name] <=> c \in subs'[name'])
  PROVE  Serial(c)'
<1>1. Coming(c)' = Coming(c)
  BY ComingStays
<1> QED
  BY <1>1 DEF Serial

\* What comes after the write pump has taken the first.
LEMMA ComingTail ==
  ASSUME DepthTypes, DepthTypes', NEW c \in Viewers, out[c] # <<>>, out'[c] = Tail(out[c]),
         UNCHANGED <<event, subs, name>>
  PROVE  \E p \in Seq(DiffEvents) :
            p = Coming(c) /\ p # <<>> /\ Head(p) = Head(out[c]) /\ Coming(c)' = Tail(p)
<1>1. PICK q \in Seq(DiffEvents) : q = out[c] /\ q # <<>> /\ Tail(q) \in Seq(DiffEvents)
  BY HeadTailProperties DEF DepthTypes
<1>2. CASE event = <<>> \/ c \notin subs[name]
  <2>1. Coming(c) = q
    BY <1>1, <1>2, ComingSeq
  <2>2. Coming(c)' = Tail(q) \o <<>>
    BY <1>1, <1>2 DEF Coming
  <2>3. Coming(c)' = Tail(q)
    BY <1>1, <2>2, ConcatEmptySeq
  <2> QED
    BY <1>1, <2>1, <2>3
<1>3. CASE event # <<>> /\ c \in subs[name]
  <2>1. PICK e \in DiffEvents : e = event
    BY <1>3 DEF DepthTypes
  <2>2. Coming(c) = Append(q, e) /\ Append(q, e) \in Seq(DiffEvents) /\ Append(q, e) # <<>>
    BY <1>1, <1>3, <2>1, ComingSeq, AppendProperties
  <2>3. Coming(c)' = Tail(q) \o <<e>>
    BY <1>1, <1>3, <2>1 DEF Coming
  <2>4. Tail(q) \o <<e>> = Append(Tail(q), e)
    BY <1>1, AppendIsConcat
  <2>5. Head(Append(q, e)) = Head(q) /\ Tail(Append(q, e)) = Append(Tail(q), e)
    BY <1>1, HeadTailAppend
  <2> QED
    BY <1>1, <2>2, <2>3, <2>4, <2>5
<1> QED
  BY <1>2, <1>3

\* Steps that move no event, id or name, but may close connections.
LEMMA DiffRests ==
  ASSUME DiffInv, UNCHANGED <<snap, lastID, subs, name, event, out, last, split>>, levels' \in Books,
         closed' = [c \in Viewers |-> closed'[c]], \A c \in Viewers : closed[c] => closed'[c]
  PROVE  DiffInv'
<1>1. DepthTypes /\ DepthTypes'
  BY DEF DiffInv, DepthTypes
<1>2. Subscribers' = Subscribers /\ \A s : TickBusy(s)' <=> TickBusy(s)
  BY DEF Subscribers, TickBusy
<1>3. \A c \in Served' : c \in Served /\ c \in Viewers
  BY <1>1, <1>2 DEF Served, Subscribers, DepthTypes
<1>4. \A c \in Served' : Serial(c)'
  BY <1>1, <1>3, SerialStays DEF DiffInv
<1> QED
  BY <1>1, <1>2, <1>4 DEF DiffInv

\* The ticker goes to a name and reads the book.
LEMMA VisitKeeps == ASSUME DiffInv, NEW s \in Streams, VisitStream(s) PROVE DiffInv'
<1>1. /\ event = <<>> /\ event' = <<>> /\ snap' = levels /\ name' = s /\ subs[s] # {}
      /\ UNCHANGED <<levels, lastID, subs, out, last, split, closed>>
  BY DEF VisitStream, TakeSnapshot
<1>2. DepthTypes /\ DepthTypes'
  BY <1>1 DEF DiffInv, DepthTypes
<1>3. Subscribers' = Subscribers /\ Served' = Served /\ Served \subseteq Viewers
  BY <1>1, <1>2 DEF Subscribers, Served, DepthTypes
<1>4. \A c \in Served' : Serial(c)'
  BY <1>1, <1>2, <1>3, SerialStays DEF DiffInv
<1>5. ~ split' => \A x, z \in Streams : x # z =>
         /\ subs'[x] = {} \/ subs'[z] = {}
         /\ TickBusy(x)' => subs'[z] = {}
  BY <1>1 DEF DiffInv, TickBusy
<1> QED
  BY <1>1, <1>2, <1>3, <1>4, <1>5 DEF DiffInv

\* Who is served has the name the ticker is at, and is to get the new event.
LEMMA DiffComing ==
  ASSUME DiffInv, DepthTypes', TakeDiff, NEW c \in Served'
  PROVE  /\ c \in Served /\ c \in Viewers /\ Coming(c) \in Seq(DiffEvents)
         /\ event' = <<>> => Coming(c)' = Coming(c)
         /\ event' # <<>> => event' \in DiffEvents /\ Coming(c)' = Append(Coming(c), event')
<1>1. /\ snap # NoBook /\ event = <<>> /\ DepthTypes
      /\ UNCHANGED <<out, closed, subs, name, split>>
  BY DEF TakeDiff, DiffInv
<1>2. c \in Served /\ c \in Viewers /\ ~ split
  BY <1>1 DEF Served, Subscribers, DepthTypes
<1>3. PICK x \in Streams : c \in subs[x]
  BY <1>2 DEF Served, Subscribers
<1>4. TickBusy(name) /\ name \in Streams
  BY <1>1 DEF TickBusy, DepthTypes
<1>5. c \in subs[name]
  BY <1>2, <1>3, <1>4 DEF DiffInv
<1>6. Coming(c) = out[c] /\ out[c] \in Seq(DiffEvents)
  BY <1>1, <1>2, ComingSeq DEF DepthTypes
<1>7. event' = <<>> => Coming(c)' = Coming(c)
  BY <1>1, <1>2, ComingStays
<1>8. ASSUME event' # <<>> PROVE event' \in DiffEvents /\ Coming(c)' = Append(Coming(c), event')
  <2>1. PICK e \in DiffEvents : e = event'
    BY <1>8 DEF DepthTypes
  <2>2. Coming(c)' = out[c] \o <<e>>
    BY <1>1, <1>5, <1>8, <2>1 DEF Coming
  <2> QED
    BY <1>6, <2>1, <2>2, AppendIsConcat
<1> QED
  BY <1>2, <1>6, <1>7, <1>8

\* A diff that says anything gets the next id.
LEMMA TakeDiffKeeps == ASSUME DiffInv, TakeDiff PROVE DiffInv'
<1>1. /\ snap # NoBook /\ snap' = NoBook /\ event = <<>> /\ snap \in Books
      /\ UNCHANGED <<levels, out, closed, subs, name, last, split>>
  BY DEF TakeDiff, DiffInv, DepthTypes
<1>2. PICK diff : /\ diff = Diff(Seeded(snap), snap)
                  /\ lastID' = NextID(diff)
                  /\ event' = IF diff = <<>> THEN <<>> ELSE Event(lastID', diff)
  BY DEF TakeDiff
<1>3. diff \in Diffs
  <2>1. PICK S \in SUBSET Levels : diff = [l \in S |-> snap[l]]
    BY <1>2 DEF Diff
  <2>2. diff \in [S -> 0..MaxSize]
    BY <1>1, <2>1 DEF Books
  <2> QED
    BY <2>2 DEF Diffs
<1>4. lastID \in Nat /\ lastID' \in Nat
  BY <1>2 DEF NextID, DiffInv, DepthTypes
<1>5. \/ event' = <<>> /\ lastID' = lastID
      \/ event' \in DiffEvents /\ event'.id = lastID' /\ lastID' = lastID + 1
  <2>1. CASE diff = <<>>
    BY <1>2, <2>1 DEF NextID
  <2>2. CASE diff # <<>>
    <3>1. PICK e : e = Event(lastID', diff)
      OBVIOUS
    <3>2. e \in DiffEvents /\ e.id = lastID'
      BY <1>3, <1>4, <3>1 DEF Event, DiffEvents
    <3> QED
      BY <1>2, <2>2, <3>1, <3>2 DEF NextID
  <2> QED
    BY <2>1, <2>2
<1>6. DepthTypes /\ DepthTypes'
  BY <1>1, <1>4, <1>5 DEF DiffInv, DepthTypes
<1>7. Subscribers' = Subscribers /\ Served' = Served /\ Served \subseteq Viewers
  BY <1>1, <1>6 DEF Subscribers, Served, DepthTypes
<1>8. \A x \in Streams : TickBusy(x)' => TickBusy(x)
  BY <1>1 DEF TickBusy
<1>9. ~ split' => \A x, z \in Streams : x # z =>
         /\ subs'[x] = {} \/ subs'[z] = {}
         /\ TickBusy(x)' => subs'[z] = {}
  <2>1. /\ subs' = subs /\ (~ split' => ~ split)
        /\ ~ split => \A x, z \in Streams : x # z => (subs[x] = {} \/ subs[z] = {}) /\ (TickBusy(x) => subs[z] = {})
    BY <1>1 DEF DiffInv
  <2> QED
    BY ONLY <1>8, <2>1
<1>11. ASSUME NEW c \in Served' PROVE Serial(c)'
  <2>1. c \in Served /\ c \in Viewers /\ Serial(c)
    BY <1>6, DiffComing DEF DiffInv
  <2>2. CASE event' = <<>> /\ lastID' = lastID
    BY <1>1, <1>6, <2>1, <2>2, SerialStays
  <2>3. CASE event' \in DiffEvents /\ event'.id = lastID' /\ lastID' = lastID + 1
    <3>1. PICK q \in Seq(DiffEvents), e \in DiffEvents, n \in Nat :
              /\ q = Coming(c) /\ e = event' /\ n = lastID /\ e.id = n + 1 /\ lastID' = n + 1
              /\ Coming(c)' = Append(q, e)
      BY <1>4, <1>6, <2>3, EventIsOne, DiffComing
    <3>2. /\ \A i \in 1..Len(q) : q[i].id = n - Len(q) + i
          /\ last[c] # 0 => last[c] = n - Len(q)
      BY <2>1, <3>1 DEF Serial
    <3>3. PICK r : r = Append(q, e) /\ Len(r) = Len(q) + 1 /\ \A i \in 1..Len(r) : r[i].id = (n + 1) - Len(r) + i
      <4>1. e.id = n + 1 /\ \A i \in 1..Len(q) : q[i].id = n - Len(q) + i
        BY <3>1, <3>2
      <4> QED
        BY ONLY <4>1, RowOn
    <3>4. Len(q) \in Nat
      BY LenProperties
    <3>5. last'[c] # 0 => last'[c] = (n + 1) - Len(r)
      BY <1>1, <3>2, <3>3, <3>4
    <3> QED
      BY <3>1, <3>3, <3>5 DEF Serial
  <2> QED
    BY <1>5, <2>2, <2>3
<1>12. \A c \in Viewers \ Subscribers' : out'[c] = <<>> /\ last'[c] = 0
  BY <1>1, <1>7 DEF DiffInv
<1> QED
  BY <1>1, <1>5, <1>6, <1>9, <1>11, <1>12 DEF DiffInv

\* Who is served after the fanout was served, and got what was to come.
LEMMA FanoutComing ==
  ASSUME DepthTypes, DepthTypes', Fanout, NEW c \in Served'
  PROVE  c \in Served /\ c \in Viewers /\ Coming(c)' = Coming(c)
<1>1. /\ event # <<>> /\ event' = <<>> /\ event \in DiffEvents
      /\ UNCHANGED <<subs, name, split>>
      /\ out' = [d \in Viewers |-> IF d \in subs[name] THEN Queued(d, event) ELSE out[d]]
      /\ closed' = [d \in Viewers |-> Closes(subs[name], d)]
  BY DEF Fanout, SendAll, DepthTypes
<1>2. c \in Viewers /\ c \in Subscribers /\ ~ split /\ ~ Closes(subs[name], c)
  BY <1>1 DEF Served, Subscribers, DepthTypes
<1>3. ~ closed[c] /\ (c \in subs[name] => Fits(c))
  BY <1>2 DEF Closes
<1>4. IF c \in subs[name] THEN out'[c] = Append(out[c], event) ELSE out'[c] = out[c]
  BY <1>1, <1>2, <1>3 DEF Queued
<1>5. Coming(c)' = out'[c] \o <<>> /\ out'[c] \in Seq(DiffEvents)
  BY <1>1, <1>2 DEF Coming, DepthTypes
<1>6. Coming(c)' = out'[c]
  BY <1>5, ConcatEmptySeq
<1>7. Coming(c)' = Coming(c)
  BY <1>1, <1>2, <1>4, <1>6, ComingSeq
<1> QED
  BY <1>2, <1>3, <1>7 DEF Served

\* All who have the name get the event, or are closed.
LEMMA FanoutKeeps == ASSUME DiffInv, Fanout PROVE DiffInv'
<1>1. /\ event # <<>> /\ event' = <<>> /\ snap = NoBook
      /\ UNCHANGED <<levels, snap, lastID, subs, name, last, split>>
      /\ out' = [c \in Viewers |-> IF c \in subs[name] THEN Queued(c, event) ELSE out[c]]
      /\ closed' = [c \in Viewers |-> Closes(subs[name], c)]
  BY DEF Fanout, SendAll, DiffInv
<1>2. DepthTypes /\ event \in DiffEvents /\ event.id = lastID
  BY <1>1 DEF DiffInv, DepthTypes
<1>3. \A c \in Viewers : out'[c] \in Seq(DiffEvents)
  BY <1>1, <1>2, AppendProperties DEF DepthTypes, Queued
<1>4. closed' = [c \in Viewers |-> closed'[c]]
  BY <1>1
<1>5. DepthTypes'
  BY <1>1, <1>2, <1>3, <1>4 DEF DepthTypes
<1>6. Subscribers' = Subscribers
  BY <1>1 DEF Subscribers
<1>8. ASSUME NEW c \in Served' PROVE Serial(c)'
  <2>1. c \in Served /\ c \in Viewers /\ Serial(c) /\ Coming(c)' = Coming(c)
    BY <1>2, <1>5, FanoutComing DEF DiffInv
  <2> QED
    BY <1>1, <2>1 DEF Serial
<1>9. \A c \in Viewers \ Subscribers' : out'[c] = <<>> /\ last'[c] = 0
  <2> TAKE c \in Viewers \ Subscribers'
  <2>1. c \notin Subscribers /\ c \notin subs[name]
    BY <1>2, <1>6 DEF Subscribers, DepthTypes
  <2> QED
    BY <1>1, <2>1 DEF DiffInv
<1>10. ~ split' => \A x, z \in Streams : x # z =>
         /\ subs'[x] = {} \/ subs'[z] = {}
         /\ TickBusy(x)' => subs'[z] = {}
  BY <1>1 DEF DiffInv, TickBusy
<1> QED
  BY <1>1, <1>5, <1>8, <1>9, <1>10 DEF DiffInv

\* A connection opens the stream: only the event in hand can come to it first.
LEMMA OpenKeeps ==
  ASSUME DiffInv, NEW c \in Viewers, NEW s \in Streams, OpenStream(c, s) PROVE DiffInv'
<1>1. /\ c \notin Subscribers /\ subs' = [subs EXCEPT ![s] = @ \cup {c}]
      /\ UNCHANGED <<levels, snap, closed, out, lastID, name, event, last>>
      /\ ~ split' => ~ split /\ \A z \in Streams \ {s} : subs[z] = {} /\ ~ TickBusy(z)
  BY DEF OpenStream, feedVars
<1>2. DepthTypes /\ DepthTypes'
  BY <1>1 DEF DiffInv, DepthTypes
<1>3. subs'[s] = subs[s] \cup {c} /\ \A z \in Streams \ {s} : subs'[z] = subs[z]
  BY <1>1, <1>2 DEF DepthTypes
<1>4. Subscribers' = Subscribers \cup {c}
  BY <1>3 DEF Subscribers
<1>5. ASSUME ~ split', NEW x \in Streams, NEW z \in Streams, x # z
      PROVE  /\ subs'[x] = {} \/ subs'[z] = {}
             /\ TickBusy(x)' => subs'[z] = {}
  <2>1. TickBusy(x)' <=> TickBusy(x)
    BY <1>1 DEF TickBusy
  <2>2. \A y \in Streams \ {s} : subs'[y] = {} /\ ~ TickBusy(y)
    BY <1>1, <1>3, <1>5
  <2>3. x # s \/ z # s
    BY <1>5
  <2> QED
    BY <2>1, <2>2, <2>3
<1>6. ASSUME NEW d \in Served' PROVE Serial(d)'
  <2>1. d \in Viewers /\ ~ split' /\ ~ closed[d] /\ d \in Subscribers'
    BY <1>1, <1>2 DEF Served, Subscribers, DepthTypes
  <2>2. CASE d # c
    <3>1. d \in Served
      BY <1>1, <1>4, <2>1, <2>2 DEF Served
    <3>2. d \in subs[name] <=> d \in subs'[name']
      BY <1>1, <1>2, <1>3, <2>2 DEF DepthTypes
    <3> QED
      BY <1>1, <1>2, <2>1, <3>1, <3>2, SerialStays DEF DiffInv
  <2>3. CASE d = c
    <3>1. out[c] = <<>> /\ last[c] = 0
      BY <1>1 DEF DiffInv
    <3>2. last'[c] = 0 /\ out'[c] = <<>>
      BY <1>1, <3>1
    <3>3. CASE event = <<>>
      <4>1. Coming(c)' = <<>> \o <<>>
        BY <1>1, <3>2, <3>3 DEF Coming
      <4>2. <<>> \o <<>> = <<>> /\ Len(<<>>) = 0
        BY ConcatEmptySeq, EmptySeq
      <4>3. Coming(c)' = <<>> /\ 1..0 = {}
        BY <4>1, <4>2
      <4> QED
        BY <2>3, <3>2, <4>2, <4>3 DEF Serial
    <3>4. CASE event # <<>>
      <4>1. name = s /\ c \in subs'[name']
        <5>1. TickBusy(name) /\ name \in Streams
          BY <1>2, <3>4 DEF TickBusy, DepthTypes
        <5> QED
          BY <1>1, <1>3, <2>1, <5>1
      <4>2. Coming(c)' = <<>> \o <<event>>
        BY <1>1, <3>2, <3>4, <4>1 DEF Coming
      <4>3. PICK e \in DiffEvents : e = event /\ e.id = lastID
        BY <1>2, <3>4 DEF DiffInv, DepthTypes
      <4>4. PICK q \in Seq(DiffEvents) : q = <<e>> /\ Len(q) = 1 /\ q[1] = e
        <5>1. Len(<<e>>) = 1 /\ <<e>>[1] = e /\ <<e>> \in Seq(DiffEvents)
          OBVIOUS
        <5> QED
          BY ONLY <5>1
      <4>5. Coming(c)' = q
        BY <4>2, <4>3, <4>4, ConcatEmptySeq
      <4>6. lastID \in Nat /\ lastID' = lastID
        BY <1>1, <1>2 DEF DepthTypes
      <4>7. \A i \in 1..Len(q) : q[i].id = lastID' - Len(q) + i
        BY <4>3, <4>4, <4>6
      <4> QED
        BY <2>3, <3>2, <4>5, <4>7 DEF Serial
    <3> QED
      BY <3>3, <3>4
  <2> QED
    BY <2>2, <2>3
<1>7. \A d \in Viewers \ Subscribers' : out'[d] = <<>> /\ last'[d] = 0
  BY <1>1, <1>4 DEF DiffInv
<1> QED
  BY <1>1, <1>2, <1>5, <1>6, <1>7 DEF DiffInv

\* The write pump moves the first of the row to the client.
LEMMA WriteKeeps == ASSUME DiffInv, NEW c \in Viewers, DiffWrite(c) PROVE DiffInv'
<1>1. /\ out[c] # <<>> /\ last' = [last EXCEPT ![c] = Head(out[c]).id] /\ out' = [out EXCEPT ![c] = Tail(@)]
      /\ UNCHANGED <<levels, snap, closed, lastID, subs, name, event, split>>
  BY DEF DiffWrite
<1>2. PICK q \in Seq(DiffEvents) : q = out[c] /\ q # <<>> /\ Tail(q) \in Seq(DiffEvents) /\ Head(q) \in DiffEvents
  BY <1>1, HeadTailProperties DEF DiffInv, DepthTypes
<1>3. Head(q).id \in Nat
  BY <1>2 DEF DiffEvents
<1>4. DepthTypes /\ DepthTypes'
  BY <1>1, <1>2, <1>3 DEF DiffInv, DepthTypes
<1>5. /\ out'[c] = Tail(q) /\ last'[c] = Head(q).id
      /\ \A d \in Viewers \ {c} : out'[d] = out[d] /\ last'[d] = last[d]
  BY <1>1, <1>2, <1>4 DEF DepthTypes
<1>6. Subscribers' = Subscribers /\ Served' = Served /\ Served \subseteq Viewers
  BY <1>1, <1>4 DEF Subscribers, Served, DepthTypes
<1>7. ASSUME NEW d \in Served' PROVE Serial(d)'
  <2>1. d \in Viewers /\ Serial(d)
    BY <1>6 DEF DiffInv
  <2>2. CASE d # c
    BY <1>1, <1>4, <1>5, <2>1, <2>2, SerialStays
  <2>3. CASE d = c
    <3>1. PICK n \in Nat : n = lastID /\ n = lastID'
      BY <1>1, <1>4 DEF DepthTypes
    <3>2. PICK p \in Seq(DiffEvents) : p = Coming(c) /\ p # <<>> /\ Head(p) = Head(q) /\ Coming(c)' = Tail(p)
      BY <1>1, <1>2, <1>4, <1>5, ComingTail
    <3>3. \A i \in 1..Len(p) : p[i].id = n - Len(p) + i
      BY <2>1, <2>3, <3>1, <3>2 DEF Serial
    <3>4. PICK r : /\ r = Tail(p) /\ Len(r) = Len(p) - 1 /\ Head(p).id = n - Len(r)
                   /\ \A i \in 1..Len(r) : r[i].id = n - Len(r) + i
      BY ONLY <3>2, <3>3, RowTail
    <3> QED
      BY <1>5, <2>3, <3>1, <3>2, <3>4 DEF Serial
  <2> QED
    BY <2>2, <2>3
<1>8. \A d \in Viewers \ Subscribers' : out'[d] = <<>> /\ last'[d] = 0
  BY <1>1, <1>5, <1>6 DEF DiffInv
<1>9. ~ split' => \A x, z \in Streams : x # z =>
         /\ subs'[x] = {} \/ subs'[z] = {}
         /\ TickBusy(x)' => subs'[z] = {}
  BY <1>1 DEF DiffInv, TickBusy
<1> QED
  BY <1>1, <1>4, <1>7, <1>8, <1>9 DEF DiffInv

\* A closed connection is removed and starts over.
LEMMA ReturnKeeps == ASSUME DiffInv, NEW c \in Viewers, DiffReturn(c) PROVE DiffInv'
<1>1. /\ closed' = [closed EXCEPT ![c] = FALSE] /\ out' = [out EXCEPT ![c] = <<>>]
      /\ subs' = [s \in Streams |-> subs[s] \ {c}] /\ last' = [last EXCEPT ![c] = 0]
      /\ UNCHANGED <<levels, snap, lastID, name, event, split>>
  BY DEF DiffReturn, Redial
<1>2. DepthTypes /\ closed' = [d \in Viewers |-> closed'[d]]
      /\ \A d \in Viewers \ {c} : closed'[d] = closed[d]
  BY <1>1 DEF DiffInv, DepthTypes
<1>3. DepthTypes'
  BY <1>1, <1>2, EmptySeq DEF DepthTypes
<1>4. Subscribers' = Subscribers \ {c}
  BY <1>1 DEF Subscribers
<1>5. /\ out'[c] = <<>> /\ last'[c] = 0
      /\ \A d \in Viewers \ {c} : out'[d] = out[d] /\ last'[d] = last[d]
  BY <1>1, <1>2 DEF DepthTypes
<1>6. ASSUME NEW d \in Served' PROVE Serial(d)'
  <2>1. d \in Viewers /\ d \in Subscribers /\ d # c /\ ~ split
    BY <1>1, <1>2, <1>4 DEF Served, Subscribers, DepthTypes
  <2>2. ~ closed'[d]
    BY DEF Served
  <2>3. ~ closed[d]
    BY <1>2, <2>1, <2>2
  <2>4. d \in Served
    BY <2>1, <2>3 DEF Served
  <2>5. d \in subs[name] <=> d \in subs'[name']
    BY <1>1, <1>2, <2>1 DEF DepthTypes
  <2> QED
    BY <1>1, <1>2, <1>3, <1>5, <2>1, <2>4, <2>5, SerialStays DEF DiffInv
<1>7. \A d \in Viewers \ Subscribers' : out'[d] = <<>> /\ last'[d] = 0
  BY <1>4, <1>5 DEF DiffInv
<1>8. ~ split' => \A x, z \in Streams : x # z =>
         /\ subs'[x] = {} \/ subs'[z] = {}
         /\ TickBusy(x)' => subs'[z] = {}
  <2>1. \A x \in Streams : (TickBusy(x)' <=> TickBusy(x)) /\ (subs[x] = {} => subs'[x] = {})
    BY <1>1 DEF TickBusy
  <2> QED
    BY <1>1, <2>1 DEF DiffInv
<1> QED
  BY <1>1, <1>3, <1>6, <1>7, <1>8 DEF DiffInv

\* The feed starts with nobody connected.
LEMMA DiffStarts == DiffInit => DiffInv
<1> SUFFICES ASSUME DiffInit PROVE DiffInv
  OBVIOUS
<1>1. /\ levels = Start /\ snap = NoBook /\ lastID = 0 /\ event = <<>> /\ name \in Streams
      /\ out = [c \in Viewers |-> <<>>] /\ last = [c \in Viewers |-> 0] /\ subs = [s \in Streams |-> {}]
      /\ closed = [c \in Viewers |-> FALSE]
  BY DEF DiffInit, FeedInit
<1>2. closed = [c \in Viewers |-> closed[c]]
  BY <1>1
<1>3. DepthTypes
  BY <1>1, <1>2, FeedAssumption, EmptySeq DEF DepthTypes, FeedAssumption, Books
<1>4. Subscribers = {} /\ Served = {}
  BY <1>1 DEF Subscribers, Served
<1> QED
  BY <1>1, <1>3, <1>4 DEF DiffInv, TickBusy

\* Ids that follow one another up to n.
InARow(ids, n) == ids[Len(ids)] = n /\ \A i \in 2..Len(ids) : ids[i] = ids[i - 1] + 1

\* Ids in a row, after the last one a client got, are consecutive up to the last.
LEMMA RowIds ==
  ASSUME NEW n \in Nat, NEW k \in Nat, NEW m \in Nat, NEW t \in [1..m -> Nat],
         \A i \in 1..m : t[i] = n - m + i,
         k # 0 => k = n - m,
         NEW h, h = IF k = 0 THEN <<>> ELSE <<k>>,
         NEW ids, ids = h \o t, ids # <<>>
  PROVE  InARow(ids, n)
<1>1. t \in Seq(Nat) /\ Len(t) = m /\ \A i \in 1..m : t[i] = n - m + i
  OBVIOUS
<1>2. h = IF k = 0 THEN <<>> ELSE <<k>>
  OBVIOUS
<1>3. h \in Seq(Nat) /\ Len(h) \in 0..1 /\ (k # 0 => Len(h) = 1 /\ h[1] = n - m)
  <2>1. CASE k = 0
    BY <1>2, <2>1
  <2>2. CASE k # 0
    <3>1. h = <<k>> /\ k = n - m
      BY <1>2, <2>2
    <3> QED
      BY <3>1
  <2> QED
    BY <2>1, <2>2
<1>4. Len(h) = 1 => h[1] = n - m
  BY <1>2, <1>3
<1>5. ids = h \o t
  BY <1>2
<1>6. /\ ids \in Seq(Nat) /\ Len(ids) = Len(h) + m
      /\ \A i \in 1..(Len(h) + m) : ids[i] = IF i <= Len(h) THEN h[i] ELSE t[i - Len(h)]
  BY ONLY <1>1, <1>3, <1>5, m \in Nat, ConcatProperties
<1>7. Len(ids) \in Nat /\ Len(ids) > 0
  BY ONLY <1>6, <1>3, m \in Nat, ids # <<>>, EmptySeq
<1>8. \A i \in 1..Len(ids) : ids[i] = n - Len(ids) + i
  <2> TAKE i \in 1..Len(ids)
  <2>1. CASE Len(h) = 0
    BY ONLY <1>1, <1>6, <2>1, n \in Nat, m \in Nat, i \in 1..Len(ids)
  <2>2. CASE Len(h) = 1 /\ i = 1
    BY ONLY <1>4, <1>6, <2>2, n \in Nat, m \in Nat, i \in 1..Len(ids)
  <2>3. CASE Len(h) = 1 /\ i > 1
    BY ONLY <1>1, <1>6, <2>3, n \in Nat, m \in Nat, i \in 1..Len(ids)
  <2> QED
    BY ONLY <1>3, <1>6, <2>1, <2>2, <2>3, m \in Nat, i \in 1..Len(ids)
<1>9. Len(ids) \in 1..Len(ids) /\ ids[Len(ids)] = n
  <2>1. Len(ids) \in 1..Len(ids)
    BY ONLY <1>7
  <2> QED
    BY ONLY <1>7, <1>8, <2>1, n \in Nat
<1>10. ASSUME NEW i \in 2..Len(ids) PROVE ids[i] = ids[i - 1] + 1
  <2>1. i \in 1..Len(ids) /\ i - 1 \in 1..Len(ids) /\ i \in Int
    BY ONLY <1>7, <1>10
  <2> QED
    BY ONLY <1>7, <1>8, <2>1, n \in Nat
<1> QED
  BY ONLY <1>9, <1>10 DEF InARow

\* One step of the diff-depth stream keeps DiffInv.
LEMMA DiffStep == DiffInv /\ [DiffNext]_diffDepthVars => DiffInv'
<1> SUFFICES ASSUME DiffInv, [DiffNext]_diffDepthVars PROVE DiffInv'
  OBVIOUS
<1>1. levels \in Books /\ closed = [c \in Viewers |-> closed[c]]
  BY DEF DiffInv, DepthTypes
<1>2. ASSUME NEW l \in Levels, NEW size \in 0..MaxSize, DiffBookMoves(l, size) PROVE DiffInv'
  <2>1. levels' \in Books /\ UNCHANGED <<snap, lastID, subs, name, event, out, last, split, closed>>
    BY <1>1, <1>2 DEF DiffBookMoves, LevelChanges, diffVars, Books
  <2> QED
    BY <1>1, <2>1, DiffRests
<1>3. ASSUME UNCHANGED <<levels, snap, lastID, subs, name, event, out, last, split, closed>> PROVE DiffInv'
  BY <1>1, <1>3, DiffRests
<1>4. ASSUME NEW c \in Viewers, DiffLeave(c) PROVE DiffInv'
  <2>1. /\ UNCHANGED <<levels, snap, lastID, subs, name, event, out, last, split>>
        /\ closed' = [closed EXCEPT ![c] = TRUE]
    BY <1>4 DEF DiffLeave, Hangup, diffVars
  <2>2. closed' = [d \in Viewers |-> closed'[d]] /\ \A d \in Viewers : closed[d] => closed'[d]
    BY <1>1, <2>1
  <2> QED
    BY <1>1, <2>1, <2>2, DiffRests
<1>5. CASE DiffTick \/ \E s \in Streams : Skip(s)
  BY <1>3, <1>5 DEF DiffTick, Skip, feedVars
<1>6. ASSUME NEW c \in Viewers, ReadID(c) \/ ReadBook(c) PROVE DiffInv'
  BY <1>3, <1>6 DEF ReadID, ReadBook, feedVars
<1>7. CASE UNCHANGED diffDepthVars
  BY <1>3, <1>7 DEF diffDepthVars, feedVars, diffVars
<1> QED
  BY <1>2, <1>4, <1>5, <1>6, <1>7, VisitKeeps, TakeDiffKeeps, FanoutKeeps, OpenKeeps, WriteKeeps, ReturnKeeps
  DEF DiffNext

\* depthdiff.go tick, handleDepthStream and the write pumps: for any number of
\* connections, names and levels and any length of the queues, the ids a
\* connection is sent follow one another up to the last id, while the stream
\* goes by one name.
THEOREM IdsInARow == DiffSpec => []IdsContiguous
<1>1. DiffInv => IdsContiguous
  <2> SUFFICES ASSUME DiffInv, NEW c \in Served, NEW ids,
                      ids = (IF last[c] = 0 THEN <<>> ELSE <<last[c]>>)
                              \o [i \in DOMAIN Coming(c) |-> Coming(c)[i].id],
                      ids # <<>>
               PROVE  Last(ids) = lastID /\ \A i \in 2..Len(ids) : ids[i] = ids[i - 1] + 1
    BY Zenon DEF IdsContiguous
  <2>1. c \in Viewers /\ DepthTypes /\ Serial(c) /\ lastID \in Nat /\ last[c] \in Nat
    <3>1. DepthTypes /\ Serial(c)
      BY DEF DiffInv
    <3>2. c \in Viewers
      BY <3>1 DEF Served, Subscribers, DepthTypes
    <3> QED
      BY <3>1, <3>2 DEF DepthTypes
  <2>2. PICK q \in Seq(DiffEvents) : q = Coming(c) /\ Len(q) \in Nat /\ DOMAIN q = 1..Len(q)
    BY ONLY <2>1, ComingSeq, LenProperties
  <2>3. \A i \in 1..Len(q) : q[i].id \in Nat
    <3> TAKE i \in 1..Len(q)
    <3>1. q[i] \in DiffEvents
      BY ONLY <2>2, i \in 1..Len(q), ElementOfSeq
    <3> QED
      BY ONLY <3>1 DEF DiffEvents
  <2>4. PICK n, k, m : n = lastID /\ k = last[c] /\ m = Len(q)
    OBVIOUS
  <2>5. /\ n \in Nat /\ k \in Nat /\ m \in Nat /\ DOMAIN q = 1..m
        /\ \A i \in 1..m : q[i].id = n - m + i /\ q[i].id \in Nat
        /\ k # 0 => k = n - m
    BY ONLY <2>1, <2>2, <2>3, <2>4 DEF Serial
  <2>6. PICK t : t = [i \in DOMAIN q |-> q[i].id]
    OBVIOUS
  <2>7. t \in [1..m -> Nat] /\ \A i \in 1..m : t[i] = n - m + i
    BY ONLY <2>5, <2>6
  <2>8. PICK h : h = IF k = 0 THEN <<>> ELSE <<k>>
    OBVIOUS
  <2>9. ids = h \o t
    BY <2>2, <2>4, <2>6, <2>8
  <2>10. InARow(ids, n)
    BY ONLY <2>5, <2>7, <2>8, <2>9, ids # <<>>, RowIds
  <2> QED
    BY ONLY <2>4, <2>10 DEF Last, InARow
<1> QED
  BY <1>1, DiffStarts, DiffStep, PTL DEF DiffSpec

-----------------------------------------------------------------------------
(* Books kept by their changes: what the depth channels have in common.      *)

\* A client with book b (NoBook: none) that gets the frames q, of which those
\* at the places C tell of the level l, then has n there.
Says(q, C, b, l, n) ==
    \/ C = {} /\ b # NoBook /\ b[l] = n
    \/ \E i \in C : (\A j \in C : j =< i) /\ q[i].levels[l] = n

\* LastOf finds the last of the places.
LEMMA LastPlace ==
  ASSUME NEW C \in SUBSET (Nat \ {0})
  PROVE  /\ C = {} => LastOf(C) = 0
         /\ \A i \in C : (\A j \in C : j =< i) => LastOf(C) = i
<1>1. ASSUME C = {} PROVE LastOf(C) = 0
  <2>1. {0} \cup C = {0}
    BY <1>1
  <2> QED
    BY <2>1 DEF LastOf, Max
<1>2. ASSUME NEW i \in C, \A j \in C : j =< i PROVE LastOf(C) = i
  <2>1. i \in {0} \cup C /\ \A j \in {0} \cup C : i >= j
    BY <1>2
  <2>2. \A k \in {0} \cup C : (\A j \in {0} \cup C : k >= j) => k = i
    BY <1>2
  <2> QED
    BY <2>1, <2>2 DEF LastOf, Max
<1> QED
  BY <1>1, <1>2

\* What the last place says is what the client will have.
LEMMA SaysLast ==
  ASSUME NEW q, NEW C \in SUBSET (Nat \ {0}), NEW b, NEW l, NEW n, Says(q, C, b, l, n)
  PROVE  (IF LastOf(C) = 0 THEN b ELSE q[LastOf(C)].levels)[l] = n
<1>1. CASE C = {}
  BY <1>1, LastPlace DEF Says
<1>2. CASE C # {}
  <2>1. PICK i \in C : (\A j \in C : j =< i) /\ q[i].levels[l] = n
    BY <1>2 DEF Says
  <2>2. LastOf(C) = i /\ i # 0
    BY <2>1, LastPlace
  <2> QED
    BY <2>1, <2>2
<1> QED
  BY <1>1, <1>2

\* One more frame: it has the last word on the levels it tells of.
LEMMA SaysOn ==
  ASSUME NEW S, NEW q \in Seq(S), NEW f \in S, NEW C \in SUBSET (1..Len(q)), NEW b, NEW l, NEW n
  PROVE  /\ Says(q, C, b, l, n) => Says(Append(q, f), C, b, l, n)
         /\ f.levels[l] = n => Says(Append(q, f), C \cup {Len(q) + 1}, b, l, n)
<1>1. PICK r \in Seq(S) : r = Append(q, f)
  BY AppendProperties
<1>2. Len(q) \in Nat /\ r[Len(q) + 1] = f /\ \A i \in 1..Len(q) : r[i] = q[i]
  BY <1>1, AppendProperties, LenProperties
<1>3. Says(q, C, b, l, n) => Says(r, C, b, l, n)
  BY <1>2 DEF Says
<1>4. ASSUME f.levels[l] = n PROVE Says(r, C \cup {Len(q) + 1}, b, l, n)
  BY <1>2, <1>4 DEF Says
<1> QED
  BY <1>1, <1>3, <1>4

\* One frame taken: what it says goes into the book.
LEMMA SaysTail ==
  ASSUME NEW S, NEW q \in Seq(S), q # <<>>, NEW C \in SUBSET (1..Len(q)), NEW b, NEW l, NEW n,
         Says(q, C, b, l, n),
         NEW D, D = {i \in 1..Len(Tail(q)) : i + 1 \in C},
         NEW d, D = {} => d # NoBook,
         D = {} /\ 1 \in C => d[l] = q[1].levels[l],
         D = {} /\ C = {} => d[l] = b[l]
  PROVE  Says(Tail(q), D, d, l, n)
<1>1. PICK r \in Seq(S) : r = Tail(q)
  BY HeadTailProperties
<1>2. Len(q) \in Nat \ {0} /\ Len(r) = Len(q) - 1 /\ \A i \in 1..Len(r) : r[i] = q[i + 1]
  BY <1>1, HeadTailProperties, EmptySeq, LenProperties
<1>3. CASE C = {}
  BY <1>3 DEF Says
<1>4. CASE C # {}
  <2>1. PICK i \in C : (\A j \in C : j =< i) /\ q[i].levels[l] = n
    BY <1>4 DEF Says
  <2>2. CASE i = 1
    <3>1. D = {} /\ 1 \in C
      BY <1>1, <1>2, <2>1, <2>2
    <3> QED
      BY <2>1, <2>2, <3>1 DEF Says
  <2>3. CASE i # 1
    <3>1. i - 1 \in D /\ r[i - 1] = q[i]
      <4>1. i - 1 \in 1..Len(r) /\ (i - 1) + 1 = i
        BY <1>2, <2>1, <2>3
      <4>2. r[i - 1] = q[(i - 1) + 1]
        BY <1>2, <4>1
      <4> QED
        BY <1>1, <2>1, <4>1, <4>2
    <3>2. \A j \in D : j =< i - 1
      BY <1>1, <1>2, <2>1
    <3> QED
      BY <1>1, <2>1, <3>1, <3>2 DEF Says
  <2> QED
    BY <2>2, <2>3
<1> QED
  BY <1>3, <1>4

-----------------------------------------------------------------------------
(* The level2 channel. *)

L2Frames == [kind : {"snapshot"}, levels : Books] \cup [kind : {"update"}, levels : Diffs]

L2Types ==
    /\ levels \in Books /\ {baseline, snap} \subseteq Books \cup {NoBook}
    /\ out \in [Viewers -> Seq(L2Frames)]
    /\ view \in [Viewers -> Books \cup {NoBook}]
    /\ reading \in [Viewers -> Books \cup {NoBook}]
    /\ closed = [c \in Viewers |-> closed[c]]

Telling(q, l) == {i \in 1..Len(q) : l \in Covered(q[i])}

\* A client with book b has one or is about to, and then at every level what
\* the baseline m has.
UpToDate(q, b, m) ==
    /\ b # NoBook \/ \E i \in 1..Len(q) : q[i].kind = "snapshot"
    /\ \A l \in Levels : Says(q, Telling(q, l), b, l, m[l])

L2Inv ==
    /\ L2Types
    /\ \A c \in Viewers : L2Served(c) => baseline # NoBook
    /\ \A c \in Viewers : L2Served(c) => UpToDate(out[c], view[c], baseline)

\* What differs between two books is named by their difference.
LEMMA DiffNames ==
  ASSUME FeedAssumption, NEW a \in Books, NEW b \in Books
  PROVE  /\ Diff(a, b) \in Diffs
         /\ \A l \in Levels : IF l \in DOMAIN Diff(a, b) THEN Diff(a, b)[l] = b[l] ELSE a[l] = b[l]
<1> DEFINE S == {k \in Levels : a[k] # b[k]}
<1>1. Diff(a, b) = [l \in S |-> b[l]] /\ S \in SUBSET Levels
  BY DEF Diff
<1>2. [l \in S |-> b[l]] \in [S -> 0..MaxSize]
  BY DEF Books
<1> QED
  BY <1>1, <1>2 DEF Diffs

\* A frame more: a snapshot of the book m, or an update that names what
\* differs between the old baseline and m.
LEMMA FrameOn ==
  ASSUME NEW q \in Seq(L2Frames), NEW f \in L2Frames, NEW b, NEW k, NEW m,
         f.kind = "snapshot" \/ UpToDate(q, b, k),
         \A l \in Levels : IF l \in Covered(f) THEN f.levels[l] = m[l] ELSE k[l] = m[l]
  PROVE  UpToDate(Append(q, f), b, m)
<1>1. PICK r \in Seq(L2Frames) : r = Append(q, f)
  BY AppendProperties
<1>2. Len(q) \in Nat /\ Len(r) = Len(q) + 1 /\ r[Len(q) + 1] = f /\ \A i \in 1..Len(q) : r[i] = q[i]
  BY <1>1, AppendProperties, LenProperties
<1>3. b # NoBook \/ \E i \in 1..Len(r) : r[i].kind = "snapshot"
  <2>1. CASE f.kind = "snapshot"
    BY <1>2, <2>1
  <2>2. CASE b # NoBook \/ \E i \in 1..Len(q) : q[i].kind = "snapshot"
    BY <1>2, <2>2
  <2> QED
    BY <2>1, <2>2 DEF UpToDate
<1>4. ASSUME NEW l \in Levels PROVE Says(r, Telling(r, l), b, l, m[l])
  <2>1. Telling(q, l) \in SUBSET (1..Len(q))
    BY DEF Telling
  <2>2. CASE l \in Covered(f)
    <3>1. Telling(r, l) = Telling(q, l) \cup {Len(q) + 1}
      BY <1>2, <2>2 DEF Telling
    <3>2. PICK n : n = m[l] /\ f.levels[l] = n
      BY <2>2
    <3>3. Says(Append(q, f), Telling(q, l) \cup {Len(q) + 1}, b, l, n)
      BY <2>1, <3>2, SaysOn
    <3> QED
      BY <1>1, <3>1, <3>2, <3>3
  <2>3. CASE l \notin Covered(f)
    <3>1. Telling(r, l) = Telling(q, l)
      BY <1>2, <2>3 DEF Telling
    <3>2. f.kind # "snapshot" /\ k[l] = m[l]
      BY <2>3 DEF Covered
    <3>3. Says(q, Telling(q, l), b, l, m[l])
      BY <3>2 DEF UpToDate
    <3> QED
      BY <1>1, <2>1, <3>1, <3>3, SaysOn
  <2> QED
    BY <2>2, <2>3
<1> QED
  BY <1>1, <1>3, <1>4 DEF UpToDate

\* A frame less: the client has taken it.
LEMMA FrameOff ==
  ASSUME NEW q \in Seq(L2Frames), q # <<>>, NEW b \in Books \cup {NoBook}, NEW m, FeedAssumption,
         UpToDate(q, b, m)
  PROVE  UpToDate(Tail(q), L2Received(b, Head(q)), m)
<1>1. PICK r \in Seq(L2Frames) : r = Tail(q)
  BY HeadTailProperties
<1>2. /\ Len(q) \in Nat \ {0} /\ Len(r) = Len(q) - 1 /\ Head(q) = q[1]
      /\ \A i \in 1..Len(r) : r[i] = q[i + 1]
  BY <1>1, HeadTailProperties, EmptySeq, LenProperties
<1>3. PICK f, d : f = q[1] /\ d = L2Received(b, f)
  OBVIOUS
<1>4. f \in L2Frames
  <2>1. 1 \in 1..Len(q)
    BY <1>2
  <2> QED
    BY <1>3, <2>1, ElementOfSeq
<1>5. /\ f.kind = "snapshot" => d = f.levels /\ d # NoBook /\ Covered(f) = Levels
      /\ f.kind # "snapshot" => f.kind = "update" /\ Covered(f) = DOMAIN f.levels
  <2>1. f.kind = "snapshot" => f.levels \in Books
    BY <1>4 DEF L2Frames
  <2>2. NoBook \notin Books
    BY DEF FeedAssumption, Books
  <2> QED
    BY <1>3, <1>4, <2>1, <2>2 DEF L2Received, Covered, L2Frames
<1>6. f.kind # "snapshot" /\ b # NoBook => d = Applied(f.levels, b) /\ d # NoBook
  <2>1. SUFFICES ASSUME f.kind # "snapshot", b # NoBook PROVE d = Applied(f.levels, b) /\ d # NoBook
    OBVIOUS
  <2>2. d = Applied(f.levels, b)
    BY <1>3, <1>5, <2>1 DEF L2Received
  <2>3. f.levels \in Diffs /\ b \in Books
    BY <1>4, <2>1 DEF L2Frames
  <2>4. PICK T \in SUBSET Levels : f.levels \in [T -> 0..MaxSize]
    BY <2>3 DEF Diffs
  <2>5. Applied(f.levels, b) \in [Levels -> 0..MaxSize]
    BY <2>3, <2>4 DEF Applied, Books
  <2> QED
    BY <2>2, <2>5 DEF FeedAssumption
<1>7. f.kind # "snapshot" /\ b = NoBook => d = NoBook
  BY <1>3, <1>5 DEF L2Received
<1>8. d # NoBook \/ \E i \in 1..Len(r) : r[i].kind = "snapshot"
  <2>1. CASE f.kind = "snapshot" \/ b # NoBook
    BY <1>5, <1>6, <2>1
  <2>2. CASE f.kind # "snapshot" /\ b = NoBook
    <3>1. PICK i \in 1..Len(q) : q[i].kind = "snapshot"
      BY <2>2 DEF UpToDate
    <3>2. i # 1
      BY <1>3, <2>2, <3>1
    <3>3. i - 1 \in 1..Len(r) /\ (i - 1) + 1 = i
      BY <1>2, <3>1, <3>2
    <3>4. r[i - 1] = q[i]
      BY <1>2, <3>3
    <3> QED
      BY <3>1, <3>3, <3>4
  <2> QED
    BY <2>1, <2>2
<1>9. ASSUME NEW l \in Levels PROVE Says(r, Telling(r, l), d, l, m[l])
  <2>1. Says(q, Telling(q, l), b, l, m[l]) /\ Telling(q, l) \in SUBSET (1..Len(q))
    BY DEF UpToDate, Telling
  <2>2. Telling(r, l) = {i \in 1..Len(r) : i + 1 \in Telling(q, l)}
    BY <1>2 DEF Telling
  <2>3. 1 \in Telling(q, l) <=> l \in Covered(f)
    BY <1>2, <1>3 DEF Telling
  <2>4. Telling(r, l) = {} => d # NoBook
    BY <1>8, <1>9 DEF Telling, Covered
  <2>5. Telling(r, l) = {} /\ 1 \in Telling(q, l) => d[l] = q[1].levels[l]
    <3>1. CASE f.kind = "snapshot"
      BY <1>3, <1>5, <3>1
    <3>2. CASE f.kind # "snapshot"
      BY <1>3, <1>5, <1>6, <1>7, <1>9, <2>3, <2>4, <3>2 DEF Applied
    <3> QED
      BY <3>1, <3>2
  <2>6. Telling(r, l) = {} /\ Telling(q, l) = {} => d[l] = b[l]
    <3>1. SUFFICES ASSUME Telling(r, l) = {}, Telling(q, l) = {} PROVE d[l] = b[l]
      OBVIOUS
    <3>2. l \notin Covered(f) /\ d # NoBook
      BY <2>3, <2>4, <3>1
    <3>3. f.kind # "snapshot"
      BY <1>5, <1>9, <3>2
    <3> QED
      BY <1>5, <1>6, <1>7, <1>9, <3>2, <3>3 DEF Applied
  <2> QED
    BY <1>1, <2>1, <2>2, <2>4, <2>5, <2>6, SaysTail
<1> QED
  BY <1>1, <1>2, <1>3, <1>8, <1>9 DEF UpToDate

\* The ticker's push: who is still served afterwards got what changed.
LEMMA PushTells == ASSUME L2Inv, FeedAssumption, Push PROVE L2Inv'
<1>1. /\ snap \in Books /\ snap # NoBook /\ baseline' = snap /\ snap' = NoBook
      /\ UNCHANGED <<levels, view, followers, reading, cut>>
  BY DEF Push, l2Vars, L2Inv, L2Types
<1>2. PICK diff : diff = Diff(Seeded(snap), snap)
  OBVIOUS
<1>3. Seeded(snap) \in Books
  BY <1>1 DEF Seeded, L2Inv, L2Types
<1>4. diff \in Diffs /\ \A l \in Levels : IF l \in DOMAIN diff THEN diff[l] = snap[l] ELSE Seeded(snap)[l] = snap[l]
  BY <1>1, <1>2, <1>3, DiffNames
<1>5. IF diff = <<>> THEN UNCHANGED <<out, closed>> ELSE SendAll(followers, L2Update(diff))
  BY <1>2 DEF Push
<1>6. L2Update(diff) \in L2Frames
  BY <1>4 DEF L2Update, L2Frames
<1>7. out \in [Viewers -> Seq(L2Frames)] /\ closed = [c \in Viewers |-> closed[c]]
  BY DEF L2Inv, L2Types
<1>8. out' \in [Viewers -> Seq(L2Frames)] /\ closed' = [c \in Viewers |-> closed'[c]]
  <2>1. CASE diff = <<>>
    BY <1>5, <1>7, <2>1
  <2>2. CASE diff # <<>>
    <3>1. \A c \in Viewers : Append(out[c], L2Update(diff)) \in Seq(L2Frames)
      BY <1>6, <1>7, AppendProperties
    <3> QED
      BY <1>5, <1>7, <2>2, <3>1 DEF SendAll, Queued
  <2> QED
    BY <2>1, <2>2
<1>9. L2Types'
  BY <1>1, <1>8 DEF L2Inv, L2Types
<1>10. ASSUME NEW c \in Viewers, L2Served(c)' PROVE UpToDate(out[c], view[c], baseline)'
  <2>1. c \in followers /\ ~closed'[c] /\ c \notin cut
    BY <1>1, <1>10 DEF L2Served
  <2>2. ~closed[c]
    BY <1>5, <1>10, <2>1 DEF SendAll, Closes
  <2>3. baseline # NoBook /\ UpToDate(out[c], view[c], baseline) /\ Seeded(snap) = baseline
    BY <2>1, <2>2 DEF L2Inv, L2Served, Seeded
  <2>4. CASE diff = <<>>
    <3>1. DOMAIN diff = {}
      BY <2>4, EmptySeq, LenProperties
    <3>2. \A l \in Levels : baseline[l] = snap[l]
      BY <1>4, <2>3, <3>1
    <3>3. out'[c] = out[c] /\ view'[c] = view[c]
      BY <1>1, <1>5, <2>4
    <3> QED
      BY <1>1, <2>3, <3>2, <3>3 DEF UpToDate
  <2>5. CASE diff # <<>>
    <3>1. closed'[c] = Closes(followers, c) /\ out'[c] = Queued(c, L2Update(diff))
      BY <1>5, <1>10, <2>1, <2>5 DEF SendAll
    <3>2. Fits(c)
      BY <2>1, <3>1 DEF Closes
    <3>3. out'[c] = Append(out[c], L2Update(diff))
      BY <3>1, <3>2 DEF Queued
    <3>4. Covered(L2Update(diff)) = DOMAIN diff /\ L2Update(diff).levels = diff
      BY DEF Covered, L2Update
    <3>5. \A l \in Levels : IF l \in Covered(L2Update(diff)) THEN L2Update(diff).levels[l] = snap[l]
                            ELSE baseline[l] = snap[l]
      BY <1>4, <2>3, <3>4
    <3>6. UpToDate(Append(out[c], L2Update(diff)), view[c], snap)
      BY <1>6, <1>7, <2>3, <3>5, FrameOn
    <3> QED
      BY <1>1, <3>3, <3>6
  <2> QED
    BY <2>4, <2>5
<1> QED
  BY <1>1, <1>9, <1>10 DEF L2Inv

\* A subscription's snapshot: the baseline as it stands.
LEMMA EnlistTells == ASSUME L2Inv, FeedAssumption, NEW c \in Viewers, Enlist(c) PROVE L2Inv'
<1>1. /\ reading[c] # NoBook /\ baseline' = Seeded(reading[c])
      /\ UNCHANGED <<levels, snap, closed, view>>
      /\ followers' = followers \cup {c}
      /\ cut' = IF Fits(c) THEN cut ELSE cut \cup {c}
      /\ reading' = [reading EXCEPT ![c] = NoBook]
  BY DEF Enlist
<1>2. PICK f : f = L2Snapshot(FirstBook(c))
  OBVIOUS
<1>3. /\ out \in [Viewers -> Seq(L2Frames)]
      /\ out' = [out EXCEPT ![c] = Queued(c, f)]
  BY <1>2 DEF Enlist, L2Inv, L2Types
<1>4. baseline' \in Books /\ FirstBook(c) = baseline'
  BY <1>1 DEF Seeded, FirstBook, L2Inv, L2Types
<1>5. f \in L2Frames /\ f.kind = "snapshot" /\ f.levels = baseline' /\ Covered(f) = Levels
  BY <1>2, <1>4 DEF L2Snapshot, L2Frames, Covered
<1>6. out' \in [Viewers -> Seq(L2Frames)]
  BY <1>3, <1>5, AppendProperties DEF Queued
<1>7. L2Types'
  BY <1>1, <1>4, <1>6 DEF L2Inv, L2Types
<1>8. baseline' # NoBook
  BY <1>4 DEF FeedAssumption, Books
<1>9. ASSUME NEW d \in Viewers, L2Served(d)' PROVE UpToDate(out[d], view[d], baseline)'
  <2>1. CASE d = c
    <3>1. Fits(c)
      BY <1>1, <1>9, <2>1 DEF L2Served
    <3>2. out'[c] = Append(out[c], f) /\ out[c] \in Seq(L2Frames)
      BY <1>3, <3>1 DEF Queued
    <3>3. \A l \in Levels : IF l \in Covered(f) THEN f.levels[l] = baseline'[l] ELSE baseline[l] = baseline'[l]
      BY <1>5
    <3>4. UpToDate(Append(out[c], f), view[c], baseline')
      BY <1>5, <3>2, <3>3, FrameOn
    <3> QED
      BY <1>1, <2>1, <3>2, <3>4
  <2>2. CASE d # c
    <3>1. L2Served(d)
      BY <1>1, <1>9, <2>2 DEF L2Served
    <3>2. UpToDate(out[d], view[d], baseline) /\ baseline' = baseline
      BY <1>1, <3>1 DEF L2Inv, Seeded
    <3> QED
      BY <1>1, <1>3, <2>2, <3>2
  <2> QED
    BY <2>1, <2>2
<1> QED
  BY <1>7, <1>8, <1>9 DEF L2Inv

\* The write pump moves what a client has on, and nothing else.
LEMMA PumpTells == ASSUME L2Inv, FeedAssumption, NEW c \in Viewers, L2Write(c) PROVE L2Inv'
<1>1. /\ out[c] # <<>>
      /\ view' = [view EXCEPT ![c] = L2Received(view[c], Head(out[c]))]
      /\ out' = [out EXCEPT ![c] = Tail(out[c])]
      /\ UNCHANGED <<levels, baseline, snap, closed, followers, reading, cut>>
  BY DEF L2Write, l2Vars
<1>2. out \in [Viewers -> Seq(L2Frames)] /\ view \in [Viewers -> Books \cup {NoBook}]
  BY DEF L2Inv, L2Types
<1>3. Head(out[c]) \in L2Frames /\ Tail(out[c]) \in Seq(L2Frames)
  BY <1>1, <1>2, HeadTailProperties
<1>4. L2Received(view[c], Head(out[c])) \in Books \cup {NoBook}
  <2>1. PICK f, b : f = Head(out[c]) /\ b = view[c]
    OBVIOUS
  <2>2. f \in L2Frames /\ b \in Books \cup {NoBook}
    BY <1>2, <1>3, <2>1
  <2>3. CASE f.kind = "update" /\ b # NoBook
    <3>1. f.levels \in Diffs /\ b \in Books
      BY <2>2, <2>3 DEF L2Frames
    <3>2. PICK T \in SUBSET Levels : f.levels \in [T -> 0..MaxSize]
      BY <3>1 DEF Diffs
    <3>3. Applied(f.levels, b) \in Books
      BY <3>1, <3>2 DEF Applied, Books
    <3> QED
      BY <2>1, <2>3, <3>3 DEF L2Received
  <2>4. CASE ~(f.kind = "update" /\ b # NoBook)
    BY <2>1, <2>2, <2>4 DEF L2Received, L2Frames
  <2> QED
    BY <2>3, <2>4
<1>5. L2Types'
  BY <1>1, <1>2, <1>3, <1>4 DEF L2Inv, L2Types
<1>6. ASSUME NEW d \in Viewers, L2Served(d)' PROVE UpToDate(out[d], view[d], baseline)'
  <2>1. L2Served(d) /\ UpToDate(out[d], view[d], baseline)
    BY <1>1, <1>6 DEF L2Served, L2Inv
  <2>2. CASE d = c
    <3>1. UpToDate(Tail(out[c]), L2Received(view[c], Head(out[c])), baseline)
      BY <1>1, <1>2, <2>1, <2>2, FrameOff
    <3> QED
      BY <1>1, <1>2, <2>2, <3>1
  <2>3. CASE d # c
    BY <1>1, <1>2, <2>1, <2>3
  <2> QED
    BY <2>2, <2>3
<1> QED
  BY <1>1, <1>5, <1>6 DEF L2Inv, L2Served

\* A step that sends nothing and changes no book a served client has.
LEMMA TellsStay ==
  ASSUME L2Inv, L2Types', baseline' = baseline,
         \A c \in Viewers : L2Served(c)' => /\ L2Served(c) /\ UNCHANGED <<out[c], view[c]>>
  PROVE  L2Inv'
<1>1. ASSUME NEW c \in Viewers, L2Served(c)' PROVE baseline' # NoBook /\ UpToDate(out[c], view[c], baseline)'
  BY <1>1 DEF L2Inv
<1> QED
  BY <1>1 DEF L2Inv

\* level2diff.go and ws.go, the level2 channel: for any number of connections
\* and levels and any length of the queues, a subscriber that is still served
\* has, with the frames queued for it, exactly the baseline.
THEOREM Level2MissesNone == L2Spec => []NoChangeMissed
<1>1. L2Init => L2Inv
  <2> SUFFICES ASSUME L2Init PROVE L2Inv
    OBVIOUS
  <2>1. <<>> \in Seq(L2Frames)
    BY EmptySeq
  <2>2. L2Types
    BY <2>1, FeedAssumption DEF L2Init, FeedInit, L2Types, FeedAssumption, Books
  <2> QED
    BY <2>2 DEF L2Init, L2Inv, L2Served
<1>2. L2Inv /\ [L2Next]_level2Vars => L2Inv'
  <2> SUFFICES ASSUME L2Inv, [L2Next]_level2Vars PROVE L2Inv'
    OBVIOUS
  <2>1. L2Types
    BY DEF L2Inv
  <2>2. ASSUME NEW l \in Levels, NEW size \in 0..MaxSize, L2BookMoves(l, size) PROVE L2Inv'
    <3>1. levels' \in Books /\ UNCHANGED <<baseline, snap, out, closed, view, followers, reading, cut>>
      BY <2>1, <2>2 DEF L2BookMoves, LevelChanges, L2Types, Books
    <3>2. L2Types'
      BY <2>1, <3>1 DEF L2Types
    <3> QED
      BY <3>1, <3>2, TellsStay DEF L2Served
  <2>3. CASE L2Tick
    <3>1. snap' = levels /\ UNCHANGED <<levels, baseline, out, closed, view, followers, reading, cut>>
      BY <2>3 DEF L2Tick, TakeSnapshot, l2Vars
    <3>2. L2Types'
      BY <2>1, <3>1 DEF L2Types
    <3> QED
      BY <3>1, <3>2, TellsStay DEF L2Served
  <2>4. ASSUME NEW c \in Viewers, Subscribe(c) PROVE L2Inv'
    <3>1. reading' = [reading EXCEPT ![c] = levels]
          /\ UNCHANGED <<levels, baseline, snap, out, closed, view, followers, cut>>
      BY <2>4 DEF Subscribe, feedVars
    <3>2. L2Types'
      BY <2>1, <3>1 DEF L2Types
    <3> QED
      BY <3>1, <3>2, TellsStay DEF L2Served
  <2>5. ASSUME NEW c \in Viewers, Unsubscribe(c) PROVE L2Inv'
    <3>1. /\ followers' = followers \ {c} /\ view' = [view EXCEPT ![c] = NoBook]
          /\ UNCHANGED <<levels, baseline, snap, out, closed, reading, cut>>
      BY <2>5 DEF Unsubscribe
    <3>2. L2Types'
      BY <2>1, <3>1 DEF L2Types
    <3>3. \A d \in Viewers : d # c => view'[d] = view[d]
      BY <2>1, <3>1 DEF L2Types
    <3> QED
      BY <3>1, <3>2, <3>3, TellsStay DEF L2Served
  <2>6. ASSUME NEW c \in Viewers, L2Leave(c) PROVE L2Inv'
    <3>1. /\ closed' = [closed EXCEPT ![c] = TRUE]
          /\ UNCHANGED <<levels, baseline, snap, out, view, followers, reading, cut>>
      BY <2>6 DEF L2Leave, Hangup, l2Vars
    <3>2. L2Types'
      <4>1. closed' = [d \in Viewers |-> closed'[d]]
        BY <2>1, <3>1 DEF L2Types
      <4> QED
        BY <2>1, <3>1, <4>1 DEF L2Types
    <3>3. \A d \in Viewers : closed[d] => closed'[d]
      BY <2>1, <3>1 DEF L2Types
    <3> QED
      BY <3>1, <3>2, <3>3, TellsStay DEF L2Served
  <2>7. ASSUME NEW c \in Viewers, L2Return(c) PROVE L2Inv'
    <3>1. /\ closed' = [closed EXCEPT ![c] = FALSE] /\ out' = [out EXCEPT ![c] = <<>>]
          /\ view' = [view EXCEPT ![c] = NoBook]
          /\ followers' = followers \ {c} /\ cut' = cut \ {c}
          /\ UNCHANGED <<levels, baseline, snap, reading>>
      BY <2>7 DEF L2Return, Redial
    <3>2. L2Types'
      <4>1. closed' = [d \in Viewers |-> closed'[d]]
        BY <2>1, <3>1 DEF L2Types
      <4>2. <<>> \in Seq(L2Frames)
        BY EmptySeq
      <4> QED
        BY <2>1, <3>1, <4>1, <4>2 DEF L2Types
    <3>3. \A d \in Viewers : d # c => closed'[d] = closed[d] /\ out'[d] = out[d] /\ view'[d] = view[d]
      BY <2>1, <3>1 DEF L2Types
    <3> QED
      BY <3>1, <3>2, <3>3, TellsStay DEF L2Served
  <2>8. CASE UNCHANGED level2Vars
    <3>1. UNCHANGED <<levels, baseline, snap, out, closed, view, followers, reading, cut>>
      BY <2>8 DEF level2Vars, feedVars, l2Vars
    <3> QED
      BY <3>1 DEF L2Inv, L2Types, L2Served
  <2> QED
    BY <2>2, <2>3, <2>4, <2>5, <2>6, <2>7, <2>8, FeedAssumption, PushTells, EnlistTells, PumpTells DEF L2Next
<1>3. L2Inv => NoChangeMissed
  <2> SUFFICES ASSUME L2Inv, NEW c \in Viewers, L2Served(c)
               PROVE  /\ view[c] # NoBook \/ \E i \in DOMAIN out[c] : out[c][i].kind = "snapshot"
                      /\ \A l \in Levels :
                           (IF LastWord(c, l) = 0 THEN view[c] ELSE out[c][LastWord(c, l)].levels)[l] = baseline[l]
    BY DEF NoChangeMissed
  <2>1. DOMAIN out[c] = 1..Len(out[c]) /\ Len(out[c]) \in Nat
    BY LenProperties DEF L2Inv, L2Types
  <2>2. UpToDate(out[c], view[c], baseline)
    BY DEF L2Inv
  <2>3. ASSUME NEW l \in Levels
        PROVE  (IF LastWord(c, l) = 0 THEN view[c] ELSE out[c][LastWord(c, l)].levels)[l] = baseline[l]
    <3>1. LastWord(c, l) = LastOf(Telling(out[c], l)) /\ Telling(out[c], l) \in SUBSET (Nat \ {0})
      BY <2>1 DEF LastWord, Telling
    <3>2. Says(out[c], Telling(out[c], l), view[c], l, baseline[l])
      BY <2>2 DEF UpToDate
    <3> QED
      BY <3>1, <3>2, SaysLast
  <2> QED
    BY <2>1, <2>2, <2>3 DEF UpToDate
<1> QED
  BY <1>1, <1>2, <1>3, PTL DEF L2Spec

-----------------------------------------------------------------------------
(* The diff-depth stream's books.                                            *)

\* All a client has still to apply: what it has kept, and what comes to it.
Flow(c) == kept[c] \o Coming(c)

\* The events of q that tell of l to a client whose snapshot has the id a.
Naming(q, a, l) == {i \in 1..Len(q) : q[i].id > a /\ l \in DOMAIN q[i].levels}

DeltaTypes ==
    /\ baseline \in Books \cup {NoBook}
    /\ at \in [Viewers -> Nat]
    /\ view \in [Viewers -> Books \cup {NoBook}]
    /\ kept \in [Viewers -> Seq(DiffEvents)]
    /\ since \in [Viewers -> SUBSET Levels]

\* Once a client has the id of its snapshot, what a diff has named since has,
\* after all it has still to apply, the quantity of the baseline.
InStep(c) == at[c] # NoID =>
    /\ at[c] =< lastID
    /\ since[c] # {} => baseline # NoBook
    /\ \A l \in since[c] : Says(Flow(c), Naming(Flow(c), at[c], l), view[c], l, baseline[l])

\* A client asks for the snapshot when it is connected, has a book only after
\* that, and from then on applies what it gets at once.
DeltaInv ==
    /\ DiffInv /\ DeltaTypes
    /\ \A c \in Viewers : c \notin Subscribers => at[c] = NoID
    /\ \A c \in Viewers : at[c] = NoID => view[c] = NoBook
    /\ \A c \in Viewers : view[c] # NoBook => kept[c] = <<>>
    /\ \A c \in Served : InStep(c)

\* A finite stretch of places has a last one.
LEMMA HasLast ==
  ASSUME NEW n \in Nat, NEW C \in SUBSET (1..n), C # {}
  PROVE  \E i \in C : \A j \in C : j =< i
<1> DEFINE T == {n - i : i \in C}
<1>1. T \in SUBSET Nat /\ T # {}
  <2>1. \A i \in C : n - i \in Nat
    OBVIOUS
  <2> QED
    BY <2>1
<1>2. IsWellFoundedOn(OpToRel(<, Nat), Nat)
  BY NatLessThanWellFounded
<1>3. PICK t \in T : \A u \in T : ~(<<u, t>> \in OpToRel(<, Nat))
  BY <1>1, <1>2, WFMin
<1>4. PICK i \in C : t = n - i
  OBVIOUS
<1>5. ASSUME NEW j \in C PROVE j =< i
  <2>1. PICK u : u = n - j
    OBVIOUS
  <2>2. u \in Nat /\ t \in Nat /\ ~(<<u, t>> \in OpToRel(<, Nat))
    BY <1>1, <1>3, <2>1
  <2>3. ~(u < t)
    BY <2>2 DEF OpToRel
  <2> QED
    BY <1>4, <2>1, <2>3
<1> QED
  BY <1>5

\* What is still to apply is a sequence of events.
LEMMA FlowSeq ==
  ASSUME DepthTypes, DeltaTypes, NEW c \in Viewers
  PROVE  /\ kept[c] \in Seq(DiffEvents) /\ Coming(c) \in Seq(DiffEvents) /\ Flow(c) \in Seq(DiffEvents)
         /\ kept[c] = <<>> => Flow(c) = Coming(c)
<1>1. kept[c] \in Seq(DiffEvents) /\ Coming(c) \in Seq(DiffEvents)
  BY ComingSeq DEF DeltaTypes
<1> QED
  BY <1>1, ConcatProperties, ConcatEmptySeq DEF Flow

\* A client that has still the same to apply to the same book is in step still.
LEMMA InStepStays ==
  ASSUME NEW c \in Viewers, InStep(c), UNCHANGED <<baseline, lastID>>,
         UNCHANGED <<at[c], view[c], since[c]>>, Flow(c)' = Flow(c)
  PROVE  InStep(c)'
BY DEF InStep, Says, Naming

\* The first part of the frames goes into a book: the rest has the last word on
\* what it names, the book on the other levels.
LEMMA SaysRest ==
  ASSUME NEW S, NEW p \in Seq(S), NEW q \in Seq(S), NEW C \in SUBSET (1..(Len(p) + Len(q))),
         NEW l, NEW n, Says(p \o q, C, NoBook, l, n),
         NEW P, P = C \cap 1..Len(p),
         NEW D, D = {i \in 1..Len(q) : Len(p) + i \in C},
         NEW d, d # NoBook, LastOf(P) # 0 => d[l] = p[LastOf(P)].levels[l]
  PROVE  Says(q, D, d, l, n)
<1>1. PICK r \in Seq(S) : r = p \o q
  BY ConcatProperties
<1>2. Len(p) \in Nat /\ Len(q) \in Nat /\ \A i \in 1..(Len(p) + Len(q)) : r[i] = IF i =< Len(p) THEN p[i] ELSE q[i - Len(p)]
  BY <1>1, ConcatProperties, LenProperties
<1>3. CASE C = {}
  BY <1>3 DEF Says
<1>4. CASE C # {}
  <2>1. PICK i \in C : (\A j \in C : j =< i) /\ r[i].levels[l] = n
    BY <1>1, <1>4 DEF Says
  <2>2. CASE i =< Len(p)
    <3>1. D = {}
      BY <1>2, <2>1, <2>2
    <3>2. i \in P /\ \A j \in P : j =< i
      BY <1>2, <2>1, <2>2
    <3>3. P \in SUBSET (Nat \ {0})
      BY <1>2
    <3>4. LastOf(P) = i /\ i # 0
      BY <3>2, <3>3, LastPlace
    <3>5. d[l] = n
      BY <1>2, <2>1, <2>2, <3>4
    <3> QED
      BY <3>1, <3>5 DEF Says
  <2>3. CASE i > Len(p)
    <3>1. i - Len(p) \in 1..Len(q) /\ Len(p) + (i - Len(p)) = i
      BY <1>2, <2>1, <2>3
    <3>2. i - Len(p) \in D /\ q[i - Len(p)].levels[l] = n
      BY <1>2, <2>1, <2>3, <3>1
    <3>3. \A j \in D : j =< i - Len(p)
      BY <1>2, <2>1
    <3> QED
      BY <3>2, <3>3 DEF Says
  <2> QED
    BY <1>2, <2>1, <2>2, <2>3
<1> QED
  BY <1>3, <1>4

\* TakeDiff: the levels the diff names wait in the new event, which is later
\* than any snapshot asked for; on the others the baseline does not change.
LEMMA TakeDiffInStep == ASSUME DeltaInv, DiffInv', FeedAssumption, TakeDiff PROVE DeltaInv'
<1>1. /\ snap \in Books /\ snap # NoBook /\ baseline' = snap
      /\ UNCHANGED <<view, at, kept, subs>>
  BY DEF TakeDiff, DeltaInv, DiffInv, DepthTypes
<1>2. PICK diff : /\ diff = Diff(Seeded(snap), snap)
                  /\ lastID' = NextID(diff)
                  /\ event' = IF diff = <<>> THEN <<>> ELSE Event(lastID', diff)
                  /\ since' = [c \in Viewers |-> since[c] \cup DOMAIN diff]
  BY DEF TakeDiff
<1>3. Seeded(snap) \in Books
  BY <1>1 DEF Seeded, DeltaInv, DeltaTypes
<1>4. DOMAIN diff \in SUBSET Levels
  BY <1>2 DEF Diff
<1>5. \A l \in Levels : IF l \in DOMAIN diff THEN diff[l] = snap[l] ELSE Seeded(snap)[l] = snap[l]
  BY <1>1, <1>2, <1>3, DiffNames
<1>6. DeltaTypes'
  BY <1>1, <1>2, <1>4 DEF DeltaInv, DeltaTypes
<1>7. Subscribers' = Subscribers
  BY <1>1 DEF Subscribers
<1>8. DepthTypes /\ DepthTypes' /\ DeltaTypes
  BY DEF DeltaInv, DiffInv
<1>9. ASSUME NEW c \in Served' PROVE InStep(c)'
  <2>1. SUFFICES ASSUME at[c] # NoID
                 PROVE  /\ at[c] =< lastID'
                        /\ baseline' # NoBook
                        /\ \A l \in since'[c] : Says(Flow(c)', Naming(Flow(c)', at[c], l), view[c], l, snap[l])
    BY <1>1 DEF InStep, NoID
  <2>2. /\ c \in Served /\ c \in Viewers
        /\ event' = <<>> => Coming(c)' = Coming(c)
        /\ event' # <<>> => event' \in DiffEvents /\ Coming(c)' = Append(Coming(c), event')
    BY <1>8, DiffComing DEF DeltaInv
  <2>3. /\ at[c] \in Nat /\ lastID \in Nat /\ at[c] =< lastID
        /\ since[c] # {} => baseline # NoBook
        /\ \A l \in since[c] : Says(Flow(c), Naming(Flow(c), at[c], l), view[c], l, baseline[l])
    BY <1>8, <2>1, <2>2 DEF DeltaInv, InStep, DeltaTypes, DepthTypes
  <2>4. \A l \in since[c] : l \in Levels /\ Seeded(snap) = baseline
    BY <1>8, <2>2, <2>3 DEF Seeded, DeltaTypes
  <2>5. CASE diff = <<>>
    <3>1. DOMAIN diff = {} /\ lastID' = lastID /\ event' = <<>>
      BY <1>2, <2>5, EmptySeq, LenProperties DEF NextID
    <3>2. Flow(c)' = Flow(c)
      BY <1>1, <2>2, <3>1 DEF Flow
    <3>3. since'[c] = since[c] /\ \A l \in since[c] : snap[l] = baseline[l]
      BY <1>2, <1>5, <2>2, <2>4, <3>1
    <3> QED
      BY <1>1, <2>3, <3>1, <3>2, <3>3
  <2>6. CASE diff # <<>>
    <3>1. PICK e, n : e = event' /\ n = lastID
      OBVIOUS
    <3>2. e.id = n + 1 /\ e.levels = diff /\ lastID' = n + 1
      BY <1>2, <2>6, <3>1 DEF NextID, Event
    <3>3. e \in DiffEvents /\ Coming(c)' = Append(Coming(c), e)
      <4>1. event' # <<>>
        <5>1. Event(lastID', diff) # <<>>
          <6>1. DOMAIN <<>> = {} /\ "id" \in DOMAIN Event(lastID', diff)
            BY EmptySeq, LenProperties DEF Event
          <6> QED
            BY <6>1
        <5> QED
          BY <1>2, <2>6, <5>1
      <4> QED
        BY <2>2, <3>1, <4>1
    <3>4. PICK q \in Seq(DiffEvents) : q = Flow(c) /\ Flow(c)' = Append(q, e)
      <4>1. PICK k, t \in Seq(DiffEvents) : k = kept[c] /\ t = Coming(c)
        BY <1>8, <2>2, FlowSeq
      <4>2. Flow(c)' = k \o (t \o <<e>>) /\ Flow(c) = k \o t
        BY <1>1, <2>2, <3>3, <4>1, AppendIsConcat DEF Flow
      <4>3. k \o (t \o <<e>>) = (k \o t) \o <<e>> /\ k \o t \in Seq(DiffEvents)
        <5>1. PICK u \in Seq(DiffEvents) : u = <<e>>
          <6>1. <<e>> \in Seq(DiffEvents)
            BY <3>3
          <6> QED
            BY <6>1
        <5>2. k \o (t \o u) = (k \o t) \o u
          BY ONLY k \in Seq(DiffEvents), t \in Seq(DiffEvents), u \in Seq(DiffEvents), ConcatAssociative
        <5>3. k \o t \in Seq(DiffEvents)
          BY <4>1, ConcatProperties
        <5> QED
          BY <5>1, <5>2, <5>3
      <4> QED
        BY <3>3, <4>2, <4>3, AppendIsConcat
    <3>5. PICK r \in Seq(DiffEvents) : r = Append(q, e)
      BY <3>3, AppendProperties
    <3>6. Len(q) \in Nat /\ Len(r) = Len(q) + 1 /\ r[Len(q) + 1] = e /\ \A i \in 1..Len(q) : r[i] = q[i]
      BY <3>3, <3>5, AppendProperties, LenProperties
    <3>7. ASSUME NEW l \in since'[c] PROVE Says(r, Naming(r, at[c], l), view[c], l, snap[l])
      <4>1. l \in Levels /\ (l \in since[c] \/ l \in DOMAIN diff)
        BY <1>2, <1>4, <2>2, <2>4
      <4>2. Naming(q, at[c], l) \in SUBSET (1..Len(q))
        BY DEF Naming
      <4>3. CASE l \in DOMAIN diff
        <5>1. Naming(r, at[c], l) = Naming(q, at[c], l) \cup {Len(q) + 1}
          <6>1. e.id > at[c] /\ l \in DOMAIN e.levels
            BY <2>3, <3>1, <3>2, <4>3
          <6> QED
            BY <3>6, <6>1 DEF Naming
        <5>2. PICK m : m = snap[l] /\ e.levels[l] = m
          BY <1>5, <3>2, <4>1, <4>3
        <5>3. Says(Append(q, e), Naming(q, at[c], l) \cup {Len(q) + 1}, view[c], l, m)
          BY <3>3, <4>2, <5>2, SaysOn
        <5> QED
          BY <3>5, <5>1, <5>2, <5>3
      <4>4. CASE l \notin DOMAIN diff
        <5>1. Naming(r, at[c], l) = Naming(q, at[c], l)
          BY <3>2, <3>6, <4>4 DEF Naming
        <5>2. baseline[l] = snap[l]
          BY <1>5, <2>4, <4>1, <4>4
        <5>3. Says(q, Naming(q, at[c], l), view[c], l, snap[l])
          BY <2>3, <3>4, <4>1, <4>4, <5>2
        <5> QED
          BY <3>3, <3>5, <4>2, <5>1, <5>3, SaysOn
      <4> QED
        BY <4>3, <4>4
    <3>8. at[c] =< lastID'
      BY <2>3, <3>1, <3>2
    <3> QED
      BY <1>1, <3>4, <3>5, <3>7, <3>8
  <2> QED
    BY <2>5, <2>6
<1> QED
  BY <1>1, <1>6, <1>7, <1>9 DEF DeltaInv, NoID

\* The first of p handed over to k: together they are the same.
LEMMA FirstMoves ==
  ASSUME NEW S, NEW k \in Seq(S), NEW p \in Seq(S), p # <<>>
  PROVE  Append(k, Head(p)) \o Tail(p) = k \o p
<1>1. PICK a, r : a = Append(k, Head(p)) /\ r = Tail(p)
  OBVIOUS
<1>2. /\ a \in Seq(S) /\ Len(a) = Len(k) + 1 /\ a[Len(k) + 1] = p[1] /\ \A i \in 1..Len(k) : a[i] = k[i]
      /\ Len(k) \in Nat
  BY <1>1, HeadTailProperties, AppendProperties, LenProperties
<1>3. /\ r \in Seq(S) /\ Len(p) \in Nat \ {0} /\ Len(r) = Len(p) - 1 /\ \A i \in 1..Len(r) : r[i] = p[i + 1]
  BY <1>1, HeadTailProperties, EmptySeq
<1>4. PICK x, y : x = a \o r /\ y = k \o p
  OBVIOUS
<1>5. /\ x \in Seq(S) /\ Len(x) = Len(k) + Len(p)
      /\ \A i \in 1..(Len(a) + Len(r)) : x[i] = IF i =< Len(a) THEN a[i] ELSE r[i - Len(a)]
  <2>1. /\ x \in Seq(S) /\ Len(x) = Len(a) + Len(r)
        /\ \A i \in 1..(Len(a) + Len(r)) : x[i] = IF i =< Len(a) THEN a[i] ELSE r[i - Len(a)]
    <3>1. a \in Seq(S) /\ r \in Seq(S) /\ x = a \o r
      BY <1>2, <1>3, <1>4
    <3> QED
      BY ONLY <3>1, ConcatProperties
  <2>2. Len(a) + Len(r) = Len(k) + Len(p)
    BY <1>2, <1>3
  <2> QED
    BY <2>1, <2>2
<1>6. /\ y \in Seq(S) /\ Len(y) = Len(k) + Len(p)
      /\ \A i \in 1..(Len(k) + Len(p)) : y[i] = IF i =< Len(k) THEN k[i] ELSE p[i - Len(k)]
  BY <1>4, ConcatProperties
<1>7. ASSUME NEW i \in 1..Len(x) PROVE x[i] = y[i]
  <2>0. i \in 1..(Len(a) + Len(r)) /\ i \in 1..(Len(k) + Len(p))
    BY <1>2, <1>3, <1>5
  <2>1. CASE i =< Len(k)
    <3>1. i \in 1..Len(k) /\ i =< Len(a)
      BY <1>2, <2>0, <2>1
    <3>2. x[i] = a[i] /\ y[i] = k[i]
      BY <1>5, <1>6, <2>0, <2>1, <3>1
    <3> QED
      BY <1>2, <3>1, <3>2
  <2>2. CASE i = Len(k) + 1
    BY <1>2, <1>5, <1>6, <2>0, <2>2
  <2>3. CASE i > Len(k) + 1
    <3>1. x[i] = r[i - Len(a)] /\ y[i] = p[i - Len(k)]
      BY <1>2, <1>5, <1>6, <2>0, <2>3
    <3>2. i - Len(a) \in 1..Len(r) /\ (i - Len(a)) + 1 = i - Len(k)
      BY <1>2, <1>3, <2>0, <2>3
    <3> QED
      BY <1>3, <3>1, <3>2
  <2> QED
    BY <1>2, <2>0, <2>1, <2>2, <2>3
<1>8. x = y
  BY <1>5, <1>6, <1>7, SeqEqual
<1> QED
  BY <1>1, <1>4, <1>8

\* ReadBook: what was kept goes into the snapshot, and the rest is coming.
LEMMA ReadBookInStep ==
  ASSUME DeltaInv, DiffInv', FeedAssumption, NEW c \in Viewers, ReadBook(c) PROVE DeltaInv'
<1>1. /\ at[c] # NoID /\ view[c] = NoBook
      /\ kept' = [kept EXCEPT ![c] = <<>>]
      /\ UNCHANGED <<levels, baseline, out, closed, lastID, subs, name, event, at, since, split>>
  BY DEF ReadBook
<1>2. PICK V : V = AllReceived(c, levels, kept[c]) /\ view' = [view EXCEPT ![c] = V]
  BY DEF ReadBook
<1>3. DepthTypes /\ DeltaTypes
  BY DEF DeltaInv, DiffInv
<1>4. PICK k, t \in Seq(DiffEvents) : k = kept[c] /\ t = Coming(c) /\ Flow(c) = k \o t
  BY <1>3, FlowSeq DEF Flow
<1>5. Len(k) \in Nat /\ Len(t) \in Nat /\ DOMAIN k = 1..Len(k)
  BY LenProperties
<1>6. \A l \in Levels : V[l] = IF LastOf(Naming(k, at[c], l)) = 0 THEN levels[l]
                               ELSE k[LastOf(Naming(k, at[c], l))].levels[l]
  BY <1>2, <1>4, <1>5 DEF AllReceived, LastNamed, Naming
<1>7. ASSUME NEW l \in Levels PROVE V[l] \in 0..MaxSize
  <2>1. PICK C : C = Naming(k, at[c], l)
    OBVIOUS
  <2>2. C \in SUBSET (1..Len(k)) /\ \A i \in C : l \in DOMAIN k[i].levels
    BY <2>1 DEF Naming
  <2>3. C \in SUBSET (Nat \ {0})
    BY <1>5, <2>2
  <2>4. CASE C = {}
    <3>1. V[l] = levels[l]
      BY <1>6, <1>7, <2>1, <2>3, <2>4, LastPlace
    <3> QED
      BY <1>3, <3>1 DEF DepthTypes, Books
  <2>5. CASE C # {}
    <3>1. PICK i \in C : \A j \in C : j =< i
      BY <1>5, <2>2, <2>5, HasLast
    <3>2. LastOf(C) = i /\ i # 0
      BY <2>3, <3>1, LastPlace
    <3>3. V[l] = k[i].levels[l] /\ l \in DOMAIN k[i].levels /\ k[i] \in DiffEvents
      BY <1>6, <1>7, <2>1, <2>2, <3>1, <3>2, ElementOfSeq
    <3>4. k[i].levels \in Diffs
      BY <3>3 DEF DiffEvents
    <3>5. PICK T \in SUBSET Levels : k[i].levels \in [T -> 0..MaxSize]
      BY <3>4 DEF Diffs
    <3> QED
      BY <3>3, <3>5
  <2> QED
    BY <2>4, <2>5
<1>8. V \in Books /\ V # NoBook
  <2>1. V = [l \in Levels |-> V[l]]
    BY <1>2 DEF AllReceived
  <2>2. V \in [Levels -> 0..MaxSize]
    BY <1>7, <2>1
  <2> QED
    BY <2>2 DEF Books, FeedAssumption
<1>9. DeltaTypes'
  BY <1>1, <1>2, <1>3, <1>8, EmptySeq DEF DeltaTypes
<1>10. Subscribers' = Subscribers /\ Served' = Served /\ Served \subseteq Viewers
  BY <1>1, <1>3 DEF Subscribers, Served, DepthTypes
<1>11. \A d \in Viewers : Coming(d)' = Coming(d)
  BY <1>1 DEF Coming
<1>12. ASSUME NEW d \in Served PROVE InStep(d)'
  <2>1. d \in Viewers /\ InStep(d) /\ Coming(d)' = Coming(d)
    BY <1>10, <1>11 DEF DeltaInv
  <2>2. CASE d # c
    <3>1. UNCHANGED <<view[d], at[d], since[d], kept[d]>>
      BY <1>1, <1>2, <1>3, <2>1, <2>2 DEF DeltaTypes
    <3>2. Flow(d)' = Flow(d)
      BY <2>1, <3>1 DEF Flow
    <3> QED
      BY <1>1, <2>1, <3>1, <3>2, InStepStays
  <2>3. CASE d = c
    <3>1. kept'[c] = <<>> /\ view'[c] = V
      BY <1>1, <1>2, <1>3 DEF DeltaTypes
    <3>2. Flow(c)' = t
      BY <1>4, <2>1, <2>3, <3>1, ConcatEmptySeq DEF Flow
    <3>3. ASSUME NEW l \in since[c] PROVE Says(t, Naming(t, at[c], l), V, l, baseline[l])
      <4>1. l \in Levels
        BY <1>3 DEF DeltaTypes
      <4>2. PICK f \in Seq(DiffEvents) : f = k \o t
        BY ConcatProperties
      <4>3. /\ Len(f) = Len(k) + Len(t)
            /\ \A i \in 1..(Len(k) + Len(t)) : f[i] = IF i =< Len(k) THEN k[i] ELSE t[i - Len(k)]
        BY <4>2, ConcatProperties
      <4>4. PICK C : C = Naming(f, at[c], l)
        OBVIOUS
      <4>5. C \in SUBSET (1..(Len(k) + Len(t)))
        BY <4>3, <4>4 DEF Naming
      <4>6. Says(f, C, NoBook, l, baseline[l])
        BY <1>1, <1>4, <2>1, <2>3, <4>2, <4>4 DEF InStep
      <4>7. Naming(k, at[c], l) = C \cap 1..Len(k)
        BY <1>5, <4>3, <4>4 DEF Naming
      <4>8. Naming(t, at[c], l) = {i \in 1..Len(t) : Len(k) + i \in C}
        <5>1. ASSUME NEW i \in 1..Len(t) PROVE Len(k) + i \in 1..(Len(k) + Len(t)) /\ f[Len(k) + i] = t[i]
          <6>1. Len(k) + i \in 1..(Len(k) + Len(t)) /\ ~(Len(k) + i =< Len(k)) /\ (Len(k) + i) - Len(k) = i
            BY <1>5
          <6> QED
            BY <4>3, <6>1
        <5> QED
          BY <4>3, <4>4, <5>1 DEF Naming
      <4>9. LastOf(C \cap 1..Len(k)) # 0 => V[l] = k[LastOf(C \cap 1..Len(k))].levels[l]
        BY <1>6, <4>1, <4>7
      <4> QED
        BY <1>8, <4>2, <4>5, <4>6, <4>8, <4>9, SaysRest
    <3> QED
      BY <1>1, <2>1, <2>3, <3>1, <3>2, <3>3 DEF InStep, NoID
  <2> QED
    BY <2>2, <2>3
<1>13. \A d \in Viewers : /\ d \notin Subscribers' => at'[d] = NoID'
                          /\ at'[d] = NoID' => view'[d] = NoBook
                          /\ view'[d] # NoBook => kept'[d] = <<>>
  BY <1>1, <1>2, <1>3, <1>10 DEF DeltaInv, DeltaTypes, NoID
<1> QED
  BY <1>9, <1>10, <1>12, <1>13 DEF DeltaInv

\* DiffWrite: an event moves from the queue to what is kept, or into the book.
LEMMA WriteInStep ==
  ASSUME DeltaInv, DiffInv', FeedAssumption, NEW c \in Viewers, DiffWrite(c) PROVE DeltaInv'
<1>1. /\ out[c] # <<>> /\ out' = [out EXCEPT ![c] = Tail(out[c])]
      /\ UNCHANGED <<levels, baseline, closed, lastID, subs, name, event, at, since, split>>
  BY DEF DiffWrite
<1>2. DepthTypes /\ DepthTypes' /\ DeltaTypes
  BY DEF DeltaInv, DiffInv
<1>3. PICK e : e = Head(out[c])
  OBVIOUS
<1>4. IF view[c] = NoBook
      THEN kept' = [kept EXCEPT ![c] = Append(kept[c], e)] /\ view' = view
      ELSE view' = [view EXCEPT ![c] = DiffReceived(c, view[c], e)] /\ kept' = kept
  BY <1>3 DEF DiffWrite
<1>5. e \in DiffEvents
  BY <1>1, <1>2, <1>3, HeadTailProperties DEF DepthTypes
<1>6. view[c] # NoBook => DiffReceived(c, view[c], e) \in Books /\ DiffReceived(c, view[c], e) # NoBook
  <2>1. SUFFICES ASSUME view[c] # NoBook PROVE DiffReceived(c, view[c], e) \in Books
    BY DEF FeedAssumption, Books
  <2>2. PICK b \in Books : b = view[c]
    BY <1>2, <2>1 DEF DeltaTypes
  <2>3. e.levels \in Diffs
    BY <1>5 DEF DiffEvents
  <2>4. PICK T \in SUBSET Levels : e.levels \in [T -> 0..MaxSize]
    BY <2>3 DEF Diffs
  <2>5. Applied(e.levels, b) \in Books
    BY <2>2, <2>4 DEF Applied, Books
  <2> QED
    BY <2>2, <2>5 DEF DiffReceived
<1>7. DeltaTypes'
  <2>1. CASE view[c] = NoBook
    <3>1. Append(kept[c], e) \in Seq(DiffEvents)
      BY <1>2, <1>5, AppendProperties DEF DeltaTypes
    <3> QED
      BY <1>1, <1>2, <1>4, <2>1, <3>1 DEF DeltaTypes
  <2>2. CASE view[c] # NoBook
    BY <1>1, <1>2, <1>4, <1>6, <2>2 DEF DeltaTypes
  <2> QED
    BY <2>1, <2>2
<1>8. Subscribers' = Subscribers /\ Served' = Served /\ Served \subseteq Viewers
  BY <1>1, <1>2 DEF Subscribers, Served, DepthTypes
<1>9. out'[c] = Tail(out[c]) /\ \A d \in Viewers : d # c => UNCHANGED <<out[d], view[d], kept[d]>>
  BY <1>1, <1>2, <1>4 DEF DepthTypes, DeltaTypes
<1>10. ASSUME NEW d \in Served PROVE InStep(d)'
  <2>1. d \in Viewers /\ InStep(d)
    BY <1>8 DEF DeltaInv
  <2>2. CASE d # c
    <3>1. Coming(d)' = Coming(d)
      BY <1>1, <1>9, <2>1, <2>2, ComingStays
    <3>2. Flow(d)' = Flow(d)
      BY <1>9, <2>1, <2>2, <3>1 DEF Flow
    <3> QED
      BY <1>1, <1>9, <2>1, <2>2, <3>2, InStepStays
  <2>3. CASE d = c
    <3>1. PICK p \in Seq(DiffEvents) : p = Coming(c) /\ p # <<>> /\ Head(p) = e /\ Coming(c)' = Tail(p)
      BY <1>1, <1>2, <1>3, <1>9, ComingTail
    <3>2. CASE view[c] = NoBook
      <4>1. PICK k \in Seq(DiffEvents) : k = kept[c] /\ kept'[c] = Append(k, e) /\ view'[c] = view[c]
        BY <1>2, <1>4, <3>2 DEF DeltaTypes
      <4>2. Flow(c)' = Append(k, Head(p)) \o Tail(p) /\ Flow(c) = k \o p
        BY <3>1, <4>1 DEF Flow
      <4>3. Flow(c)' = Flow(c)
        BY <4>2, <3>1, FirstMoves
      <4> QED
        BY <1>1, <2>1, <2>3, <4>1, <4>3, InStepStays
    <3>3. CASE view[c] # NoBook
      <4>1. PICK b, v : b = view[c] /\ v = view'[c]
        OBVIOUS
      <4>2. /\ kept[c] = <<>> /\ kept'[c] = <<>> /\ v = DiffReceived(c, b, e) /\ v # NoBook
            /\ at[c] # NoID
        BY <1>2, <1>4, <1>6, <3>3, <4>1 DEF DeltaInv, DeltaTypes
      <4>3. Flow(c) = p /\ Flow(c)' = Tail(p)
        <5>1. Tail(p) \in Seq(DiffEvents) /\ Flow(c) = <<>> \o p /\ Flow(c)' = <<>> \o Tail(p)
          BY <3>1, <4>2, HeadTailProperties DEF Flow
        <5> QED
          BY <3>1, <5>1, ConcatEmptySeq
      <4>4. PICK r \in Seq(DiffEvents) : r = Tail(p)
        BY <3>1, HeadTailProperties
      <4>5. /\ Len(p) \in Nat \ {0} /\ Len(r) = Len(p) - 1 /\ p[1] = e
            /\ \A i \in 1..Len(r) : r[i] = p[i + 1]
        BY <3>1, <4>4, HeadTailProperties, EmptySeq
      <4>6. ASSUME NEW l \in since[c] PROVE Says(r, Naming(r, at[c], l), v, l, baseline[l])
        <5>1. PICK C, D : C = Naming(p, at[c], l) /\ D = Naming(r, at[c], l)
          OBVIOUS
        <5>2. Says(p, C, b, l, baseline[l]) /\ C \in SUBSET (1..Len(p)) /\ l \in Levels
          BY <1>2, <2>1, <2>3, <4>1, <4>2, <4>3, <5>1 DEF InStep, Naming, DeltaTypes
        <5>3. D = {i \in 1..Len(r) : i + 1 \in C}
          BY <4>5, <5>1 DEF Naming
        <5>4. 1 \in C <=> (e.id > at[c] /\ l \in DOMAIN e.levels)
          BY <4>5, <5>1 DEF Naming
        <5>5. 1 \in C => v[l] = p[1].levels[l]
          BY <4>2, <4>5, <5>2, <5>4 DEF DiffReceived, Applied
        <5>6. C = {} => v[l] = b[l]
          BY <4>2, <5>2, <5>4 DEF DiffReceived, Applied
        <5>7. PICK n : n = baseline[l]
          OBVIOUS
        <5>8. p \in Seq(DiffEvents) /\ p # <<>> /\ r = Tail(p) /\ v # NoBook
          BY <3>1, <4>2, <4>4
        <5>9. Says(p, C, b, l, n) /\ C \in SUBSET (1..Len(p)) /\ D = {i \in 1..Len(Tail(p)) : i + 1 \in C}
          BY <5>2, <5>3, <5>7, <5>8
        <5>10. Says(Tail(p), D, v, l, n)
          BY ONLY <5>5, <5>6, <5>8, <5>9, SaysTail
        <5> QED
          BY <5>1, <5>7, <5>8, <5>10
      <4> QED
        BY <1>1, <2>1, <2>3, <4>1, <4>3, <4>4, <4>6 DEF InStep, NoID
    <3> QED
      BY <3>2, <3>3
  <2> QED
    BY <2>2, <2>3
<1>11. \A d \in Viewers : /\ d \notin Subscribers' => at'[d] = NoID'
                          /\ at'[d] = NoID' => view'[d] = NoBook
                          /\ view'[d] # NoBook => kept'[d] = <<>>
  <2> TAKE d \in Viewers
  <2>1. /\ d \notin Subscribers => at[d] = NoID
        /\ at[d] = NoID => view[d] = NoBook
        /\ view[d] # NoBook => kept[d] = <<>>
    BY DEF DeltaInv
  <2>2. CASE d # c
    BY <1>1, <1>8, <1>9, <2>1, <2>2 DEF NoID
  <2>3. CASE d = c /\ view[c] = NoBook
    BY <1>1, <1>4, <1>8, <2>1, <2>3 DEF NoID
  <2>4. CASE d = c /\ view[c] # NoBook
    BY <1>1, <1>4, <1>8, <2>1, <2>4 DEF NoID
  <2> QED
    BY <2>2, <2>3, <2>4
<1> QED
  BY <1>7, <1>8, <1>10, <1>11 DEF DeltaInv

\* A step that moves neither the baseline nor an id keeps everybody in step
\* who has the same to apply to the same book.
LEMMA StaysInStep ==
  ASSUME DeltaInv, DiffInv', DeltaTypes', UNCHANGED <<baseline, lastID>>,
         \A c \in Viewers : /\ c \notin Subscribers' => at'[c] = NoID
                            /\ at'[c] = NoID => view'[c] = NoBook
                            /\ view'[c] # NoBook => kept'[c] = <<>>,
         \A c \in Served' : \/ InStep(c)'
                            \/ c \in Served /\ UNCHANGED <<at[c], view[c], since[c], kept[c], Coming(c)>>
  PROVE  DeltaInv'
<1>1. NoID' = NoID /\ Served' \subseteq Viewers
  BY DEF NoID, Served, Subscribers, DiffInv, DepthTypes
<1>2. ASSUME NEW c \in Served' PROVE InStep(c)'
  <2>1. CASE c \in Served /\ UNCHANGED <<at[c], view[c], since[c], kept[c], Coming(c)>>
    <3>1. InStep(c) /\ Flow(c)' = Flow(c)
      BY <2>1 DEF DeltaInv, Flow
    <3> QED
      BY <1>1, <1>2, <2>1, <3>1, InStepStays
  <2> QED
    BY <1>2, <2>1
<1> QED
  BY <1>1, <1>2 DEF DeltaInv

\* depthdiff.go, handleDepth and the client of the documented protocol: for any
\* number of connections, names and levels and any length of the queues, a
\* client that is served has, after the events that are coming, the quantity of
\* the baseline at every level a diff has named since its request read the id.
THEOREM DeltasAllKept == DiffSpec => []DeltasKept
<1>1. DiffInit => DeltaInv
  <2> SUFFICES ASSUME DiffInit PROVE DeltaInv
    OBVIOUS
  <2>1. /\ baseline = NoBook /\ subs = [s \in Streams |-> {}]
        /\ view = [c \in Viewers |-> NoBook] /\ at = [c \in Viewers |-> NoID]
        /\ kept = [c \in Viewers |-> <<>>] /\ since = [c \in Viewers |-> {}]
    BY DEF DiffInit, FeedInit
  <2>2. NoID \in Nat
    BY FeedAssumption DEF FeedAssumption, NoID
  <2>3. DeltaTypes
    BY <2>1, <2>2, EmptySeq DEF DeltaTypes
  <2>4. Served = {}
    BY <2>1 DEF Served, Subscribers
  <2> QED
    BY <2>1, <2>3, <2>4, DiffStarts DEF DeltaInv
<1>2. DeltaInv /\ [DiffNext]_diffDepthVars => DeltaInv'
  <2> SUFFICES ASSUME DeltaInv, [DiffNext]_diffDepthVars PROVE DeltaInv'
    OBVIOUS
  <2>1. DiffInv' /\ FeedAssumption
    BY DiffStep, FeedAssumption DEF DeltaInv
  <2>2. DepthTypes /\ DepthTypes' /\ DeltaTypes
    BY <2>1 DEF DeltaInv, DiffInv
  <2>3. \A c \in Viewers : /\ c \notin Subscribers => at[c] = NoID
                           /\ at[c] = NoID => view[c] = NoBook
                           /\ view[c] # NoBook => kept[c] = <<>>
    BY DEF DeltaInv
  <2>4. \A c \in Served' : c \in Viewers
    BY <2>2 DEF Served, Subscribers, DepthTypes
  <2>5. ASSUME UNCHANGED <<baseline, lastID, subs, out, event, at, view, since, kept, split>>,
               event # <<>> => name' = name,
               \A c \in Viewers : closed[c] => closed'[c]
        PROVE  DeltaInv'
    <3>1. Subscribers' = Subscribers /\ DeltaTypes'
      BY <2>2, <2>5 DEF Subscribers, DeltaTypes
    <3>2. \A c \in Served' : c \in Served /\ Coming(c)' = Coming(c)
      BY <2>4, <2>5, <3>1, ComingStays DEF Served
    <3> QED
      BY <2>1, <2>3, <2>5, <3>1, <3>2, StaysInStep
  <2>6. ASSUME NEW l \in Levels, NEW size \in 0..MaxSize, DiffBookMoves(l, size) PROVE DeltaInv'
    BY <2>5, <2>6 DEF DiffBookMoves, LevelChanges, diffVars
  <2>7. CASE DiffTick \/ \E s \in Streams : Skip(s)
    BY <2>5, <2>7 DEF DiffTick, Skip, feedVars
  <2>8. ASSUME NEW s \in Streams, VisitStream(s) PROVE DeltaInv'
    BY <2>5, <2>8 DEF VisitStream, TakeSnapshot
  <2>9. ASSUME NEW c \in Viewers, DiffLeave(c) PROVE DeltaInv'
    <3>1. /\ closed' = [closed EXCEPT ![c] = TRUE]
          /\ UNCHANGED <<baseline, lastID, subs, name, out, event, at, view, since, kept, split>>
      BY <2>9 DEF DiffLeave, Hangup, diffVars
    <3>2. \A d \in Viewers : closed[d] => closed'[d]
      BY <2>2, <3>1 DEF DepthTypes
    <3> QED
      BY <2>5, <3>1, <3>2
  <2>10. CASE UNCHANGED diffDepthVars
    BY <2>5, <2>10 DEF diffDepthVars, feedVars, diffVars
  <2>11. CASE Fanout
    <3>1. UNCHANGED <<baseline, view, lastID, subs, at, kept, since>>
      BY <2>11 DEF Fanout
    <3>2. Subscribers' = Subscribers /\ DeltaTypes'
      BY <2>2, <3>1 DEF Subscribers, DeltaTypes
    <3>3. \A c \in Served' : c \in Served /\ Coming(c)' = Coming(c)
      BY <2>2, <2>11, FanoutComing
    <3> QED
      BY <2>1, <2>3, <3>1, <3>2, <3>3, StaysInStep
  <2>12. ASSUME NEW c \in Viewers, NEW s \in Streams, OpenStream(c, s) PROVE DeltaInv'
    <3>1. /\ c \notin Subscribers /\ subs' = [subs EXCEPT ![s] = @ \cup {c}]
          /\ UNCHANGED <<baseline, view, lastID, at, kept, since, out, event, name, closed>>
          /\ ~ split' => ~ split
      BY <2>12 DEF OpenStream, feedVars
    <3>2. \A z \in Streams : subs'[z] = IF z = s THEN subs[z] \cup {c} ELSE subs[z]
      BY <2>2, <3>1 DEF DepthTypes
    <3>3. Subscribers' = Subscribers \cup {c} /\ DeltaTypes'
      <4>1. Subscribers' = Subscribers \cup {c}
        BY <3>2 DEF Subscribers
      <4>2. DeltaTypes'
        BY <2>2, <3>1 DEF DeltaTypes
      <4> QED
        BY <4>1, <4>2
    <3>4. ASSUME NEW d \in Served' PROVE InStep(d)' \/ (d \in Served /\ Coming(d)' = Coming(d))
      <4>1. CASE d = c
        BY <2>3, <3>1, <4>1 DEF InStep, NoID
      <4>2. CASE d # c
        <5>1. d \in Served
          BY <3>1, <3>3, <4>2 DEF Served
        <5>2. d \in subs[name] <=> d \in subs'[name']
          BY <2>2, <3>1, <3>2, <4>2 DEF DepthTypes
        <5> QED
          BY <2>4, <3>1, <5>1, <5>2, ComingStays
      <4> QED
        BY <4>1, <4>2
    <3> QED
      BY <2>1, <2>3, <3>1, <3>3, <3>4, StaysInStep
  <2>13. ASSUME NEW c \in Viewers, ReadID(c) PROVE DeltaInv'
    <3>1. /\ c \in Subscribers /\ at[c] = NoID
          /\ at' = [at EXCEPT ![c] = lastID] /\ since' = [since EXCEPT ![c] = {}]
          /\ UNCHANGED <<baseline, view, closed, out, lastID, subs, name, event, kept, split>>
      BY <2>13 DEF ReadID, feedVars, Current
    <3>2. Subscribers' = Subscribers /\ Served' = Served
      BY <3>1 DEF Subscribers, Served
    <3>3. DeltaTypes'
      BY <2>2, <3>1 DEF DeltaTypes, DepthTypes
    <3>4. at'[c] = lastID /\ since'[c] = {} /\ \A d \in Viewers : d # c => UNCHANGED <<at[d], since[d]>>
      BY <2>2, <3>1 DEF DeltaTypes
    <3>5. InStep(c)'
      BY <2>2, <3>1, <3>4 DEF InStep, DepthTypes
    <3>6. \A d \in Viewers : Coming(d)' = Coming(d)
      BY <3>1 DEF Coming
    <3> QED
      BY <2>1, <2>3, <2>4, <3>1, <3>2, <3>3, <3>4, <3>5, <3>6, StaysInStep
  <2>14. ASSUME NEW c \in Viewers, DiffReturn(c) PROVE DeltaInv'
    <3>1. /\ closed' = [closed EXCEPT ![c] = FALSE] /\ out' = [out EXCEPT ![c] = <<>>]
          /\ view' = [view EXCEPT ![c] = NoBook]
          /\ subs' = [s \in Streams |-> subs[s] \ {c}]
          /\ at' = [at EXCEPT ![c] = NoID] /\ kept' = [kept EXCEPT ![c] = <<>>]
          /\ since' = [since EXCEPT ![c] = {}]
          /\ UNCHANGED <<baseline, lastID, name, event, split>>
      BY <2>14 DEF DiffReturn, Redial
    <3>2. Subscribers' = Subscribers \ {c}
      BY <3>1 DEF Subscribers
    <3>3. NoID \in Nat
      BY <2>1 DEF FeedAssumption, NoID
    <3>4. DeltaTypes'
      BY <2>2, <3>1, <3>3, EmptySeq DEF DeltaTypes
    <3>5. /\ at'[c] = NoID /\ view'[c] = NoBook
          /\ \A d \in Viewers : d # c => UNCHANGED <<at[d], view[d], kept[d], since[d], out[d], closed[d]>>
      BY <2>2, <3>1 DEF DeltaTypes, DepthTypes
    <3>6. ASSUME NEW d \in Served'
          PROVE  d \in Served /\ UNCHANGED <<at[d], view[d], since[d], kept[d], Coming(d)>>
      <4>1. d \in Viewers /\ d # c /\ d \in Subscribers /\ ~ closed'[d] /\ ~ split
        BY <2>4, <3>1, <3>2 DEF Served
      <4>2. d \in subs[name] <=> d \in subs'[name']
        BY <2>2, <3>1, <4>1 DEF DepthTypes
      <4> QED
        BY <3>1, <3>5, <4>1, <4>2, ComingStays DEF Served
    <3>7. \A d \in Viewers : /\ d \notin Subscribers' => at'[d] = NoID
                             /\ at'[d] = NoID => view'[d] = NoBook
                             /\ view'[d] # NoBook => kept'[d] = <<>>
      BY <2>3, <3>2, <3>5
    <3> QED
      BY <2>1, <3>1, <3>4, <3>6, <3>7, StaysInStep
  <2> QED
    BY <2>1, <2>6, <2>7, <2>8, <2>9, <2>10, <2>11, <2>12, <2>13, <2>14,
       TakeDiffInStep, ReadBookInStep, WriteInStep DEF DiffNext
<1>3. DeltaInv => DeltasKept
  <2> SUFFICES ASSUME DeltaInv, NEW c \in Served, view[c] # NoBook, NEW l \in since[c]
               PROVE  AllReceived(c, view[c], Coming(c))[l] = baseline[l]
    BY DEF DeltasKept
  <2>1. DepthTypes /\ DeltaTypes /\ c \in Viewers /\ InStep(c)
    <3>1. DepthTypes /\ DeltaTypes /\ InStep(c)
      BY DEF DeltaInv, DiffInv
    <3> QED
      BY <3>1 DEF Served, Subscribers, DepthTypes
  <2>2. at[c] # NoID /\ Flow(c) = Coming(c) /\ l \in Levels
    BY <2>1, FlowSeq DEF DeltaInv, DeltaTypes
  <2>3. PICK q \in Seq(DiffEvents) : q = Coming(c) /\ DOMAIN q = 1..Len(q) /\ Len(q) \in Nat
    BY <2>1, FlowSeq, LenProperties
  <2>4. Says(q, Naming(q, at[c], l), view[c], l, baseline[l])
    BY <2>1, <2>2, <2>3 DEF InStep
  <2>5. LastNamed(c, q, l) = LastOf(Naming(q, at[c], l)) /\ Naming(q, at[c], l) \in SUBSET (Nat \ {0})
    BY <2>3 DEF LastNamed, Naming
  <2>6. (IF LastNamed(c, q, l) = 0 THEN view[c] ELSE q[LastNamed(c, q, l)].levels)[l] = baseline[l]
    BY <2>4, <2>5, SaysLast
  <2> QED
    BY <2>2, <2>3, <2>6 DEF AllReceived
<1> QED
  BY <1>1, <1>2, <1>3, PTL DEF DiffSpec

=============================================================================
