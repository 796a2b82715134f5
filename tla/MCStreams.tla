------------------------------ MODULE MCStreams ------------------------------
(* What clients are streamed and what admits them: the two order book feeds, *)
(* the engine's events, the keys of the user data streams and the limiter of *)
(* requests, side by side.  The initial state chooses which of them a        *)
(* behaviour is about; the others stand still.                               *)
EXTENDS EventStream, ListenKeys, RateLimit, Level2, DiffDepth

CONSTANTS l1, l2, v1, v2, v3, depth, depth100ms

\* Two levels, so that a book can be a mixture of two moments; one is empty at
\* first and one is not, so that a change can remove and add.
MCViewers == {v1, v2}
MCLevels == {l1, l2}
MCStreamNames == {depth, depth100ms}
MCStart == [l \in MCLevels |-> IF l = l1 THEN 1 ELSE 0]
MCSources == {v1, v2, v3}
ViewerSymmetry == Permutations(MCViewers)

VARIABLE part
mcVars == <<part, streamVars, listenVars, limitVars, feedVars, l2Vars, diffVars>>

InStream(A) ==
    /\ part = "stream" /\ A
    /\ UNCHANGED <<part, listenVars, limitVars, feedVars, l2Vars, diffVars>>
InListen(A) ==
    /\ part = "listen" /\ A
    /\ UNCHANGED <<part, streamVars, limitVars, feedVars, l2Vars, diffVars>>
InLimit(A) ==
    /\ part = "limit" /\ A
    /\ UNCHANGED <<part, streamVars, listenVars, feedVars, l2Vars, diffVars>>
InLevel2(A) ==
    /\ part = "level2" /\ A
    /\ UNCHANGED <<part, streamVars, listenVars, limitVars, diffVars>>
InDiff(A) ==
    /\ part = "diff" /\ A
    /\ UNCHANGED <<part, streamVars, listenVars, limitVars, l2Vars>>

MCInit ==
    /\ part \in {"stream", "listen", "limit", "level2", "diff"}
    /\ StreamInit /\ ListenInit /\ LimitInit /\ L2Init /\ DiffInit
    \* The parts a behaviour is not about start in one way.
    /\ part # "diff" => name = depth

\* Instruments are alike, so the first command may as well be for the first one.
FirstOf(I) == IF commands = 0 THEN {CHOOSE i \in I : TRUE} ELSE I

StreamSteps ==
    \/ \E s \in Sockets :
          \/ InStream(Connect(s)) \/ InStream(EnterBook(s)) \/ InStream(Fire(s))
          \/ InStream(BookReplies(s)) \/ InStream(Reply(s)) \/ InStream(Forward(s)) \/ InStream(StreamLeaves(s))
          \/ InStream(Forget(s)) \/ InStream(ReachStream(s))
          \/ \E inst \in FirstOf(Instruments), burst \in Bursts : InStream(Command(s, inst, burst))
    \/ InStream(TakeEvent) \/ InStream(HandOver) \/ InStream(HandedOut)
    \/ InStream(Restart)
    \/ \E shutdown \in BOOLEAN : InStream(Stop(shutdown))

ListenSteps ==
    \/ \E k \in Keys : \/ InListen(ConnectStream(k))
                       \/ \E u \in KeyUsers : \/ InListen(CreateKey(u, k))
                                              \/ InListen(AskKeepalive(u, k))
                                              \/ InListen(RemoveKey(u, k))
    \/ \E u \in KeyUsers : InListen(StoreKeepalive(u))
    \/ InListen(ListenTick)

LimitSteps ==
    \/ \E r \in Servers : \/ \E c \in Sources : InLimit(AllowKey(r, c))
                          \/ InLimit(Allow(r))
    \/ InLimit(LimitTick)

DepthSteps ==
    \/ \E l \in Levels, size \in 0..MaxSize : InLevel2(L2BookMoves(l, size))
    \/ InLevel2(L2Tick) \/ InLevel2(Push)
    \/ \E c \in Viewers :
          \/ InLevel2(Subscribe(c)) \/ InLevel2(Enlist(c)) \/ InLevel2(Unsubscribe(c))
          \/ InLevel2(L2Write(c)) \/ InLevel2(L2Leave(c)) \/ InLevel2(L2Return(c))
    \/ \E l \in Levels, size \in 0..MaxSize : InDiff(DiffBookMoves(l, size))
    \/ InDiff(DiffTick) \/ InDiff(TakeDiff) \/ InDiff(Fanout)
    \/ \E s \in Streams : InDiff(Skip(s)) \/ InDiff(VisitStream(s))
    \/ \E c \in Viewers :
          \/ \E s \in Streams : InDiff(OpenStream(c, s))
          \/ InDiff(ReadID(c)) \/ InDiff(ReadBook(c)) \/ InDiff(DiffWrite(c))
          \/ InDiff(DiffLeave(c)) \/ InDiff(DiffReturn(c))

MCNext == StreamSteps \/ ListenSteps \/ LimitSteps \/ DepthSteps

MCSpec == MCInit /\ [][MCNext]_mcVars
=============================================================================
