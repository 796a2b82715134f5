------------------------------ MODULE FixOrders --------------------------------
(***************************************************************************)
(* Orders and quotes of the FIX edge (internal/api/fix/server.go,          *)
(* quote.go): what its sessions are told of their orders.                  *)
(*                                                                         *)
(* A session's messages are handled one after the other; its handler is    *)
(* interleaved with those of other sessions and with the trade hook, which *)
(* runs under the instrument's lock.  The order book is what rests in it;  *)
(* whom an order meets is the environment's choice, one partner at a time. *)
(* A report counts as told when it is handed to the session.               *)
(***************************************************************************)
EXTENDS Naturals, Sequences, FiniteSets

CONSTANTS Clients,    \* FIX connections, each one session
          ClOrdIDs,   \* client order ids
          Sizes,      \* order sizes
          MaxFixOrders, MaxQuotesAsked,  \* bounds; ids count from 1
          MaxQuotes   \* capacity of the quote table (4096 in the code)

ASSUME FixAssumption ==
    /\ Sizes \subseteq Nat \ {0}
    /\ {MaxFixOrders, MaxQuotesAsked, MaxQuotes} \subseteq Nat
    /\ {"nobody", "others"} \cap Clients = {}  \* the other names in match.by

VARIABLES session,    \* "new", "up", "over"; "lost" when it ended without OnLogout
          ordRec,     \* id -> ordRec, kept for the record after its end
          byClOrdID,  \* session -> ClOrdID -> id
          byEngine,   \* ids whose fills are routed
          quotes,     \* the quote table: number -> [sess, open, taken]
          asked,      \* how many quotes there have been
          inBook,     \* id -> what rests
          match,      \* the call that holds the instrument, or NoMatch
          task,       \* what each session's handler is doing
          told,       \* id -> the last report: [status, cum]
          traded,     \* id -> what was traded, by the book
          bought      \* history: quote -> orders placed on it

fixVars == <<session, ordRec, byClOrdID, byEngine, quotes, asked, inBook, match, task, told,
             traded, bought>>

Volumes == UNION {1..q : q \in Sizes}
FixIds == 1..MaxFixOrders
NoMatch == [by |-> "nobody", fills |-> <<>>]
NoTask == [at |-> "idle"]
NewId == Cardinality(DOMAIN ordRec) + 1
Without(fn, S) == [x \in DOMAIN fn \ S |-> fn[x]]
With(fn, x, v) == [y \in DOMAIN fn \cup {x} |-> IF y = x THEN v ELSE fn[y]]
Ready(c) == session[c] = "up" /\ task[c] = NoTask

FixInit ==
    /\ session = [c \in Clients |-> "new"] /\ byClOrdID = [c \in Clients |-> <<>>]
    /\ task = [c \in Clients |-> NoTask]
    /\ ordRec = <<>> /\ byEngine = {} /\ quotes = <<>> /\ asked = 0
    /\ inBook = <<>> /\ match = NoMatch
    /\ told = <<>> /\ traded = <<>> /\ bought = [q \in 1..MaxQuotesAsked |-> 0]
-----------------------------------------------------------------------------
OnLogon(c) ==
    /\ session[c] = "new"
    /\ session' = [session EXCEPT ![c] = "up"]
    /\ UNCHANGED <<ordRec, byClOrdID, byEngine, quotes, asked, inBook, match, task, told, traded, bought>>

\* A logout, or a connection that broke: fills are routed no longer, the
\* orders stay in the book.
OnLogout(c) ==
    /\ Ready(c)
    /\ session' = [session EXCEPT ![c] = "over"]
    /\ byEngine' = byEngine \ {byClOrdID[c][cl] : cl \in DOMAIN byClOrdID[c]}
    /\ byClOrdID' = [byClOrdID EXCEPT ![c] = <<>>]
    /\ UNCHANGED <<ordRec, quotes, asked, inBook, match, task, told, traded, bought>>

\* A frame that cannot be decoded ends the session without OnLogout.
DropSession(c) ==
    /\ Ready(c)
    /\ session' = [session EXCEPT ![c] = "lost"]
    /\ UNCHANGED <<ordRec, byClOrdID, byEngine, quotes, asked, inBook, match, task, told, traded, bought>>
-----------------------------------------------------------------------------
(* Placing                                                                 *)

\* Registration, and NEW before the placement.
Register(c, cl, kind, size) ==
    /\ NewId \in FixIds /\ cl \notin DOMAIN byClOrdID[c]
    /\ ordRec' = With(ordRec, NewId, [sess |-> c, clOrdID |-> cl, kind |-> kind, orderQty |-> size,
                                      cumQty |-> 0, done |-> FALSE, replaced |-> FALSE])
    /\ byClOrdID' = [byClOrdID EXCEPT ![c] = With(@, cl, NewId)]
    /\ byEngine' = byEngine \cup {NewId}
    /\ told' = With(told, NewId, [status |-> "NEW", cum |-> 0])
    /\ traded' = With(traded, NewId, 0)
    /\ task' = [task EXCEPT ![c] = [at |-> "place", id |-> NewId]]

\* Every other outcome of the message is a reject that changes nothing.
OnNewOrderSingle(c, cl, kind, size) ==
    /\ Ready(c) \/ task[c].at = "again"
    /\ Register(c, cl, kind, size)
    /\ UNCHANGED <<session, quotes, asked, inBook, match, bought>>

\* AddLimitOrder or AddMarketOrder up to the hooks: vol is traded with a
\* partner, a resting FIX order or somebody else's, and the rest rests.
Place(c, vol, partner) ==
    LET id == task[c].id
        o == ordRec[id]
        hit == partner \in DOMAIN inBook
        left == IF ~hit THEN inBook
                ELSE IF vol = inBook[partner] THEN Without(inBook, {partner})
                ELSE [inBook EXCEPT ![partner] = @ - vol]
    IN  /\ task[c].at = "place" /\ match = NoMatch
        /\ vol <= o.orderQty /\ (hit => 0 < vol /\ vol <= inBook[partner])
        /\ inBook' = IF o.kind = "limit" /\ vol < o.orderQty
                       THEN With(left, id, o.orderQty - vol) ELSE left
        /\ traded' = [i \in DOMAIN traded |->
                        traded[i] + IF i = id \/ (hit /\ i = partner) THEN vol ELSE 0]
        /\ match' = [by |-> c, fills |-> IF vol = 0 THEN <<>>
                       ELSE IF hit THEN <<<<id, vol>>, <<partner, vol>>>> ELSE <<<<id, vol>>>>]
        /\ task' = [task EXCEPT ![c].at = "placing"]
        /\ UNCHANGED <<session, ordRec, byClOrdID, byEngine, quotes, asked, told, bought>>

\* The price is not one or the engine refuses: finishReject.
Refused(c) ==
    LET id == task[c].id
    IN  /\ task[c].at = "place"
        /\ ordRec' = [ordRec EXCEPT ![id].done = TRUE]
        /\ byEngine' = byEngine \ {id}
        /\ byClOrdID' = [byClOrdID EXCEPT ![c] = Without(@, {ordRec[id].clOrdID})]
        /\ told' = [told EXCEPT ![id] = [status |-> "REJECTED", cum |-> 0]]
        /\ task' = [task EXCEPT ![c] = NoTask]
        /\ UNCHANGED <<session, quotes, asked, inBook, match, traded, bought>>

\* Another edge's order takes vol of one that rests.
OthersTake(id, vol) ==
    /\ match = NoMatch /\ id \in DOMAIN inBook /\ vol <= inBook[id]
    /\ inBook' = IF vol = inBook[id] THEN Without(inBook, {id}) ELSE [inBook EXCEPT ![id] = @ - vol]
    /\ traded' = [traded EXCEPT ![id] = @ + vol]
    /\ match' = [by |-> "others", fills |-> <<<<id, vol>>>>]
    /\ UNCHANGED <<session, ordRec, byClOrdID, byEngine, quotes, asked, task, told, bought>>

\* The trade hook, one side of a trade.
OnFill ==
    LET id == Head(match.fills)[1]
        cum == ordRec[id].cumQty + Head(match.fills)[2]
        filled == cum >= ordRec[id].orderQty
    IN  /\ match.fills # <<>>
        /\ match' = [match EXCEPT !.fills = Tail(@)]
        /\ IF id \in byEngine
             THEN /\ ordRec' = [ordRec EXCEPT ![id].cumQty = cum, ![id].done = @ \/ filled]
                  /\ byEngine' = IF filled THEN byEngine \ {id} ELSE byEngine
                  /\ told' = [told EXCEPT ![id] =
                                [status |-> IF filled THEN "FILLED" ELSE "PARTIAL", cum |-> cum]]
             ELSE UNCHANGED <<ordRec, byEngine, told>>
        /\ UNCHANGED <<session, byClOrdID, quotes, asked, inBook, task, traded, bought>>

BookReturns ==
    /\ match # NoMatch /\ match.fills = <<>>
    /\ match' = NoMatch
    /\ task' = IF match.by \in Clients THEN [task EXCEPT ![match.by] = NoTask] ELSE task
    /\ UNCHANGED <<session, ordRec, byClOrdID, byEngine, quotes, asked, inBook, told, traded, bought>>
-----------------------------------------------------------------------------
(* Cancel, and cancel/replace                                              *)

\* Known and not done, as the registry has it now.
OnOrderCancel(c, orig, replace) ==
    /\ Ready(c) /\ orig \in DOMAIN byClOrdID[c]
    /\ ~ordRec[byClOrdID[c][orig]].done
    /\ task' = [task EXCEPT ![c] = [at |-> "cancel", id |-> byClOrdID[c][orig],
                                    replace |-> replace, cum |-> ordRec[byClOrdID[c][orig]].cumQty]]
    /\ UNCHANGED <<session, ordRec, byClOrdID, byEngine, quotes, asked, inBook, match, told, traded, bought>>

\* Mutant: the engine's error is not looked at.
EngineCancelUnchecked(c) ==
    /\ task[c].at = "cancel" /\ match = NoMatch
    /\ task' = [task EXCEPT ![c].at = "cancelled"]
    /\ inBook' = Without(inBook, {task[c].id})
    /\ UNCHANGED <<session, ordRec, byClOrdID, byEngine, quotes, asked, match, told, traded, bought>>

\* A fill may have been faster: then the cancel is rejected.
EngineCancel(c) ==
    /\ task[c].at = "cancel" /\ match = NoMatch
    /\ task' = IF task[c].id \in DOMAIN inBook THEN [task EXCEPT ![c].at = "cancelled"]
               ELSE [task EXCEPT ![c] = NoTask]
    /\ inBook' = Without(inBook, {task[c].id})
    /\ UNCHANGED <<session, ordRec, byClOrdID, byEngine, quotes, asked, match, told, traded, bought>>

\* Mutant: the report shows the fills there were when the request came.
ReportCancelEarly(c) ==
    LET id == task[c].id
    IN  /\ task[c].at = "cancelled" /\ ~task[c].replace
        /\ ordRec' = [ordRec EXCEPT ![id].done = TRUE] /\ byEngine' = byEngine \ {id}
        /\ told' = [told EXCEPT ![id] = [status |-> "CANCELED", cum |-> task[c].cum]]
        /\ task' = [task EXCEPT ![c] = NoTask]
        /\ UNCHANGED <<session, byClOrdID, quotes, asked, inBook, match, traded, bought>>

ReportCancel(c) ==
    LET id == task[c].id
    IN  /\ task[c].at = "cancelled" /\ ~task[c].replace
        /\ ordRec' = [ordRec EXCEPT ![id].done = TRUE] /\ byEngine' = byEngine \ {id}
        /\ told' = [told EXCEPT ![id] = [status |-> "CANCELED", cum |-> ordRec[id].cumQty]]
        /\ task' = [task EXCEPT ![c] = NoTask]
        /\ UNCHANGED <<session, byClOrdID, quotes, asked, inBook, match, traded, bought>>

\* No report: the handler goes on with the replacement as with a new order, ...
Replaced(c) ==
    LET id == task[c].id
    IN  /\ task[c].at = "cancelled" /\ task[c].replace
        /\ ordRec' = [ordRec EXCEPT ![id].done = TRUE, ![id].replaced = TRUE]
        /\ byEngine' = byEngine \ {id}
        /\ task' = [task EXCEPT ![c] = [at |-> "again"]]
        /\ UNCHANGED <<session, byClOrdID, quotes, asked, inBook, match, told, traded, bought>>
\* ... and may refuse it, with the original gone.
RejectReplacement(c) ==
    /\ task[c].at = "again"
    /\ task' = [task EXCEPT ![c] = NoTask]
    /\ UNCHANGED <<session, ordRec, byClOrdID, byEngine, quotes, asked, inBook, match, told, traded, bought>>
-----------------------------------------------------------------------------
(* Quotes                                                                  *)

\* pruneLocked, and then room for one more.  A quote may be past its time
\* when it is stored: the clock was read before the pricing.
Quote(c) ==
    LET kept == Without(quotes, {q \in DOMAIN quotes : quotes[q].taken \/ ~quotes[q].open})
    IN  /\ Ready(c) /\ asked < MaxQuotesAsked
        /\ asked' = asked + 1
        /\ quotes' = IF Cardinality(DOMAIN kept) >= MaxQuotes THEN kept
                     ELSE With(kept, asked + 1, [sess |-> c, open |-> TRUE, taken |-> FALSE])
        /\ UNCHANGED <<session, ordRec, byClOrdID, byEngine, inBook, match, task, told, traded, bought>>

QuoteExpires(q) ==
    /\ q \in DOMAIN quotes /\ quotes[q].open
    /\ quotes' = [quotes EXCEPT ![q].open = FALSE]
    /\ UNCHANGED <<session, ordRec, byClOrdID, byEngine, asked, inBook, match, task, told, traded, bought>>

\* A confirmation that comes too late deletes the quote.
ConfirmLate(c, q) ==
    /\ Ready(c) /\ q \in DOMAIN quotes /\ quotes[q].sess = c /\ ~quotes[q].open
    /\ quotes' = Without(quotes, {q})
    /\ UNCHANGED <<session, ordRec, byClOrdID, byEngine, asked, inBook, match, task, told, traded, bought>>

\* Mutant: a quote is good for its session until it expires.
UsableAgain(c, q) == q \in DOMAIN quotes /\ quotes[q].sess = c /\ quotes[q].open

Usable(c, q) == q \in DOMAIN quotes /\ quotes[q].sess = c /\ quotes[q].open /\ ~quotes[q].taken

\* The quote is taken first; a ClOrdID in use is refused after that, and the
\* quote stays taken.
ExecuteQuoted(c, q, cl, size) ==
    /\ Ready(c) /\ Usable(c, q)
    /\ quotes' = [quotes EXCEPT ![q].taken = TRUE]
    /\ IF cl \in DOMAIN byClOrdID[c]
         THEN UNCHANGED <<ordRec, byClOrdID, byEngine, told, traded, task, bought>>
         ELSE /\ Register(c, cl, "limit", size)
              /\ bought' = [bought EXCEPT ![q] = @ + 1]
    /\ UNCHANGED <<session, asked, inBook, match>>
-----------------------------------------------------------------------------
FixNext ==
    \/ \E c \in Clients :
          \/ OnLogon(c) \/ OnLogout(c) \/ DropSession(c)
          \/ \E cl \in ClOrdIDs, kind \in {"limit", "market"}, size \in Sizes :
                OnNewOrderSingle(c, cl, kind, size)
          \/ \E vol \in {0} \cup Volumes, partner \in {0} \cup FixIds : Place(c, vol, partner)
          \/ Refused(c)
          \/ \E orig \in ClOrdIDs, replace \in BOOLEAN : OnOrderCancel(c, orig, replace)
          \/ EngineCancel(c) \/ ReportCancel(c) \/ Replaced(c) \/ RejectReplacement(c)
          \/ Quote(c)
          \/ \E q \in DOMAIN quotes : ConfirmLate(c, q)
          \/ \E q \in DOMAIN quotes, cl \in ClOrdIDs, size \in Sizes : ExecuteQuoted(c, q, cl, size)
    \/ \E id \in FixIds, vol \in Volumes : OthersTake(id, vol)
    \/ OnFill \/ BookReturns
    \/ \E q \in DOMAIN quotes : QuoteExpires(q)

FixSpec == FixInit /\ [][FixNext]_fixVars
-----------------------------------------------------------------------------
Ended == {"FILLED", "CANCELED", "REJECTED"}
Known(c) == {byClOrdID[c][cl] : cl \in DOMAIN byClOrdID[c]}

\* Between its messages and between trades, a session knows its orders from
\* its reports: what of each was traded, and of each limit order whether it
\* rests - but for one it replaced, which is the replacement's business.
ReportsTellBook ==
    \A c \in Clients : Ready(c) /\ match = NoMatch =>
        \A id \in Known(c) :
            /\ told[id].cum = traded[id]
            /\ ordRec[id].kind = "limit" /\ ~ordRec[id].replaced =>
                  (id \in DOMAIN inBook <=> told[id].status \notin Ended)

\* NEW comes first, fills add up, and nothing follows the report that an order
\* has ended, though fills race cancels and replacements.
ReportsAscend ==
    [][\A id \in DOMAIN told :
          told'[id] # told[id] =>
              /\ told[id].status \notin Ended
              /\ told'[id].status # "NEW" /\ told'[id].cum >= told[id].cum]_fixVars

\* "a duplicate ClOrdID on the same session is rejected, never a second resting
\* order", and "a quote is usable at most once": whatever is rejected, replaced
\* or confirmed again on the way.
OneOrderEach ==
    /\ \A i, j \in DOMAIN inBook :
          i # j => <<ordRec[i].sess, ordRec[i].clOrdID>> # <<ordRec[j].sess, ordRec[j].clOrdID>>
    /\ \A q \in DOMAIN bought : bought[q] <= 1
=============================================================================
