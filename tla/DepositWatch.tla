----------------------------- MODULE DepositWatch ----------------------------
(* The Watchers of internal/custody under the hub's poll: for each chain     *)
(* what LatestCursor and Received return, and what crediting the payments in *)
(* the order returned does to the cursor.  TransferHub.tla models the loop,  *)
(* its crashes and its withdrawals over the Stellar watcher; here one        *)
(* address is watched by one process, on any of the four chains.             *)
(*                                                                           *)
(* The address's history is a sequence, oldest first; a position in it       *)
(* stands for the paging token, signature or txid found there, 0 for the     *)
(* empty cursor.  An Ethereum cursor is a block number.  The servers'        *)
(* answers are external.                                                     *)
EXTENDS Integers, Sequences, FiniteSets

CONSTANTS
    WatchedNetworks,    \* the chains a behaviour may be about
    PageLimit,          \* how many entries a server returns (50 and 25)
    MaxEntries,         \* bound on the address's history
    MaxBlock            \* bound on blocks

ASSUME DepositAssumption ==
    /\ WatchedNetworks \subseteq {"xlm", "btc", "eth", "sol"}
    /\ PageLimit \in Nat \ {0} /\ MaxEntries \in Nat /\ MaxBlock \in Nat

VARIABLES
    watched,    \* the chain
    history,    \* the address's transactions: [incoming, block, topic]
    block,      \* the newest block
    mark,       \* venue.cursor
    taken,      \* how often each entry was credited
    from,       \* the last entry before this process's first poll
    excused     \* has the watcher given up on an entry it could not read or list?

depositVars == <<watched, history, block, mark, taken, from, excused>>

Entries == 1..MaxEntries
Here == DOMAIN history
Newest == Len(history)

\* The event a token emits for a transfer, and the event Received asks for.
TokenEvent == "Transfer(address,address,uint256)"
TransferSig == "Transfer(address,uint256)"

Oldest(S) == {p \in S : Cardinality({q \in S : q =< p}) =< PageLimit}
Latest25(S) == {p \in S : Cardinality({q \in S : q >= p}) =< PageLimit}

-----------------------------------------------------------------------------
(* What the servers list after a cursor. *)

Incoming(S) == {p \in S : history[p].incoming}

\* Mutant: the entry at the cursor is listed again.
AfterInclusive(cursor) == {p \in Here : p >= cursor}

After(cursor) == {p \in Here : p > cursor}

\* Esplora's /txs/chain/<txid> goes back from the txid; without one it lists
\* the newest.
Before(cursor) == {p \in Here : cursor = 0 \/ p < cursor}

Logs(cursor) == {p \in Incoming(Here) : history[p].block >= cursor /\ history[p].topic = TransferSig}

\* The entries Received returns a payment for, whatever its amount.
Page(cursor) ==
    CASE watched = "xlm" -> Incoming(Oldest(After(cursor)))
      [] watched = "sol" -> Latest25(After(cursor))
      [] watched = "btc" -> Latest25(Before(cursor))
      [] watched = "eth" -> Logs(cursor)

\* LatestCursor; Stellar's is the newest payment of the account.
Tip == IF watched = "eth" THEN block ELSE Newest

\* Mutant: signatures are taken in the order the node returns them.
CursorNewestFirst(S, cursor) == IF S = {} THEN cursor ELSE CHOOSE x \in S : \A y \in S : x =< y

\* The cursor of the last payment of a page processed oldest first.
CursorAfter(S, cursor) ==
    IF S = {} THEN cursor
    ELSE LET p == CHOOSE x \in S : \A y \in S : y =< x
         IN IF watched = "eth" THEN history[p].block + 1 ELSE p

-----------------------------------------------------------------------------
Histories == UNION {[1..n -> [incoming : BOOLEAN, block : {0}, topic : {TokenEvent}]] : n \in 0..2}

\* A first run starts at the tip, or at "" if the node did not answer; a later
\* one where the cursor file says.
WatchInit ==
    /\ watched \in WatchedNetworks
    /\ history \in {h \in Histories : Len(h) =< MaxEntries}
    /\ block = 0
    /\ from \in 0..Len(history)
    /\ mark = (IF from = Len(history) THEN Tip ELSE IF watched = "eth" THEN 0 ELSE from)
    /\ taken = [p \in Entries |-> 0]
    /\ excused = FALSE

\* A transaction that pays the address or one it makes itself.
PaymentArrives(incoming) ==
    /\ Newest < MaxEntries
    /\ history' = Append(history, [incoming |-> incoming, block |-> block, topic |-> TokenEvent])
    /\ UNCHANGED <<watched, block, mark, taken, from, excused>>

NextBlock ==
    /\ watched = "eth" /\ block < MaxBlock
    /\ block' = block + 1
    /\ UNCHANGED <<watched, history, mark, taken, from, excused>>

\* One visit of the hub's poll.  A Solana transaction that cannot be inspected
\* is passed over with a payment of nothing.
PollOnce(unread) ==
    /\ unread \subseteq Page(mark) /\ (watched # "sol" => unread = {})
    /\ taken' = [p \in Entries |-> taken[p] + (IF p \in Incoming(Page(mark)) \ unread THEN 1 ELSE 0)]
    /\ mark' = CursorAfter(Page(mark), mark)
    /\ excused' = (excused \/ unread # {} \/ (watched = "sol" /\ Page(mark) # After(mark)))
    /\ UNCHANGED <<watched, history, block, from>>

WatchNext ==
    \/ \E incoming \in BOOLEAN : PaymentArrives(incoming)
    \/ NextBlock
    \/ \E unread \in SUBSET Entries : PollOnce(unread)

WatchSpec == WatchInit /\ [][WatchNext]_depositVars

-----------------------------------------------------------------------------
(* Properties. *)

\* On Stellar and Solana a deposit is credited once, history from before the
\* first poll never, and the cursor leaves a deposit behind uncredited only if
\* it could not be inspected or more than a page came between two polls.
TakenOnce ==
    watched \in {"xlm", "sol"} => \A p \in Here :
        /\ taken[p] =< 1
        /\ p =< from => taken[p] = 0
        /\ (from < p /\ p =< mark /\ history[p].incoming /\ ~ excused) => taken[p] = 1

=============================================================================
