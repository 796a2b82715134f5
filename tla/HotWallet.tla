------------------------------ MODULE HotWallet ------------------------------
(* The Send methods of internal/custody: withdrawals that run at the same    *)
(* time pay from one wallet, and none of them holds a lock.  Each reads what *)
(* its chain needs to place a transaction, signs, and broadcasts:            *)
(*   xlm  the account's sequence number; Horizon answers once it is applied, *)
(*   btc  the unspent outputs, of which it spends enough for amount and fee, *)
(*   eth  the pending nonce and then a gas price,                            *)
(*   sol  a finalized blockhash; the signature names the transaction.        *)
(* What the nodes accept, replace and refuse is external, read off from how  *)
(* the methods use them.  Keys, encodings and signatures are left out: all   *)
(* of the methods sign deterministically, so two messages are signed alike   *)
(* exactly if they say the same, and calls that ask for the same and read    *)
(* the same broadcast one transaction.                                       *)
EXTENDS Integers, FiniteSets, FiniteSetsExt

CONSTANTS
    Sends,          \* the calls of Send and PrepareAsset
    Order,          \* what each call asks for: [to, amount, what]
    Networks,       \* the chains a behaviour may be about
    Coins,          \* the outputs a Bitcoin wallet starts with
    CoinValue,      \* and their values
    FlatFee, Dust,  \* 500 and 546 satoshi
    GasPrices,
    MaxTip          \* bound on the blockhashes that are finalized

ASSUME WalletAssumption ==
    /\ \A s \in Sends : Order[s].what \in {"pay", "trust"} /\ Order[s].amount \in Nat
    /\ Networks \subseteq {"xlm", "btc", "eth", "sol"}
    /\ FlatFee \in Nat /\ Dust \in Nat /\ GasPrices \subseteq Nat

VARIABLES
    net,        \* the chain this behaviour is about
    send,       \* how far each call is, and its locals
    pool,       \* transactions broadcast and not yet in a block
    mined,      \* transactions in a block
    tip         \* the latest finalized blockhash

walletVars == <<net, send, pool, mined, tip>>

Unread == [slot |-> 0, coins |-> {}, price |-> 0]
Live == pool \cup mined
Broadcast == {t.by : t \in Live}

\* What is signed: everything but who asked for it, so two calls that read and
\* want the same sign the same transaction.
Message(s, l) == [slot |-> l.slot, coins |-> l.coins, price |-> l.price, order |-> Order[s]]
Tx(s, change) == [by |-> s, msg |-> Message(s, send[s].local), change |-> change]

WalletInit ==
    /\ net \in Networks
    /\ send = [s \in Sends |-> [at |-> "start", local |-> Unread, knew |-> {}]]
    /\ pool = {} /\ mined = {} /\ tip = 0

-----------------------------------------------------------------------------
(* What a call reads before it signs. *)

Has(s, at) == send[s].at = at
Step(s, to, local) ==
    send' = [send EXCEPT ![s] = [at |-> to, local |-> local, knew |-> @.knew \cup (IF @.at = "start" THEN Broadcast ELSE {})]]

\* Any request to a node may fail, and the call with it; nothing was broadcast.
Fail(s) ==
    /\ send[s].at \in {"start", "slot", "priced"}
    /\ Step(s, "failed", send[s].local)
    /\ UNCHANGED <<net, pool, mined, tip>>

\* AccountDetail, then IncrementSequenceNum.
ReadSequence(s) ==
    /\ net = "xlm" /\ Has(s, "start")
    /\ Step(s, "priced", [Unread EXCEPT !.slot = Cardinality(mined) + 1])
    /\ UNCHANGED <<net, pool, mined, tip>>

\* Mutant: the transactions that still wait for a block are not counted.
NonceLatest == Cardinality(mined)

\* eth_getTransactionCount(pending); every waiting transaction has a nonce of
\* its own, for one with the same nonce takes the other's place.
Nonce == Cardinality(Live)

ReadNonce(s) ==
    /\ net = "eth" /\ Has(s, "start") /\ Order[s].what = "pay"
    /\ Step(s, "slot", [Unread EXCEPT !.slot = Nonce])
    /\ UNCHANGED <<net, pool, mined, tip>>

ReadGasPrice(s, price) ==
    /\ net = "eth" /\ Has(s, "slot")
    /\ Step(s, "priced", [send[s].local EXCEPT !.price = price])
    /\ UNCHANGED <<net, pool, mined, tip>>

ReadBlockhash(s) ==
    /\ net = "sol" /\ Has(s, "start") /\ Order[s].what = "pay"
    /\ Step(s, "priced", [Unread EXCEPT !.slot = tip])
    /\ UNCHANGED <<net, pool, mined, tip>>

\* An output is one the wallet started with or the change of one of its own
\* transactions, named after the call that made it.
Value(c) == IF c \in Coins THEN CoinValue[c] ELSE (CHOOSE t \in Live : t.by = c).change
Sum(cs) == FoldSet(LAMBDA c, sum : Value(c) + sum, 0, cs)
Spent == UNION {t.msg.coins : t \in Live}
Unspent == (Coins \cup {t.by : t \in {u \in Live : u.change > 0}}) \ Spent

\* The loop takes outputs in the order the server lists them and stops at the
\* first that covers amount and fee.
Selection(cs, need) ==
    /\ cs \subseteq Unspent /\ Sum(cs) >= need
    /\ \E c \in cs : Sum(cs \ {c}) < need

SelectCoins(s, cs) ==
    /\ net = "btc" /\ Has(s, "start") /\ Order[s].what = "pay"
    /\ LET need == Order[s].amount + FlatFee IN
       IF Sum(Unspent) < need
       THEN cs = {} /\ Step(s, "failed", Unread)
       ELSE Selection(cs, need) /\ Step(s, "priced", [Unread EXCEPT !.coins = cs])
    /\ UNCHANGED <<net, pool, mined, tip>>

-----------------------------------------------------------------------------
(* Broadcasting, and what the nodes make of it. *)

\* What is left of the inputs goes back to the wallet, unless it is dust.
Change(s) ==
    LET rest == Sum(send[s].local.coins) - Order[s].amount - FlatFee IN
    IF net = "btc" /\ rest > Dust THEN rest ELSE 0

SameNonce(l) == {t \in pool : t.msg.slot = l.slot}

\* The transaction a node has already and answers with its name once more: for
\* Horizon one that was applied, for Bitcoin's nodes one that still waits (they
\* refuse a mined one), for Solana's either.  Ethereum's refuse a known one.
Twin(s) ==
    {t \in Live : /\ net # "eth" /\ (net = "btc" => t \in pool)
                  /\ t.msg = Message(s, send[s].local)}

\* Horizon applies the next sequence number only.
Accepted(s, l) ==
    CASE net = "xlm" -> Twin(s) # {} \/ l.slot = Cardinality(mined) + 1
      [] net = "btc" -> Twin(s) # {} \/ l.coins \cap Spent = {}
      [] net = "eth" -> l.slot >= Cardinality(mined) /\ \A t \in SameNonce(l) : l.price > t.msg.price
      [] net = "sol" -> TRUE

\* Mutant: the node's refusal is not told from its answer.
SubmitTrusting(s) ==
    /\ Has(s, "priced")
    /\ Step(s, "answered", send[s].local)
    /\ IF Accepted(s, send[s].local) /\ Twin(s) = {}
       THEN pool' = (IF net = "eth" THEN pool \ SameNonce(send[s].local) ELSE pool) \cup {Tx(s, Change(s))}
       ELSE UNCHANGED pool
    /\ UNCHANGED <<net, mined, tip>>

Submit(s) ==
    /\ Has(s, "priced")
    /\ LET l == send[s].local IN
       IF ~ Accepted(s, l)
       THEN Step(s, "failed", l) /\ UNCHANGED <<pool, mined>>
       ELSE /\ Step(s, "answered", l)
            /\ \/ Twin(s) # {} /\ UNCHANGED <<pool, mined>>
               \/ Twin(s) = {} /\ net = "xlm" /\ mined' = mined \cup {Tx(s, 0)} /\ UNCHANGED pool
               \/ /\ Twin(s) = {} /\ net # "xlm" /\ UNCHANGED mined
                  /\ pool' = (IF net = "eth" THEN pool \ SameNonce(l) ELSE pool) \cup {Tx(s, Change(s))}
    /\ UNCHANGED <<net, tip>>

\* A block takes transactions from the pool; a wallet's nonces in their order.
Mine(t) ==
    /\ net = "eth" => \A u \in pool : t.msg.slot =< u.msg.slot
    /\ pool' = pool \ {t} /\ mined' = mined \cup {t}
    /\ UNCHANGED <<net, send, tip>>

Finalize ==
    /\ net = "sol" /\ tip < MaxTip
    /\ tip' = tip + 1
    /\ UNCHANGED <<net, send, pool, mined>>

WalletNext ==
    \/ \E s \in Sends :
         \/ Fail(s) \/ ReadSequence(s) \/ ReadNonce(s) \/ ReadBlockhash(s) \/ Submit(s)
         \/ \E price \in GasPrices : ReadGasPrice(s, price)
         \/ \E cs \in SUBSET (Coins \cup Sends) : SelectCoins(s, cs)
    \/ \E t \in pool : Mine(t)
    \/ Finalize

WalletSpec == WalletInit /\ [][WalletNext]_walletVars

-----------------------------------------------------------------------------
(* Properties. *)

Answered(s) == send[s].at = "answered"

\* A call answered with a reference has a transaction of its own that will be
\* or was applied, but for three ways to share or lose it.  On Stellar and
\* Bitcoin an equal call had its transaction broadcast after this one had read,
\* and both are the same transaction; a call that starts after the other's
\* broadcast never shares.  On Solana they may even follow each other, under
\* one blockhash.  On Ethereum another call, which had read its nonce before
\* this one was broadcast, has replaced it at a higher price.
PaymentsKept ==
    \A s \in Sends : Answered(s) =>
        \E t \in Live :
            \/ t.by = s
            \/ net \in {"xlm", "btc"} /\ t.msg = Message(s, send[s].local) /\ t.by \notin send[s].knew
            \/ net = "sol" /\ t.msg = Message(s, send[s].local)
            \/ net = "eth" /\ t.msg.slot = send[s].local.slot /\ s \notin send[t.by].knew
=============================================================================
