----------------------------- MODULE MCServices ------------------------------
(* Components that do not meet, side by side: the initial state chooses which *)
(* of them a behaviour is about, and the variables of the others stand still. *)
(* One pair of actors and one of names serves them all, so that one symmetry  *)
(* does.                                                                      *)
EXTENDS CoinbaseEdge, FixOrders, HotWallet, DepositWatch, Keystore, ConcurrentDict,
        ExoticQuotes, TLC

CONSTANTS a1, a2, n1, n2, p1, p2, p3, btc1, btc2, alice, bob

Actors == {a1, a2}
Names == {n1, n2}
ServiceSymmetry == Permutations(Actors) \cup Permutations(Names)

\* Coinbase: a bid that can rest and a market sell.
MCOrders == {[side |-> "buy", kind |-> "limit", price |-> 2, size |-> 2],
             [side |-> "sell", kind |-> "market", price |-> 0, size |-> 1]}

\* Two equal payments to one address and another one that differs; one output
\* that pays for one of them and one that pays for both.
MCSends == {p1, p2, p3}
MCPay(to, amount, what) == [to |-> to, amount |-> amount, what |-> what]
MCSendOrder == (p1 :> MCPay(alice, 2, "pay")) @@ (p2 :> MCPay(alice, 2, "pay"))
                 @@ (p3 :> MCPay(bob, 1, "trust"))
MCNetworks == {"xlm", "btc", "eth", "sol"}
MCCoins == {btc1, btc2}
MCCoinValue == (btc1 :> 3) @@ (btc2 :> 5)

MCShardOf == [k \in MapKeys |-> k % ShardCount]

VARIABLE part

InCoinbase(A) ==
    /\ part = "coinbase" /\ A
    /\ UNCHANGED <<part, fixVars, walletVars, depositVars, keyVars, cdVars, quoteVars>>
InFix(A) ==
    /\ part = "fix" /\ A
    /\ UNCHANGED <<part, coinbaseVars, walletVars, depositVars, keyVars, cdVars, quoteVars>>
InWallet(A) ==
    /\ part = "wallet" /\ A
    /\ UNCHANGED <<part, coinbaseVars, fixVars, depositVars, keyVars, cdVars, quoteVars>>
InWatch(A) ==
    /\ part = "watch" /\ A
    /\ UNCHANGED <<part, coinbaseVars, fixVars, walletVars, keyVars, cdVars, quoteVars>>
InKey(A) ==
    /\ part = "key" /\ A
    /\ UNCHANGED <<part, coinbaseVars, fixVars, walletVars, depositVars, cdVars, quoteVars>>
InDict(A) ==
    /\ part = "dict" /\ A
    /\ UNCHANGED <<part, coinbaseVars, fixVars, walletVars, depositVars, keyVars, quoteVars>>
InExotic(A) ==
    /\ part = "exotic" /\ A
    /\ UNCHANGED <<part, coinbaseVars, fixVars, walletVars, depositVars, keyVars, cdVars>>
mcVars == <<part, coinbaseVars, fixVars, walletVars, depositVars, keyVars, cdVars, quoteVars>>

MCInit ==
    /\ part \in {"coinbase", "fix", "wallet", "watch", "key", "dict", "exotic"}
    /\ CoinbaseInit /\ FixInit /\ WalletInit /\ KeyInit /\ WatchInit /\ CDInit
    /\ QuoteInit
    \* The parts a behaviour is not about start in one way.
    /\ part # "wallet" => net = "xlm"
    /\ part # "watch" => watched = "xlm" /\ history = <<>> /\ from = 0
    /\ part # "dict" => form = "sharded"

CoinbaseSteps ==
    \/ \E t \in Threads :
          \/ \E o \in ClientOrders : InCoinbase(CreateOrder(t, o))
          \/ InCoinbase(Record(t)) \/ InCoinbase(RemoveRecord(t)) \/ InCoinbase(GiveBack(t))
          \/ \E vol \in 0..MostTraded, price \in 0..MostTraded : InCoinbase(PlaceOrder(t, vol, price))
          \/ \E id \in Ids : InCoinbase(CancelOne(t, id))
          \/ InCoinbase(CancelInBook(t)) \/ InCoinbase(CancelMisses(t))
          \/ InCoinbase(MarkCancelled(t))
          \/ InCoinbase(ReadRecord(t)) \/ InCoinbase(EmitUser(t))
    \/ \E id \in Ids, vol \in 1..MostTraded : InCoinbase(TakerHits(id, vol))
    \/ InCoinbase(RegistryHook) \/ InCoinbase(LedgerHook) \/ InCoinbase(ReturnFromBook)
    \/ \E delayed \in Delays : InCoinbase(EmitHook(delayed))
    \/ \E state \in timers : InCoinbase(TimerFires(state))
    \/ \E i \in DOMAIN flight : InCoinbase(TrySend(i))

FixSteps ==
    \/ \E c \in Clients :
          \/ InFix(OnLogon(c)) \/ InFix(OnLogout(c)) \/ InFix(DropSession(c))
          \/ \E cl \in ClOrdIDs, kind \in {"limit", "market"}, size \in Sizes :
                InFix(OnNewOrderSingle(c, cl, kind, size))
          \/ \E vol \in {0} \cup Volumes, partner \in {0} \cup FixIds :
                InFix(Place(c, vol, partner))
          \/ InFix(Refused(c))
          \/ \E orig \in ClOrdIDs, replace \in BOOLEAN : InFix(OnOrderCancel(c, orig, replace))
          \/ InFix(EngineCancel(c)) \/ InFix(ReportCancel(c))
          \/ InFix(Replaced(c)) \/ InFix(RejectReplacement(c))
          \/ InFix(Quote(c))
          \/ \E q \in DOMAIN quotes : InFix(ConfirmLate(c, q))
          \/ \E q \in DOMAIN quotes, cl \in ClOrdIDs, size \in Sizes :
                InFix(ExecuteQuoted(c, q, cl, size))
    \/ \E id \in FixIds, vol \in Volumes : InFix(OthersTake(id, vol))
    \/ InFix(OnFill) \/ InFix(BookReturns)
    \/ \E q \in DOMAIN quotes : InFix(QuoteExpires(q))

CustodySteps ==
    \/ \E s \in Sends :
          \/ InWallet(Fail(s)) \/ InWallet(ReadSequence(s)) \/ InWallet(ReadNonce(s))
          \/ InWallet(ReadBlockhash(s)) \/ InWallet(Submit(s))
          \/ \E price \in GasPrices : InWallet(ReadGasPrice(s, price))
          \/ \E cs \in SUBSET (Coins \cup Sends) : InWallet(SelectCoins(s, cs))
    \/ \E t \in pool : InWallet(Mine(t))
    \/ InWallet(Finalize)
    \/ \E incoming \in BOOLEAN : InWatch(PaymentArrives(incoming))
    \/ InWatch(NextBlock)
    \/ \E unread \in SUBSET Entries : InWatch(PollOnce(unread))
    \/ \E p \in Programs :
          \/ InKey(Run(p)) \/ InKey(Open(p)) \/ InKey(Put(p)) \/ InKey(Truncate(p))
          \/ InKey(WriteTmp(p)) \/ InKey(Sync(p)) \/ InKey(Rename(p)) \/ InKey(Die(p))
    \/ InKey(WriteBack) \/ InKey(PowerLoss)

SharedSteps ==
    \/ \E c \in Callers :
          \/ \E op \in D!Calls : InDict(Begin(c, op))
          \/ \E height \in Heights : InDict(SkipSet(c, height))
          \/ InDict(SkipDelete(c)) \/ InDict(SkipRead(c)) \/ InDict(LockedCall(c))
          \/ InDict(Load(c)) \/ InDict(Swap(c))
          \/ InDict(ReturnAnswer(c))
    \/ \E a \in Askers : \/ InExotic(Ask(a)) \/ InExotic(LookUp(a))
                         \/ InExotic(Price(a)) \/ InExotic(Answer(a))
    \/ InExotic(QuoteTick)

MCNext == CoinbaseSteps \/ FixSteps \/ CustodySteps \/ SharedSteps

MCSpec == MCInit /\ [][MCNext]_mcVars
=============================================================================
