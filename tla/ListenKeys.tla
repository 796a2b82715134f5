----------------------------- MODULE ListenKeys -----------------------------
(* The Binance edge's listen keys (listenkey.go): created, kept alive and      *)
(* removed by requests, checked when a user-data stream connects, and expired  *)
(* when looked at.  keepalive looks and stores under two holds of the lock.    *)
EXTENDS Integers, FiniteSets

CONSTANTS KeyUsers,   \* goroutines serving requests
          Keys,       \* the random names, in no order
          KeyTTL,     \* life of a key without a keepalive, in ticks
          LastHour    \* bound: the clock

ASSUME KeyAssumption == KeyTTL \in Nat /\ LastHour \in Nat

VARIABLES hour,
          live,       \* the manager's keys
          touched,    \* [Keys -> tick], Never before the key is drawn
          keeping,    \* [KeyUsers -> {} or the key whose keepalive is between locks]
          removed,    \* history: keys whose DELETE succeeded
          raced       \* history: of these, removed during a keepalive of them
listenVars == <<hour, live, touched, keeping, removed, raced>>

Never == -1

ListenInit ==
  /\ hour = 0 /\ live = {} /\ touched = [k \in Keys |-> Never]
  /\ keeping = [u \in KeyUsers |-> {}]
  /\ removed = {} /\ raced = {}

Expired(k) == hour - touched[k] > KeyTTL
Drawn(k) == touched[k] # Never

\* POST userDataStream: a key never drawn before.
CreateKey(u, k) ==
  /\ keeping[u] = {} /\ ~Drawn(k)
  /\ live' = live \cup {k} /\ touched' = [touched EXCEPT ![k] = hour]
  /\ UNCHANGED <<hour, keeping, removed, raced>>

\* valid(): an expired key is pruned.
Prune(k) == live' = IF Expired(k) THEN live \ {k} ELSE live
IsLive(k) == k \in live /\ ~Expired(k)

\* GET /ws/<key>, and a PUT of a key that is not live.
ConnectStream(k) ==
  /\ Drawn(k) /\ Prune(k)
  /\ UNCHANGED <<hour, touched, keeping, removed, raced>>

\* PUT userDataStream, first hold of the lock.
AskKeepaliveBlindly(u, k) ==   \* a mutant: stores without having looked
  /\ keeping[u] = {} /\ Drawn(k)
  /\ keeping' = [keeping EXCEPT ![u] = {k}]
  /\ UNCHANGED <<hour, live, touched, removed, raced>>

AskKeepalive(u, k) ==
  /\ keeping[u] = {} /\ Drawn(k) /\ Prune(k)
  /\ keeping' = [keeping EXCEPT ![u] = {k} \cap {j \in Keys : IsLive(j)}]
  /\ UNCHANGED <<hour, touched, removed, raced>>

\* Second hold: the key is stored, whatever happened to it in between.
StoreKeepalive(u) == \E k \in keeping[u] :
  /\ live' = live \cup {k} /\ touched' = [touched EXCEPT ![k] = hour]
  /\ keeping' = [keeping EXCEPT ![u] = {}]
  /\ UNCHANGED <<hour, removed, raced>>

\* DELETE userDataStream: an error for a key that is not there.
RemoveKey(u, k) ==
  /\ keeping[u] = {} /\ k \in live
  /\ live' = live \ {k}
  /\ removed' = removed \cup {k}
  /\ raced' = raced \cup {j \in {k} : \E q \in KeyUsers : j \in keeping[q]}
  /\ UNCHANGED <<hour, touched, keeping>>

\* A keepalive does not take the key's whole life.
ListenTick ==
  /\ hour < LastHour
  /\ \A u \in KeyUsers : keeping[u] = {}
  /\ hour' = hour + 1
  /\ UNCHANGED <<live, touched, keeping, removed, raced>>

ListenNext ==
  \/ \E k \in Keys : \/ ConnectStream(k)
                     \/ \E u \in KeyUsers : CreateKey(u, k) \/ AskKeepalive(u, k) \/ RemoveKey(u, k)
  \/ \E u \in KeyUsers : StoreKeepalive(u)
  \/ ListenTick

ListenSpec == ListenInit /\ [][ListenNext]_listenVars

-----------------------------------------------------------------------------
(* listenkey.go keepalive, valid, remove: a listen key whose DELETE succeeded  *)
(* does not come back, unless a keepalive of it was under way as it went.      *)
RemovedStaysRemoved == removed \cap live \subseteq raced
=============================================================================
