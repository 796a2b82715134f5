--------------------------- MODULE ConcurrentDict ----------------------------
(* The dictionaries of internal/concurrency/dict.                            *)
(*   snapshot  LockFreeTreeMap and LockFreeSkipListMap: a write clones the   *)
(*             published snapshot and swaps the pointer if nobody else did;  *)
(*             they differ only in how a snapshot keeps its keys sorted.     *)
(*   skiplist  SkipListMap: towers of forward pointers under one RWMutex.    *)
(*   sharded   ShardedMap: one RWMutex per shard.                            *)
(* A call is a step from its invocation to its last critical section and a   *)
(* step that returns.  A pointer that is still held is never reused, so a    *)
(* snapshot is identified by the number of swaps before it.                  *)
EXTENDS Integers, FiniteSets

CONSTANTS
    Callers, MapValues, Absent, NotCalling,
    KeyCount,           \* the keys are 1..KeyCount
    ShardCount, ShardOf,\* the shards 0..n-1 and where each key hashes to
    MaxLevel,           \* levels of the skip list (16)
    Dictionaries,       \* the implementations a behaviour may be about
    MaxCalls            \* bound on calls

MapKeys == 1..KeyCount
Root == 0               \* the head node, before every key
Nil == KeyCount + 1     \* the end of a level, after every key
Nodes == {Root} \cup MapKeys
Heights == 1..MaxLevel

ASSUME DictAssumption ==
    /\ KeyCount \in Nat /\ MaxLevel \in Nat \ {0} /\ ShardCount \in Nat \ {0} /\ MaxCalls \in Nat
    /\ ShardOf \in [MapKeys -> 0..(ShardCount - 1)]
    /\ Dictionaries \subseteq {"snapshot", "skiplist", "sharded"}

VARIABLES
    form,       \* the implementation
    value,      \* the value stored for each key, or Absent
    swaps,      \* how often the snapshot pointer was swapped
    forward,    \* skip list: forward[level][node]
    level,      \* skip list: SkipListMap.level
    caller,     \* each caller's call and its locals
    calls       \* how many calls were made

cdVars == <<form, value, swaps, forward, level, caller, calls>>

-----------------------------------------------------------------------------
(* The skip list's pointers. *)

\* To the right on one level while the next key is smaller.
Walk(lvl, key) ==
    LET walk[n \in Nodes] == IF forward[lvl][n] < key THEN walk[forward[lvl][n]] ELSE n IN walk

\* update: the search goes down from the top level in use, each level from
\* where the one above stopped.
Update(key) ==
    LET at[l \in Heights] == IF l > level THEN Root
                             ELSE Walk(l, key)[IF l = level THEN Root ELSE at[l + 1]]
    IN at

Found(key) == forward[1][Update(key)[1]] = key

\* A new node takes over its predecessors' pointers on the levels it has.
Link(key, height) ==
    [l \in Heights |-> IF l > height THEN forward[l]
                       ELSE [forward[l] EXCEPT ![key] = forward[l][Update(key)[l]], ![Update(key)[l]] = key]]

\* A deleted node is taken out level by level, up to its height.  A later Set
\* of its key makes a new node, whose pointers are nil.
Unlink(key) ==
    [l \in Heights |-> IF l =< level /\ \A m \in 1..l : forward[m][Update(key)[m]] = key
                       THEN [forward[l] EXCEPT ![Update(key)[l]] = forward[l][key], ![key] = Nil]
                       ELSE forward[l]]

\* The top level is dropped while it is empty.
Lower(f) == CHOOSE l \in 1..level : /\ l = 1 \/ f[l][Root] # Nil
                                    /\ \A m \in (l + 1)..level : f[m][Root] = Nil

\* What a caller can find.
Contents == [k \in MapKeys |-> IF form = "skiplist" /\ ~ Found(k) THEN Absent ELSE value[k]]

D == INSTANCE Dictionary WITH
        Keys <- MapKeys, Values <- MapValues, dict <- Contents,
        calling <- [c \in Callers |->
            CASE caller[c].at = "idle" -> NotCalling
              [] caller[c].at = "done" -> [told |-> caller[c].answer]
              [] OTHER -> caller[c].call]

Stored == MapValues \cup {Absent}

\* No call and no answer to one is the mark of not calling.
ASSUME CallAssumption ==
    /\ NotCalling \notin D!Calls
    /\ NotCalling \notin [told : BOOLEAN]
    /\ NotCalling \notin [told : Stored]
    /\ NotCalling \notin [told : Nat]

-----------------------------------------------------------------------------
CDInit ==
    /\ form \in Dictionaries
    /\ value = [k \in MapKeys |-> Absent]
    /\ swaps = 0
    /\ forward = [l \in Heights |-> [n \in Nodes |-> Nil]]
    /\ level = 1
    /\ caller = [c \in Callers |-> [at |-> "idle"]]
    /\ calls = 0

At(c, at) == caller[c].at = at
Asks(c, ops) == At(c, "begun") /\ caller[c].call.op \in ops
Become(c, fields) == caller' = [caller EXCEPT ![c] = fields]

\* ShardedMap.Len adds up its shards one after the other and is left out.
Begin(c, call) ==
    /\ At(c, "idle") /\ calls < MaxCalls
    /\ call.op = "len" => form # "sharded"
    /\ Become(c, [at |-> "begun", call |-> call])
    /\ calls' = calls + 1
    /\ UNCHANGED <<form, value, swaps, forward, level>>

\* The step in which c's call takes effect, on the map it works on.
Conclude(c, d) ==
    LET call == caller[c].call
    IN  /\ value' = D!Effect(call, d)
        /\ Become(c, [at |-> "done", call |-> call, answer |-> D!Answer(call, d)])

\* Under the RWMutex, or that of the key's shard.
LockedCall(c) ==
    /\ form = "sharded" /\ Asks(c, {"set", "get", "delete"})
    /\ Conclude(c, Contents)
    /\ UNCHANGED <<form, swaps, forward, level, calls>>

SkipRead(c) ==
    /\ form = "skiplist" /\ Asks(c, {"get", "len"})
    /\ Conclude(c, Contents)
    /\ UNCHANGED <<form, swaps, forward, level, calls>>

\* randomLevel draws the height of a new node.
SkipSet(c, height) ==
    /\ form = "skiplist" /\ Asks(c, {"set"})
    /\ Conclude(c, Contents)
    /\ LET key == caller[c].call.key IN
       IF Found(key)
       THEN height = 1 /\ UNCHANGED <<forward, level>>
       ELSE forward' = Link(key, height) /\ level' = (IF height > level THEN height ELSE level)
    /\ UNCHANGED <<form, swaps, calls>>

SkipDelete(c) ==
    /\ form = "skiplist" /\ Asks(c, {"delete"})
    /\ Conclude(c, Contents)
    /\ LET key == caller[c].call.key IN
       IF Found(key)
       THEN forward' = Unlink(key) /\ level' = Lower(Unlink(key))
       ELSE UNCHANGED <<forward, level>>
    /\ UNCHANGED <<form, swaps, calls>>

\* Reads, and a Delete that does not find its key, end with the snapshot that
\* is published now; a write clones it.
Load(c) ==
    /\ form = "snapshot" /\ Asks(c, {"set", "get", "delete", "len"})
    /\ LET call == caller[c].call IN
       IF call.op \in {"get", "len"} \/ (call.op = "delete" /\ value[call.key] = Absent)
       THEN Conclude(c, value)
       ELSE Become(c, [at |-> "cloned", call |-> call, old |-> swaps, clone |-> value]) /\ UNCHANGED value
    /\ UNCHANGED <<form, swaps, forward, level, calls>>

\* Mutant: the clone is stored without comparing.
SwapBlind(c) ==
    /\ At(c, "cloned")
    /\ Conclude(c, caller[c].clone)
    /\ swaps' = swaps + 1
    /\ UNCHANGED <<form, forward, level, calls>>

\* CompareAndSwap; if another write came first, the call starts over.
Swap(c) ==
    /\ At(c, "cloned")
    /\ IF caller[c].old = swaps
       THEN Conclude(c, caller[c].clone) /\ swaps' = swaps + 1
       ELSE Become(c, [at |-> "begun", call |-> caller[c].call]) /\ UNCHANGED <<value, swaps>>
    /\ UNCHANGED <<form, forward, level, calls>>

ReturnAnswer(c) ==
    /\ At(c, "done")
    /\ Become(c, [at |-> "idle"])
    /\ UNCHANGED <<form, value, swaps, forward, level, calls>>

CDNext ==
    \E c \in Callers :
        \/ \E call \in D!Calls : Begin(c, call)
        \/ \E height \in Heights : SkipSet(c, height)
        \/ SkipDelete(c) \/ SkipRead(c) \/ LockedCall(c) \/ Load(c) \/ Swap(c)
        \/ ReturnAnswer(c)

CDSpec == CDInit /\ [][CDNext]_cdVars

-----------------------------------------------------------------------------
(* Properties. *)

\* Set, Get, Delete and Len of every implementation (Len of the sharded map
\* excepted) take effect at one instant, and the skip list's pointers lead to
\* every key that was set and not deleted.
ImplementsDictionary == D!DictSpec
=============================================================================
