----------------------------- MODULE Dictionary ------------------------------
(* What internal/concurrency/dict promises (dict.go): a map from keys to     *)
(* values whose Set, Get, Delete and Len each take effect at one instant     *)
(* between call and return.                                                  *)
EXTENDS Integers, FiniteSets

CONSTANTS Callers, Keys, Values, Absent, NotCalling

VARIABLES
    dict,       \* the map
    calling     \* what each caller asked for, then what it will be told

dictVars == <<dict, calling>>

Calls == [op : {"set"}, key : Keys, value : Values]
         \cup [op : {"get", "delete"}, key : Keys] \cup [op : {"len"}]
Told(answer) == [told |-> answer]

Present(d) == {k \in DOMAIN d : d[k] # Absent}
Answer(call, d) ==
    CASE call.op = "set" -> TRUE
      [] call.op = "get" -> d[call.key]
      [] call.op = "delete" -> d[call.key] # Absent
      [] call.op = "len" -> Cardinality(Present(d))
Effect(call, d) ==
    CASE call.op = "set" -> [d EXCEPT ![call.key] = call.value]
      [] call.op = "delete" -> [d EXCEPT ![call.key] = Absent]
      [] OTHER -> d

DictInit ==
    /\ dict = [k \in Keys |-> Absent]
    /\ calling = [c \in Callers |-> NotCalling]

Invoke(c, call) ==
    /\ calling[c] = NotCalling
    /\ calling' = [calling EXCEPT ![c] = call]
    /\ UNCHANGED dict

TakeEffect(c) ==
    /\ calling[c] \in Calls
    /\ dict' = Effect(calling[c], dict)
    /\ calling' = [calling EXCEPT ![c] = Told(Answer(calling[c], dict))]

Return(c) ==
    /\ calling[c] # NotCalling /\ calling[c] \notin Calls
    /\ calling' = [calling EXCEPT ![c] = NotCalling]
    /\ UNCHANGED dict

\* Every step moves one caller on.
DictNext == \E c \in Callers :
    /\ calling'[c] # calling[c]
    /\ (\E call \in Calls : Invoke(c, call)) \/ TakeEffect(c) \/ Return(c)

DictSpec == DictInit /\ [][DictNext]_dictVars
=============================================================================
