--------------------------- MODULE SharedDictSpec ---------------------------
(***************************************************************************)
(* What the shared dictionary example promises: one map for all workers,   *)
(* listed with the entry used last first.  Every operation is one step.    *)
(***************************************************************************)
EXTENDS Sequences, SequencesExt

CONSTANTS Keys, Values

VARIABLES order,   \* the entries, as key and value, the one used last first
          answer   \* of the last operation that ended

vars == <<order, answer>>

Others(key) == SelectSeq(order, LAMBDA e : e.key # key)
Held(key) == {order[i] : i \in {j \in DOMAIN order : order[j].key = key}}
Touched(key) == SetToSeq(Held(key)) \o Others(key)

Answer(kind, key, value, result) == [kind |-> kind, key |-> key, value |-> value, result |-> result]

Init == order = <<>> /\ answer = Answer("none", "none", "none", "none")

Set(key, value) ==
    /\ order' = <<[key |-> key, value |-> value]>> \o Others(key)
    /\ answer' = Answer("set", key, value, "ok")
Get(key) ==
    /\ order' = Touched(key)
    /\ answer' = Answer("get", key, "none", IF Held(key) = {} THEN "absent" ELSE (CHOOSE e \in Held(key) : TRUE).value)
Delete(key) ==
    /\ order' = Others(key)
    /\ answer' = Answer("delete", key, "none", IF Held(key) = {} THEN "absent" ELSE "ok")
Clear == order' = <<>> /\ answer' = Answer("clear", "none", "none", "ok")
List == order' = order /\ \E result \in {"ok", "error"} : answer' = Answer("list", "none", "none", result)
\* A failed operation changes no value; it may have used the entry.
Fail(kind, key, value) ==
    /\ order' \in {order, Touched(key)}
    /\ answer' = Answer(kind, key, value, "error")
\* A failed clear has removed entries from the front.
FailClear ==
    /\ \E n \in DOMAIN order : order' = SubSeq(order, n, Len(order))
    /\ answer' = Answer("clear", "none", "none", "error")

Next ==
    \/ Clear \/ FailClear \/ List
    \/ \E key \in Keys : \/ Get(key) \/ Fail("get", key, "none")
                        \/ Delete(key) \/ Fail("delete", key, "none")
                        \/ \E value \in Values : Set(key, value) \/ Fail("set", key, value)

Spec == Init /\ [][Next]_vars
============================================================================
