----------------------------- MODULE SharedDict -----------------------------
(***************************************************************************)
(* The shared dictionary (examples/shared_dict.rs): entries of a slab zone *)
(* linked into a red-black tree and a queue, used by worker processes      *)
(* under the zone's lock.                                                  *)
(*                                                                         *)
(* A step is one operation on the tree, the queue, the zone or the count.  *)
(* Tree and queue operations check before they write, so a fault they find *)
(* changes nothing.  A worker may die between two steps: the master then   *)
(* releases the lock, and the next worker finds what was left.             *)
(***************************************************************************)
EXTENDS Naturals, Sequences, SequencesExt, FiniteSets

CONSTANTS Workers, Keys, Values,
          Slots,       \* entries the zone has room for
          MaxFaults,   \* tree and queue operations that report an error
          MaxCrashes

VARIABLES dict,     \* the zone: tree, queue, count, used slots and their contents
          holder,   \* the worker that has the lock
          op,       \* its operation
          saved,    \* what the dictionary was when the lock was taken
          answer,   \* of the last operation that ended
          faults, crashes,
          broken    \* ghost: a rollback failed

vars == <<dict, holder, op, saved, answer, faults, crashes, broken>>

Idle == [kind |-> "none", key |-> "none", value |-> "none", pc |-> "none", prev |-> 0, entry |-> 0, result |-> "none"]
EmptyDict == [tree |-> {}, queue |-> <<>>, count |-> 0, used |-> {}, of |-> [s \in Slots |-> [key |-> "none", value |-> "none"]]]

Init ==
    /\ dict = EmptyDict
    /\ holder = "none" /\ op = Idle
    /\ saved = <<>>
    /\ answer = [kind |-> "none", key |-> "none", value |-> "none", result |-> "none"]
    /\ faults = 0 /\ crashes = 0 /\ broken = FALSE

View == [i \in DOMAIN dict.queue |-> dict.of[dict.queue[i]]]
Unqueued(s) == SelectSeq(dict.queue, LAMBDA x : x # s)
Pushed(s) == <<s>> \o dict.queue

Begin(w, kind, key, value) ==
    /\ holder = "none"
    /\ holder' = w
    /\ op' = [Idle EXCEPT !.kind = kind, !.key = key, !.value = value,
                          !.pc = CASE kind \in {"set", "get", "delete"} -> "find" [] kind = "clear" -> "front" [] kind = "list" -> "list"]
    /\ saved' = View
    /\ UNCHANGED <<dict, answer, faults, crashes, broken>>

(***************************************************************************)
(* Steps under the lock.  At(pc) is the point reached, Goto the next one.  *)
(***************************************************************************)
At(pc) == holder # "none" /\ op.pc = pc
Goto(pc) == op' = [op EXCEPT !.pc = pc]
End(result) == op' = [op EXCEPT !.pc = "end", !.result = result]
Rest == UNCHANGED <<holder, saved, answer, crashes>>
Quiet == Rest /\ UNCHANGED <<faults, broken>>
\* The steps that undo what an operation did before it failed; they can fail too.
Rollback == op.pc \in {"requeue", "unlink", "relinkTree", "relinkQueue", "relinkUndo"}
Fault(f) == /\ f => faults < MaxFaults
            /\ faults' = IF f THEN faults + 1 ELSE faults
            /\ broken' = (broken \/ (f /\ Rollback))

\* shared_dict_find: more entries than the count allows may exceed its step limit.
Find(limit) ==
    /\ At("find")
    /\ limit => Cardinality(dict.tree) > dict.count + 1
    /\ LET found == {s \in dict.tree : dict.of[s].key = op.key}
       IN \E prev \in IF found = {} THEN {0} ELSE found :
           op' = IF limit THEN [op EXCEPT !.pc = "end", !.result = "error"]
                 ELSE IF op.kind = "set" THEN [op EXCEPT !.pc = "alloc", !.prev = prev]
                 ELSE IF prev = 0 THEN [op EXCEPT !.pc = "end", !.result = "absent"]
                 ELSE [op EXCEPT !.pc = IF op.kind = "get" THEN "touch" ELSE "detachQueue", !.prev = prev]
    /\ UNCHANGED dict /\ Quiet

\* shared_dict_allocate_entry
Allocate ==
    /\ At("alloc")
    /\ IF dict.used = Slots
       THEN End("error") /\ UNCHANGED dict
       ELSE LET s == CHOOSE x \in Slots \ dict.used : \A y \in Slots \ dict.used : x <= y
            IN  /\ dict' = [dict EXCEPT !.used = @ \cup {s}, !.of[s] = [key |-> op.key, value |-> op.value]]
                /\ op' = [op EXCEPT !.entry = s, !.pc = IF op.prev = 0 THEN "linkTree" ELSE "detachQueue"]
    /\ Quiet

\* shared_dict_get_value: the value is copied, then the entry is moved to the front.
Touch(copied) ==
    /\ At("touch")
    /\ IF copied /\ op.prev \in ToSet(dict.queue)
       THEN dict' = [dict EXCEPT !.queue = <<op.prev>> \o Unqueued(op.prev)] /\ End(dict.of[op.prev].value)
       ELSE End("error") /\ UNCHANGED dict
    /\ Quiet

\* shared_dict_detach_entry
DetachQueue(f) ==
    /\ At("detachQueue") /\ Fault(f)
    /\ IF f \/ op.prev \notin ToSet(dict.queue)
       THEN End("error") /\ UNCHANGED dict
       ELSE dict' = [dict EXCEPT !.queue = Unqueued(op.prev)] /\ Goto("detachTree")
    /\ Rest
DetachTree(f) ==
    /\ At("detachTree") /\ Fault(f)
    /\ IF f \/ op.prev \notin dict.tree
       THEN Goto("requeue") /\ UNCHANGED dict
       ELSE /\ dict' = [dict EXCEPT !.tree = @ \ {op.prev}]
            /\ Goto(IF op.kind = "set" THEN "linkTree" ELSE "free")
    /\ Rest
NotRequeued == dict

Requeued == [dict EXCEPT !.queue = Pushed(op.prev)]
Requeue(f) ==
    /\ At("requeue") /\ Fault(f)
    /\ dict' = IF f THEN dict ELSE Requeued
    /\ End("error")
    /\ Rest

\* shared_dict_link_entry for the new entry, or for the previous one put back.
Linking == IF op.pc \in {"relinkTree", "relinkQueue", "relinkUndo"} THEN op.prev ELSE op.entry
\* It failed: the previous entry is put back, once.
LinkFails ==
    IF op.pc \in {"linkTree", "unlink"} /\ op.prev # 0 THEN Goto("relinkTree") ELSE End("error")
LinkTree(f) ==
    /\ At("linkTree") \/ At("relinkTree")
    /\ Fault(f)
    /\ IF f THEN LinkFails /\ UNCHANGED dict
            ELSE /\ dict' = [dict EXCEPT !.tree = @ \cup {Linking}]
                 /\ Goto(IF At("linkTree") THEN "linkQueue" ELSE "relinkQueue")
    /\ Rest
LinkQueue(f) ==
    /\ At("linkQueue") \/ At("relinkQueue")
    /\ Fault(f)
    /\ IF f THEN Goto(IF At("linkQueue") THEN "unlink" ELSE "relinkUndo") /\ UNCHANGED dict
            ELSE /\ dict' = [dict EXCEPT !.queue = Pushed(Linking)]
                 /\ IF At("relinkQueue") THEN End("error") ELSE Goto(IF op.prev # 0 THEN "free" ELSE "count")
    /\ Rest
\* The queue refused the entry: it is taken out of the tree again.
Unlinked(s) == [dict EXCEPT !.tree = @ \ {s}]
Unlink(f) ==
    /\ At("unlink") \/ At("relinkUndo")
    /\ Fault(f)
    /\ dict' = IF f THEN dict ELSE Unlinked(Linking)
    /\ LinkFails
    /\ Rest

\* shared_dict_free_entry, after the entry left both structures.
FreeEntry ==
    /\ At("free")
    /\ dict' = [dict EXCEPT !.used = @ \ {op.prev}]
    /\ IF op.kind = "set" THEN End("ok") ELSE Goto("count")
    /\ Quiet

\* shared_dict_increment_entries, shared_dict_decrement_entries
Count ==
    /\ At("count")
    /\ dict' = [dict EXCEPT !.count = IF op.kind = "set" THEN @ + 1 ELSE IF @ = 0 THEN @ ELSE @ - 1]
    /\ IF op.kind = "clear" THEN Goto("front")
       ELSE End(IF op.kind = "delete" /\ dict.count = 0 THEN "error" ELSE "ok")
    /\ Quiet

\* shared_dict_clear: the loop runs on the count and takes what the queue has.
AfterEmpty == op' = [op EXCEPT !.pc = "end", !.result = "error"]
TakeFront ==
    /\ At("front")
    /\ IF dict.count = 0 THEN End("ok")
       ELSE IF dict.queue = <<>> THEN AfterEmpty
       ELSE op' = [op EXCEPT !.prev = Head(dict.queue), !.pc = "detachQueue"]
    /\ UNCHANGED dict /\ Quiet

\* shared_dict_entries_value
ListEntries(reserved) ==
    /\ At("list")
    /\ End(IF reserved /\ Len(dict.queue) <= dict.count + 1 THEN "ok" ELSE "error")
    /\ UNCHANGED dict /\ Quiet

Release ==
    /\ At("end")
    /\ holder' = "none" /\ op' = Idle
    /\ answer' = [kind |-> op.kind, key |-> op.key, value |-> op.value, result |-> op.result]
    /\ saved' = <<>>
    /\ UNCHANGED <<dict, faults, crashes, broken>>

\* The worker dies, and the master releases its lock.
Crash ==
    /\ holder # "none" /\ crashes < MaxCrashes
    /\ holder' = "none" /\ op' = Idle /\ saved' = <<>>
    /\ crashes' = crashes + 1
    /\ UNCHANGED <<dict, answer, faults, broken>>

\* shared_dict_init_shared for a zone of the previous configuration: validated and kept.
Kept == dict
Reload ==
    /\ holder = "none"
    /\ dict' = Kept
    /\ UNCHANGED <<holder, op, saved, answer, faults, crashes, broken>>

Step ==
    \/ Allocate \/ FreeEntry \/ Count \/ TakeFront \/ Release
    \/ \E b \in BOOLEAN : \/ Find(b) \/ Touch(b) \/ ListEntries(b)
                          \/ DetachQueue(b) \/ DetachTree(b) \/ Requeue(b) \/ LinkTree(b) \/ LinkQueue(b) \/ Unlink(b)

Next ==
    \/ Step \/ Crash \/ Reload
    \/ \E w \in Workers : \/ \E kind \in {"clear", "list"} : Begin(w, kind, "none", "none")
                          \/ \E k \in Keys : \/ \E kind \in {"get", "delete"} : Begin(w, kind, k, "none")
                                             \/ \E v \in Values : Begin(w, "set", k, v)

\* A worker runs on once it has the lock: the operations neither block nor wait.
Spec == Init /\ [][Next]_vars

(***************************************************************************)
(* Properties.                                                             *)
(***************************************************************************)
\* Between operations tree and queue hold the same entries, as many as counted,
\* one of each key, rolled back or not; unless a rollback failed itself, which the
\* code reports as it reports the operation's failure.
TypeOK ==
    holder = "none" /\ crashes = 0 /\ ~broken =>
        /\ ToSet(dict.queue) = dict.tree
        /\ Len(dict.queue) = Cardinality(dict.tree) /\ dict.count = Len(dict.queue)
        /\ \A s, t \in dict.tree : dict.of[s].key = dict.of[t].key => s = t

\* No entry that a lookup or a listing can reach is free memory, wherever in an
\* operation a worker died or a rollback failed.
NoDangling == dict.tree \cup ToSet(dict.queue) \subseteq dict.used

\* What the queue lists, the tree finds, wherever a worker died or a rollback failed:
\* entries enter the tree first and leave it last, so a delete misses no listed one.
ListedIsFound == ToSet(dict.queue) \subseteq dict.tree

Between == IF holder = "none" THEN View ELSE saved
Abstract == INSTANCE SharedDictSpec WITH order <- Between

\* Until a worker dies inside an operation or a rollback fails, the steps of each
\* operation add up to one operation on a map; a failed one changes no value.
ImplementsMap == crashes' = 0 /\ ~broken' => Abstract!Next \/ UNCHANGED <<Between, answer>>
============================================================================
